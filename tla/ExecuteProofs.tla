---------------------------- MODULE ExecuteProofs ----------------------------
(* Proofs about Execute: the places of run and fallback, the limit on      *)
(* running calls, the force flags and the verdicts, for any finite set of  *)
(* callers and any configurations.                                         *)
EXTENDS Execute, FiniteSetTheorems, TLAPS

(* Where a call holds a place among the commands, and among the fallbacks. *)
HoldsCommand == InRun \cup {"throttled"}
HoldsFallback == {"fallbackLimit", "runFallback"}

-----------------------------------------------------------------------------
(* Counting callers.                                                       *)

(* The callers at some locations are finitely many.                        *)
LEMMA AtFinite ==
  ASSUME NEW L
  PROVE  IsFiniteSet(At(L)) /\ Cardinality(At(L)) \in Nat
BY GoroutinesAssumption, FS_Subset, FS_CardinalityType DEF At

(* A caller that goes to a location changes a count only by coming into    *)
(* the counted locations or by leaving them.                               *)
LEMMA MoveCount ==
  ASSUME NEW L, pc \in [Goroutines -> Locations], NEW g \in Goroutines,
         NEW location, Goto(g, location)
  PROVE  /\ (pc[g] \in L <=> location \in L) => At(L)' = At(L)
         /\ pc[g] \notin L /\ location \in L =>
              Cardinality(At(L)') = Cardinality(At(L)) + 1
         /\ pc[g] \in L /\ location \notin L =>
              Cardinality(At(L)') = Cardinality(At(L)) - 1
<1>1. (pc[g] \in L <=> location \in L) => At(L)' = At(L)
  BY DEF At, Goto
<1>2. ASSUME pc[g] \notin L, location \in L
      PROVE  Cardinality(At(L)') = Cardinality(At(L)) + 1
  <2>1. At(L)' = At(L) \cup {g} /\ g \notin At(L)
    BY <1>2 DEF At, Goto
  <2>2. QED
    BY <2>1, AtFinite, FS_AddElement
<1>3. ASSUME pc[g] \in L, location \notin L
      PROVE  Cardinality(At(L)') = Cardinality(At(L)) - 1
  <2>1. At(L)' = At(L) \ {g} /\ g \in At(L)
    BY <1>3 DEF At, Goto
  <2>2. QED
    BY <2>1, AtFinite, FS_RemoveElement
<1>4. QED
  BY <1>1, <1>2, <1>3

-----------------------------------------------------------------------------
(* Places.                                                                 *)

(* A caller that moves without crossing the door of run or of fallback,    *)
(* and leaves the counters alone, keeps the counters right.                *)
LEMMA CountersKept ==
  ASSUME TypeOK, PlacesGivenBack, NEW g \in Goroutines, NEW location, Goto(g, location),
         pc[g] \in HoldsCommand <=> location \in HoldsCommand,
         pc[g] \in HoldsFallback <=> location \in HoldsFallback,
         UNCHANGED counters
  PROVE  PlacesGivenBack'
<1>1. At(HoldsCommand)' = At(HoldsCommand) /\ At(HoldsFallback)' = At(HoldsFallback)
  BY MoveCount DEF TypeOK
<1>2. QED
  BY <1>1 DEF PlacesGivenBack, HoldsCommand, HoldsFallback, counters

(* Every step keeps the two counters equal to the places that are held.    *)
LEMMA PlacesStep ==
  ASSUME TypeOK, PlacesGivenBack, [Next]_vars
  PROVE  PlacesGivenBack'
<1>1. ASSUME NEW g \in Goroutines,
             \/ Call(g) \/ ReadDisabled(g) \/ Bypass(g) \/ ReadLimit(g)
             \/ ReadForcedClosed(g) \/ ReadState(g) \/ Prevented(g) \/ ReadTimeout(g)
      PROVE  PlacesGivenBack'
  BY <1>1, CountersKept
  DEF Call, ReadDisabled, Bypass, ReadLimit, ReadForcedClosed, ReadState, Prevented, ReadTimeout,
      HoldsCommand, HoldsFallback, InRun
<1>2. ASSUME NEW g \in Goroutines, ReadForceOpen(g) \/ ReadCount(g) \/ Allow(g)
      PROVE  PlacesGivenBack'
  BY <1>2, CountersKept
  DEF ReadForceOpen, ReadCount, Allow, ShortCircuit, Admit, HoldsCommand, HoldsFallback, InRun
<1>3. ASSUME NEW g \in Goroutines, Enter(g) PROVE PlacesGivenBack'
  <2>1. PICK location \in {"throttled", "timeout"} : Goto(g, location)
    BY <1>3 DEF Enter
  <2>2. /\ Cardinality(At(HoldsCommand)') = Cardinality(At(HoldsCommand)) + 1
        /\ At(HoldsFallback)' = At(HoldsFallback)
    BY <1>3, <2>1, MoveCount DEF TypeOK, Enter, HoldsCommand, HoldsFallback, InRun
  <2>3. QED
    BY <1>3, <2>2 DEF Enter, PlacesGivenBack, HoldsCommand, HoldsFallback
<1>4. ASSUME NEW g \in Goroutines, Throttled(g) \/ LeaveRun(g) PROVE PlacesGivenBack'
  <2>1. PICK location \in {"fallback", "returned"} : Goto(g, location)
    BY <1>4 DEF Throttled, LeaveRun
  <2>2. /\ Cardinality(At(HoldsCommand)') = Cardinality(At(HoldsCommand)) - 1
        /\ At(HoldsFallback)' = At(HoldsFallback)
    BY <1>4, <2>1, MoveCount DEF TypeOK, Throttled, LeaveRun, HoldsCommand, HoldsFallback, InRun
  <2>3. QED
    BY <1>4, <2>2 DEF Throttled, LeaveRun, PlacesGivenBack, HoldsCommand, HoldsFallback
<1>5. ASSUME NEW g \in Goroutines, NEW r, NEW late, NEW canceled, RunReturns(g, r, late, canceled)
      PROVE  PlacesGivenBack'
  BY <1>5, CountersKept DEF RunReturns, HoldsCommand, HoldsFallback, InRun
<1>6. ASSUME NEW g \in Goroutines,
             \/ RunPanics(g) \/ Interrupted(g) \/ AfterFailure(g) \/ MayOpen(g)
             \/ ShouldOpen(g) \/ AfterSuccess(g) \/ MayClose(g) \/ Transit(g)
      PROVE  PlacesGivenBack'
  BY <1>6, CountersKept
  DEF RunPanics, Interrupted, AfterFailure, MayOpen, ShouldOpen, AfterSuccess, MayClose, Transit,
      HoldsCommand, HoldsFallback, InRun
<1>7. ASSUME NEW g \in Goroutines, Fallback(g) \/ Return(g) PROVE PlacesGivenBack'
  BY <1>7, CountersKept DEF Fallback, Return, HoldsCommand, HoldsFallback, InRun
<1>8. ASSUME NEW g \in Goroutines, EnterFallback(g) PROVE PlacesGivenBack'
  <2>1. /\ Goto(g, "fallbackLimit")
        /\ pc[g] \notin HoldsFallback /\ "fallbackLimit" \in HoldsFallback
        /\ pc[g] \notin HoldsCommand /\ "fallbackLimit" \notin HoldsCommand
    BY <1>8 DEF EnterFallback, HoldsCommand, HoldsFallback, InRun
  <2>2. /\ Cardinality(At(HoldsFallback)') = Cardinality(At(HoldsFallback)) + 1
        /\ At(HoldsCommand)' = At(HoldsCommand)
    BY <2>1, MoveCount DEF TypeOK
  <2>3. QED
    BY <1>8, <2>2 DEF EnterFallback, PlacesGivenBack, HoldsCommand, HoldsFallback
<1>9. ASSUME NEW g \in Goroutines, ReadFallbackLimit(g) PROVE PlacesGivenBack'
  <2>1. CASE OverLimit(currentCount[g], config.FallbackMaxConcurrentRequests)
    <3>1. /\ Goto(g, "returned")
          /\ pc[g] \in HoldsFallback /\ "returned" \notin HoldsFallback
          /\ pc[g] \notin HoldsCommand /\ "returned" \notin HoldsCommand
      BY <1>9, <2>1 DEF ReadFallbackLimit, HoldsCommand, HoldsFallback, InRun
    <3>2. /\ Cardinality(At(HoldsFallback)') = Cardinality(At(HoldsFallback)) - 1
          /\ At(HoldsCommand)' = At(HoldsCommand)
      BY <3>1, MoveCount DEF TypeOK
    <3>3. QED
      BY <1>9, <2>1, <3>2 DEF ReadFallbackLimit, PlacesGivenBack, HoldsCommand, HoldsFallback
  <2>2. CASE ~OverLimit(currentCount[g], config.FallbackMaxConcurrentRequests)
    BY <1>9, <2>2, CountersKept DEF ReadFallbackLimit, counters, HoldsCommand, HoldsFallback, InRun
  <2>3. QED
    BY <2>1, <2>2
<1>10. ASSUME NEW g \in Goroutines, NEW r, FallbackEnds(g, r) PROVE PlacesGivenBack'
  <2>1. /\ Goto(g, "returned")
        /\ pc[g] \in HoldsFallback /\ "returned" \notin HoldsFallback
        /\ pc[g] \notin HoldsCommand /\ "returned" \notin HoldsCommand
    BY <1>10 DEF FallbackEnds, HoldsCommand, HoldsFallback, InRun
  <2>2. /\ Cardinality(At(HoldsFallback)') = Cardinality(At(HoldsFallback)) - 1
        /\ At(HoldsCommand)' = At(HoldsCommand)
    BY <2>1, MoveCount DEF TypeOK
  <2>3. QED
    BY <1>10, <2>2 DEF FallbackEnds, PlacesGivenBack, HoldsCommand, HoldsFallback
<1>11. ASSUME UNCHANGED <<pc, counters>> PROVE PlacesGivenBack'
  BY <1>11 DEF PlacesGivenBack, At, counters
<1>12. QED
  <2>1. CASE ByHand \/ StoreField \/ UNCHANGED vars
    BY <1>11, <2>1 DEF ByHand, StoreField, vars
  <2>2. ASSUME NEW c \in Configs, SetConfigThreadSafe(c) PROVE PlacesGivenBack'
    BY <1>11, <2>2 DEF SetConfigThreadSafe
  <2>3. ASSUME NEW g \in Goroutines, Begin(g) PROVE PlacesGivenBack'
    BY <1>1, <1>2, <1>3, <1>4, <2>3 DEF Begin
  <2>4. ASSUME NEW g \in Goroutines, End(g) PROVE PlacesGivenBack'
    BY <1>4, <1>5, <1>6, <1>7, <1>8, <1>9, <1>10, <2>4 DEF End
  <2>5. QED
    BY <2>1, <2>2, <2>3, <2>4 DEF Next

-----------------------------------------------------------------------------
(* Types.                                                                  *)

(* The configuration stays well typed whichever field is being stored.     *)
LEMMA StoreFieldTypes ==
  ASSUME TypeOK, StoreField
  PROVE  config' \in Config /\ nextField' \in 0 .. Len(Fields)
<1>1. newConfig \in Config
  BY ConfigsAssumption DEF TypeOK
<1>2. nextField \in 1 .. 8 /\ Len(Fields) = 8
  BY DEF TypeOK, StoreField, Fields
<1>3. nextField' \in 0 .. Len(Fields)
  BY <1>2 DEF StoreField
<1>4. Fields[nextField] \in {"ForcedClosed", "ForceOpen", "Disabled", "ExecutionTimeout",
        "MaxConcurrentRequests", "IgnoreInterrupts", "FallbackDisabled",
        "FallbackMaxConcurrentRequests"}
  BY <1>2 DEF Fields
<1>5. config' \in Config
  BY <1>1, <1>4 DEF TypeOK, StoreField, Config
<1>6. QED
  BY <1>3, <1>5

(* What the pieces of the actions do to the types of a caller's locals.    *)
LEMMA LocalTypes ==
  ASSUME TypeOK, NEW g \in Goroutines
  PROVE  /\ \A l \in Locations : Goto(g, l) => pc' \in [Goroutines -> Locations]
         /\ \A r \in Results : Returns(g, r) => result' \in [Goroutines -> Results]
         /\ RunVerdict(g) => verdicts' \in [Goroutines -> Nat]
         /\ FallbackVerdict(g) => fallbackVerdicts' \in [Goroutines -> Nat]
         /\ \A r \in {"none", "nil", "err", "throttled", "panic"} : FallbackReturns(g, r) =>
              fallbackResult' \in [Goroutines -> {"none", "nil", "err", "throttled", "panic"}]
<1>1. \A l \in Locations : Goto(g, l) => pc' \in [Goroutines -> Locations]
  BY DEF TypeOK, Goto
<1>2. \A r \in Results : Returns(g, r) => result' \in [Goroutines -> Results]
  BY DEF TypeOK, Returns
<1>3. /\ RunVerdict(g) => verdicts' \in [Goroutines -> Nat]
      /\ FallbackVerdict(g) => fallbackVerdicts' \in [Goroutines -> Nat]
  <2>1. verdicts[g] + 1 \in Nat /\ fallbackVerdicts[g] + 1 \in Nat
    BY DEF TypeOK
  <2>2. RunVerdict(g) => verdicts' \in [Goroutines -> Nat]
    BY <2>1 DEF TypeOK, RunVerdict
  <2>3. FallbackVerdict(g) => fallbackVerdicts' \in [Goroutines -> Nat]
    BY <2>1 DEF TypeOK, FallbackVerdict
  <2>4. QED
    BY <2>2, <2>3
<1>4. \A r \in {"none", "nil", "err", "throttled", "panic"} : FallbackReturns(g, r) =>
        fallbackResult' \in [Goroutines -> {"none", "nil", "err", "throttled", "panic"}]
  BY DEF TypeOK, FallbackReturns
<1>5. QED
  BY <1>1, <1>2, <1>3, <1>4

(* Every step keeps every variable well typed, given that the counters are *)
(* the numbers of places held.                                             *)
LEMMA TypeStep ==
  ASSUME TypeOK, PlacesGivenBack', [Next]_vars
  PROVE  TypeOK'
<1>1. concurrentCommands' \in Nat /\ concurrentFallbacks' \in Nat
  <2>1. \A L : Cardinality(At(L)') \in Nat
    BY GoroutinesAssumption, FS_Subset, FS_CardinalityType DEF At
  <2>2. QED
    BY <2>1 DEF PlacesGivenBack
<1>2. /\ config.ForceOpen \in BOOLEAN /\ config.ForcedClosed \in BOOLEAN
      /\ config.ExecutionTimeout \in BOOLEAN /\ config.MaxConcurrentRequests \in Int
  BY DEF TypeOK, Config
<1> USE <1>1, <1>2 DEF TypeOK, Locations, Results, configVars, counters, locals, held, history
<1>3. ASSUME NEW g \in Goroutines, Call(g) PROVE TypeOK'
  <2>1. heldOpen' \in [Goroutines -> BOOLEAN] /\ heldClosed' \in [Goroutines -> BOOLEAN]
    BY <1>3, Zenon DEF Call
  <2>2. QED
    BY <1>3, <2>1, LocalTypes DEF Call
<1>4. ASSUME NEW g \in Goroutines, ReadDisabled(g) PROVE TypeOK'
  BY <1>4, LocalTypes DEF ReadDisabled
<1>5. ASSUME NEW g \in Goroutines, Bypass(g) PROVE TypeOK'
  BY <1>5, LocalTypes DEF Bypass
<1>6. ASSUME NEW g \in Goroutines, ReadLimit(g) PROVE TypeOK'
  BY <1>6, LocalTypes DEF ReadLimit
<1>7. ASSUME NEW g \in Goroutines, ReadForceOpen(g) PROVE TypeOK'
  BY <1>7, LocalTypes DEF ReadForceOpen, ShortCircuit, Admit
<1>8. ASSUME NEW g \in Goroutines, ReadForcedClosed(g) PROVE TypeOK'
  BY <1>8, LocalTypes DEF ReadForcedClosed
<1>9. ASSUME NEW g \in Goroutines, ReadState(g) PROVE TypeOK'
  BY <1>9, LocalTypes DEF ReadState
<1>10. ASSUME NEW g \in Goroutines, ReadCount(g) PROVE TypeOK'
  BY <1>10, LocalTypes DEF ReadCount, ShortCircuit, Admit
<1>11. ASSUME NEW g \in Goroutines, Allow(g) PROVE TypeOK'
  BY <1>11, LocalTypes DEF Allow, ShortCircuit, Admit
<1>12. ASSUME NEW g \in Goroutines, Prevented(g) PROVE TypeOK'
  BY <1>12, LocalTypes DEF Prevented
<1>13. ASSUME NEW g \in Goroutines, Enter(g) PROVE TypeOK'
  BY <1>13, LocalTypes DEF Enter
<1>14. ASSUME NEW g \in Goroutines, Throttled(g) PROVE TypeOK'
  BY <1>14, LocalTypes DEF Throttled
<1>15. ASSUME NEW g \in Goroutines, ReadTimeout(g) PROVE TypeOK'
  <2>1. hasDeadline' \in [Goroutines -> BOOLEAN]
    BY <1>15, Zenon DEF ReadTimeout
  <2>2. QED
    BY <1>15, <2>1, LocalTypes DEF ReadTimeout
<1>16. ASSUME NEW g \in Goroutines, RunPanics(g) PROVE TypeOK'
  BY <1>16, LocalTypes DEF RunPanics
<1>17. ASSUME NEW g \in Goroutines, Interrupted(g) PROVE TypeOK'
  BY <1>17, LocalTypes DEF Interrupted
<1>18. ASSUME NEW g \in Goroutines, AfterFailure(g) PROVE TypeOK'
  BY <1>18, LocalTypes DEF AfterFailure
<1>19. ASSUME NEW g \in Goroutines, MayOpen(g) PROVE TypeOK'
  BY <1>19, LocalTypes DEF MayOpen
<1>20. ASSUME NEW g \in Goroutines, ShouldOpen(g) PROVE TypeOK'
  BY <1>20, LocalTypes DEF ShouldOpen
<1>21. ASSUME NEW g \in Goroutines, AfterSuccess(g) PROVE TypeOK'
  BY <1>21, LocalTypes DEF AfterSuccess
<1>22. ASSUME NEW g \in Goroutines, MayClose(g) PROVE TypeOK'
  BY <1>22, LocalTypes DEF MayClose
<1>23. ASSUME NEW g \in Goroutines, Transit(g) PROVE TypeOK'
  BY <1>23, LocalTypes DEF Transit
<1>24. ASSUME NEW g \in Goroutines, LeaveRun(g) PROVE TypeOK'
  BY <1>24, LocalTypes DEF LeaveRun
<1>25. ASSUME NEW g \in Goroutines, Fallback(g) PROVE TypeOK'
  BY <1>25, LocalTypes DEF Fallback
<1>26. ASSUME NEW g \in Goroutines, EnterFallback(g) PROVE TypeOK'
  BY <1>26, LocalTypes DEF EnterFallback
<1>27. ASSUME NEW g \in Goroutines, ReadFallbackLimit(g) PROVE TypeOK'
  BY <1>27, LocalTypes DEF ReadFallbackLimit
<1>28. ASSUME NEW g \in Goroutines, NEW r \in {"nil", "err", "bad"},
              NEW late, NEW canceled, RunReturns(g, r, late, canceled)
       PROVE  TypeOK'
  BY <1>28, LocalTypes DEF RunReturns
<1>29. ASSUME NEW g \in Goroutines, NEW r \in {"nil", "err", "panic"}, FallbackEnds(g, r)
       PROVE  TypeOK'
  BY <1>29, LocalTypes DEF FallbackEnds
<1>30. ASSUME NEW g \in Goroutines, Return(g) PROVE TypeOK'
  <2>1. /\ hasDeadline' \in [Goroutines -> BOOLEAN]
        /\ heldOpen' \in [Goroutines -> BOOLEAN] /\ heldClosed' \in [Goroutines -> BOOLEAN]
    BY <1>30, Zenon DEF Return
  <2>2. QED
    BY <1>30, <2>1, LocalTypes DEF Return
<1>31. CASE ByHand
  BY <1>31 DEF ByHand
<1>32. ASSUME NEW c \in Configs, SetConfigThreadSafe(c) PROVE TypeOK'
  BY <1>32 DEF SetConfigThreadSafe, Fields
<1>33. CASE StoreField
  <2>1. heldOpen' \in [Goroutines -> BOOLEAN] /\ heldClosed' \in [Goroutines -> BOOLEAN]
    BY <1>33, Zenon DEF StoreField
  <2>2. QED
    BY <1>33, <2>1, StoreFieldTypes DEF StoreField
<1>34. CASE UNCHANGED vars
  BY <1>34, LocalTypes DEF vars
<1>35. ASSUME NEW g \in Goroutines, Begin(g) PROVE TypeOK'
  BY ONLY <1>35, <1>3, <1>4, <1>5, <1>6, <1>7, <1>8, <1>9, <1>10, <1>11, <1>12, <1>13,
          <1>14, <1>15
  DEF Begin
<1>36. ASSUME NEW g \in Goroutines, End(g) PROVE TypeOK'
  BY ONLY <1>36, <1>16, <1>17, <1>18, <1>19, <1>20, <1>21, <1>22, <1>23, <1>24, <1>25,
          <1>26, <1>27, <1>28, <1>29, <1>30
  DEF End
<1>37. QED
  BY ONLY [Next]_vars, <1>31, <1>32, <1>33, <1>34, <1>35, <1>36 DEF Next

(* Initially no caller is anywhere.                                        *)
LEMMA InitPlaces == Init => TypeOK /\ PlacesGivenBack
<1> SUFFICES ASSUME Init PROVE TypeOK /\ PlacesGivenBack
  OBVIOUS
<1>1. /\ isOpen \in BOOLEAN /\ hasDeadline \in [Goroutines -> BOOLEAN]
      /\ heldOpen \in [Goroutines -> BOOLEAN] /\ heldClosed \in [Goroutines -> BOOLEAN]
  BY Zenon DEF Init
<1>2. TypeOK
  BY <1>1, ConfigsAssumption DEF Init, TypeOK, Locations, Results, Fields
<1>3. At(HoldsCommand) = {} /\ At(HoldsFallback) = {}
  BY DEF Init, At, HoldsCommand, HoldsFallback, InRun
<1>4. PlacesGivenBack
  BY <1>3, FS_EmptySet DEF Init, PlacesGivenBack, HoldsCommand, HoldsFallback
<1>5. QED
  BY <1>2, <1>4

(* The types and the places need each other: a counter is a natural number *)
(* because it is the number of places held.                                *)
LEMMA TypesAndPlaces == Spec => [](TypeOK /\ PlacesGivenBack)
<1>1. TypeOK /\ PlacesGivenBack /\ [Next]_vars => (TypeOK /\ PlacesGivenBack)'
  BY PlacesStep, TypeStep
<1>2. QED
  BY <1>1, InitPlaces, PTL DEF Spec

(* Every variable of Execute keeps its type, and neither counter goes      *)
(* below zero.                                                             *)
THEOREM ExecuteTypeCorrect == Spec => []TypeOK
BY TypesAndPlaces, PTL

(* Every place taken, in run or in fallback, is given back exactly once,   *)
(* on every way out, panics included.                                      *)
THEOREM PlacesSafe == Spec => []PlacesGivenBack
BY TypesAndPlaces, PTL

-----------------------------------------------------------------------------
(* The limit on running calls.                                             *)

(* RunsWithinLimit as it is inductive: calls may leave in any order, so    *)
(* every set of running calls has a member that was allowed that many, and *)
(* not only the set of all of them.                                        *)
EveryGroupWithinLimit ==
  \A S \in SUBSET At(InRun) : S # {} =>
    \E g \in S : maxConcurrent[g] < 0 \/ Cardinality(S) <= maxConcurrent[g]

(* A caller that moves without entering run, and no running call of which  *)
(* has its limit changed, keeps the groups within their limits.            *)
LEMMA LimitKept ==
  ASSUME TypeOK, EveryGroupWithinLimit, NEW g \in Goroutines, NEW location,
         Goto(g, location), location \in InRun => pc[g] \in InRun,
         \A h \in Goroutines \ {g} : maxConcurrent'[h] = maxConcurrent[h],
         location \in InRun => maxConcurrent'[g] = maxConcurrent[g]
  PROVE  EveryGroupWithinLimit'
<1>1. At(InRun)' \subseteq At(InRun)
  BY DEF TypeOK, At, Goto
<1>2. \A h \in At(InRun)' : maxConcurrent'[h] = maxConcurrent[h]
  BY DEF TypeOK, At, Goto
<1>3. QED
  BY <1>1, <1>2 DEF EveryGroupWithinLimit

(* A call that enters run was within its limit when it counted itself, and *)
(* every group it belongs to is no larger than that count.                 *)
LEMMA LimitOnEntry ==
  ASSUME TypeOK, TypeOK', PlacesGivenBack', EveryGroupWithinLimit,
         NEW g \in Goroutines, Enter(g)
  PROVE  EveryGroupWithinLimit'
<1>1. CASE OverLimit(concurrentCommands + 1, maxConcurrent[g])
  BY <1>1, LimitKept DEF Enter, InRun, locals
<1>2. CASE ~OverLimit(concurrentCommands + 1, maxConcurrent[g])
  <2>1. /\ At(InRun)' = At(InRun) \cup {g}
        /\ maxConcurrent' = maxConcurrent
        /\ maxConcurrent[g] < 0 \/ concurrentCommands' <= maxConcurrent[g]
    BY <1>2 DEF TypeOK, Enter, OverLimit, At, InRun, Goto, locals
  <2>2. SUFFICES ASSUME NEW S \in SUBSET At(InRun)', S # {}
                 PROVE  \E h \in S : maxConcurrent[h] < 0 \/ Cardinality(S) <= maxConcurrent[h]
    BY <2>1 DEF EveryGroupWithinLimit
  <2>3. CASE g \notin S
    BY <2>1, <2>2, <2>3 DEF EveryGroupWithinLimit
  <2>4. CASE g \in S
    <3>1. S \subseteq At(HoldsCommand)'
      BY DEF At, HoldsCommand
    <3>2. IsFiniteSet(At(HoldsCommand)')
      BY GoroutinesAssumption, FS_Subset DEF At
    <3>3. Cardinality(S) \in Nat /\ Cardinality(S) <= concurrentCommands'
      BY <3>1, <3>2, FS_Subset, FS_CardinalityType DEF PlacesGivenBack, HoldsCommand
    <3>4. QED
      BY <2>1, <2>4, <3>3 DEF TypeOK
  <2>5. QED
    BY <2>3, <2>4
<1>3. QED
  BY <1>1, <1>2

(* Every step keeps every group of running calls within a member's limit.  *)
LEMMA LimitStep ==
  ASSUME TypeOK, TypeOK', PlacesGivenBack', EveryGroupWithinLimit, [Next]_vars
  PROVE  EveryGroupWithinLimit'
<1>1. ASSUME NEW g \in Goroutines,
             \/ Call(g) \/ ReadDisabled(g) \/ Bypass(g) \/ ReadForcedClosed(g) \/ ReadState(g)
             \/ Prevented(g) \/ Throttled(g) \/ ReadTimeout(g)
      PROVE  EveryGroupWithinLimit'
  BY <1>1, LimitKept
  DEF Call, ReadDisabled, Bypass, ReadForcedClosed, ReadState, Prevented, Throttled, ReadTimeout,
      InRun, locals
<1>2. ASSUME NEW g \in Goroutines, ReadForceOpen(g) \/ ReadCount(g) \/ Allow(g)
      PROVE  EveryGroupWithinLimit'
  BY <1>2, LimitKept DEF ReadForceOpen, ReadCount, Allow, ShortCircuit, Admit, InRun
<1>3. ASSUME NEW g \in Goroutines, ReadLimit(g) \/ Return(g) PROVE EveryGroupWithinLimit'
  <2>1. \A h \in Goroutines \ {g} : maxConcurrent'[h] = maxConcurrent[h]
    BY <1>3 DEF TypeOK, ReadLimit, Return
  <2>2. QED
    BY <1>3, <2>1, LimitKept DEF ReadLimit, Return, InRun
<1>4. ASSUME NEW g \in Goroutines, NEW r, NEW late, NEW canceled, RunReturns(g, r, late, canceled)
      PROVE  EveryGroupWithinLimit'
  BY <1>4, LimitKept DEF RunReturns, InRun
<1>5. ASSUME NEW g \in Goroutines,
             \/ RunPanics(g) \/ Interrupted(g) \/ AfterFailure(g) \/ MayOpen(g) \/ ShouldOpen(g)
             \/ AfterSuccess(g) \/ MayClose(g) \/ Transit(g) \/ LeaveRun(g)
      PROVE  EveryGroupWithinLimit'
  BY <1>5, LimitKept
  DEF RunPanics, Interrupted, AfterFailure, MayOpen, ShouldOpen, AfterSuccess, MayClose,
      Transit, LeaveRun, InRun, locals
<1>6. ASSUME NEW g \in Goroutines, Fallback(g) \/ EnterFallback(g) \/ ReadFallbackLimit(g)
      PROVE  EveryGroupWithinLimit'
  BY <1>6, LimitKept DEF Fallback, EnterFallback, ReadFallbackLimit, InRun, locals
<1>7. ASSUME NEW g \in Goroutines, NEW r, FallbackEnds(g, r) PROVE EveryGroupWithinLimit'
  BY <1>7, LimitKept DEF FallbackEnds, InRun
<1>8. ASSUME UNCHANGED <<pc, maxConcurrent>> PROVE EveryGroupWithinLimit'
  BY <1>8 DEF EveryGroupWithinLimit, At
<1>9. QED
  <2>1. CASE ByHand \/ StoreField \/ UNCHANGED vars
    BY <1>8, <2>1 DEF ByHand, StoreField, vars, locals
  <2>2. ASSUME NEW c \in Configs, SetConfigThreadSafe(c) PROVE EveryGroupWithinLimit'
    BY <1>8, <2>2 DEF SetConfigThreadSafe, locals
  <2>3. ASSUME NEW g \in Goroutines, Begin(g) PROVE EveryGroupWithinLimit'
    BY <1>1, <1>2, <1>3, <2>3, LimitOnEntry DEF Begin
  <2>4. ASSUME NEW g \in Goroutines, End(g) PROVE EveryGroupWithinLimit'
    BY <1>3, <1>4, <1>5, <1>6, <1>7, <2>4 DEF End
  <2>5. QED
    BY <2>1, <2>2, <2>3, <2>4 DEF Next

(* MaxConcurrentRequests holds although SetConfigThreadSafe changes it     *)
(* under way: of the calls that run at once, one was allowed that many.    *)
THEOREM LimitSafe == Spec => []RunsWithinLimit
<1>1. Init => EveryGroupWithinLimit
  BY DEF Init, EveryGroupWithinLimit, At, InRun
<1>2. TypeOK /\ TypeOK' /\ PlacesGivenBack' /\ EveryGroupWithinLimit /\ [Next]_vars
        => EveryGroupWithinLimit'
  BY LimitStep
<1>3. EveryGroupWithinLimit => RunsWithinLimit
  BY DEF EveryGroupWithinLimit, RunsWithinLimit
<1>4. QED
  BY <1>1, <1>2, <1>3, TypesAndPlaces, PTL DEF Spec

-----------------------------------------------------------------------------
(* The force flags.                                                        *)

(* Where a call that was denied by ForceOpen never is, and one that is     *)
(* kept from opening by ForcedClosed.                                      *)
PastForceOpen == {"forcedClosed", "state", "count", "allow", "prevent"} \cup HoldsCommand
PastForcedClosed == {"shouldOpen", "open"}

(* A flag that was set all along is set now, so the read of it that still  *)
(* has to come will see it.                                                *)
FlagsHeld ==
  \A g \in Goroutines :
    /\ heldOpen[g] => config.ForceOpen /\ pc[g] \notin PastForceOpen
    /\ heldClosed[g] => config.ForcedClosed /\ pc[g] \notin PastForcedClosed

(* A caller that moves, with the flags as they are, keeps FlagsHeld if it  *)
(* does not go past a read that a held flag stops it at.                   *)
LEMMA FlagsKept ==
  ASSUME TypeOK, FlagsHeld, NEW g \in Goroutines, NEW location, Goto(g, location),
         UNCHANGED <<config, held>>,
         heldOpen[g] /\ location \in PastForceOpen => pc[g] \in PastForceOpen,
         heldClosed[g] /\ location \in PastForcedClosed => pc[g] \in PastForcedClosed
  PROVE  FlagsHeld'
<1>1. \A h \in Goroutines : pc'[h] = IF h = g THEN location ELSE pc[h]
  BY DEF TypeOK, Goto
<1>2. QED
  BY <1>1, Zenon DEF FlagsHeld, held

(* Every step keeps FlagsHeld.                                             *)
LEMMA FlagsStep ==
  ASSUME TypeOK, FlagsHeld, [Next]_vars
  PROVE  FlagsHeld'
<1> USE DEF PastForceOpen, PastForcedClosed, HoldsCommand, InRun, configVars, history, held
<1>1. ASSUME NEW g \in Goroutines, Call(g) \/ Return(g) PROVE FlagsHeld'
  <2>1. /\ config' = config /\ pc'[g] \in {"disabled", "idle"}
        /\ heldOpen'[g] => config.ForceOpen
        /\ heldClosed'[g] => config.ForcedClosed
    BY <1>1 DEF TypeOK, Call, Return, Goto
  <2>2. \A h \in Goroutines \ {g} :
          pc'[h] = pc[h] /\ heldOpen'[h] = heldOpen[h] /\ heldClosed'[h] = heldClosed[h]
    BY <1>1 DEF TypeOK, Call, Return, Goto
  <2>3. QED
    BY <2>1, <2>2 DEF FlagsHeld
<1>2. ASSUME NEW g \in Goroutines, ReadForceOpen(g) PROVE FlagsHeld'
  <2>1. heldOpen[g] => config.ForceOpen
    BY DEF FlagsHeld
  <2>2. QED
    BY <1>2, <2>1, FlagsKept DEF ReadForceOpen, ForceOpenDenies, ShortCircuit, Admit
<1>3. ASSUME NEW g \in Goroutines, MayOpen(g) PROVE FlagsHeld'
  <2>1. heldClosed[g] => config.ForcedClosed
    BY DEF FlagsHeld
  <2>2. QED
    BY <1>3, <2>1, FlagsKept DEF MayOpen
<1>4. ASSUME NEW g \in Goroutines,
             \/ ReadDisabled(g) \/ Bypass(g) \/ ReadLimit(g) \/ ReadForcedClosed(g) \/ ReadState(g)
             \/ Prevented(g) \/ Enter(g) \/ Throttled(g) \/ ReadTimeout(g)
      PROVE  FlagsHeld'
  BY <1>4, FlagsKept
  DEF ReadDisabled, Bypass, ReadLimit, ReadForcedClosed, ReadState, Prevented, Enter, Throttled,
      ReadTimeout
<1>5. ASSUME NEW g \in Goroutines, ReadCount(g) \/ Allow(g) PROVE FlagsHeld'
  BY <1>5, FlagsKept DEF ReadCount, Allow, ShortCircuit, Admit
<1>6. ASSUME NEW g \in Goroutines, NEW r, NEW late, NEW canceled, RunReturns(g, r, late, canceled)
      PROVE  FlagsHeld'
  BY <1>6, FlagsKept DEF RunReturns
<1>7. ASSUME NEW g \in Goroutines,
             \/ RunPanics(g) \/ Interrupted(g) \/ AfterFailure(g) \/ ShouldOpen(g)
             \/ AfterSuccess(g) \/ MayClose(g) \/ Transit(g) \/ LeaveRun(g)
      PROVE  FlagsHeld'
  BY <1>7, FlagsKept
  DEF RunPanics, Interrupted, AfterFailure, ShouldOpen, AfterSuccess, MayClose, Transit, LeaveRun
<1>8. ASSUME NEW g \in Goroutines, Fallback(g) \/ EnterFallback(g) \/ ReadFallbackLimit(g)
      PROVE  FlagsHeld'
  BY <1>8, FlagsKept DEF Fallback, EnterFallback, ReadFallbackLimit
<1>9. ASSUME NEW g \in Goroutines, NEW r, FallbackEnds(g, r) PROVE FlagsHeld'
  BY <1>9, FlagsKept DEF FallbackEnds
<1>10. CASE StoreField
  <2>1. /\ \A g \in Goroutines : heldOpen'[g] => heldOpen[g] /\ config'.ForceOpen
        /\ \A g \in Goroutines : heldClosed'[g] => heldClosed[g] /\ config'.ForcedClosed
        /\ pc' = pc
    BY <1>10 DEF StoreField
  <2>2. QED
    BY <2>1, Zenon DEF FlagsHeld
<1>11. ASSUME UNCHANGED <<config, pc, held>> PROVE FlagsHeld'
  BY <1>11 DEF FlagsHeld
<1>12. QED
  <2>1. CASE ByHand \/ UNCHANGED vars
    BY <1>11, <2>1 DEF ByHand, vars
  <2>2. ASSUME NEW c \in Configs, SetConfigThreadSafe(c) PROVE FlagsHeld'
    BY <1>11, <2>2 DEF SetConfigThreadSafe
  <2>3. ASSUME NEW g \in Goroutines, Begin(g) PROVE FlagsHeld'
    BY ONLY <1>1, <1>2, <1>4, <1>5, <2>3 DEF Begin
  <2>4. ASSUME NEW g \in Goroutines, End(g) PROVE FlagsHeld'
    BY ONLY <1>1, <1>3, <1>6, <1>7, <1>8, <1>9, <2>4 DEF End
  <2>5. QED
    BY ONLY [Next]_vars, <1>10, <2>1, <2>2, <2>3, <2>4 DEF Next

(* A call during the whole of which ForceOpen was set neither runs nor     *)
(* closes the circuit, and one during the whole of which ForcedClosed was  *)
(* set does not open it, however the other fields change meanwhile.        *)
THEOREM FlagsSafe == Spec => []ForceFlagsHonoured
<1>1. Init => FlagsHeld
  BY DEF Init, FlagsHeld
<1>2. TypeOK /\ FlagsHeld /\ [Next]_vars => FlagsHeld'
  BY FlagsStep
<1>3. FlagsHeld => ForceFlagsHonoured
  BY DEF FlagsHeld, ForceFlagsHonoured, PastForceOpen, PastForcedClosed, HoldsCommand
<1>4. QED
  BY <1>1, <1>2, <1>3, TypesAndPlaces, PTL DEF Spec

-----------------------------------------------------------------------------
(* Verdicts.                                                               *)

(* Before the classification of the result, nothing has been said.         *)
Unclassified == {"idle", "disabled", "bypass", "limit", "forceOpen", "forcedClosed", "state",
                 "count", "allow", "prevent", "throttled", "timeout", "run", "interrupt"}
Classified == {"failed", "mayOpen", "shouldOpen", "succeeded", "mayClose", "open", "close"}
InFallback == {"fallback", "enterFallback", "fallbackLimit", "runFallback"}

(* What has been said about a call, by the place it has reached.           *)
VerdictsSoFar(g) ==
  /\ pc[g] # "returned" => fallbackVerdicts[g] = 0 /\ fallbackResult[g] = "none"
  /\ pc[g] \in Unclassified => verdicts[g] = 0
  /\ pc[g] = "interrupt" => result[g] = "err"
  /\ pc[g] \in Classified => verdicts[g] = 1 /\ result[g] \in {"nil", "err"}
  /\ pc[g] = "leave" =>
       /\ result[g] \in {"nil", "err", "bad", "panic"}
       /\ verdicts[g] = IF result[g] = "panic" THEN 0 ELSE 1
  /\ pc[g] \in InFallback =>
       /\ result[g] \in {"open", "prevented", "throttled", "err"}
       /\ verdicts[g] = IF result[g] = "prevented" THEN 0 ELSE 1
  /\ pc[g] = "returned" =>
       /\ verdicts[g] = IF result[g] \in {"bypassed", "panic", "prevented"} THEN 0 ELSE 1
       /\ fallbackVerdicts[g] = IF fallbackResult[g] \in {"none", "panic"} THEN 0 ELSE 1

AllVerdictsSoFar == \A g \in Goroutines : VerdictsSoFar(g)

(* What a caller's step does to the locals the verdicts speak of, seen     *)
(* from its own new values.                                                *)
LEMMA VerdictsKept ==
  ASSUME AllVerdictsSoFar, NEW g \in Goroutines, VerdictsSoFar(g)',
         \A h \in Goroutines \ {g} :
           /\ pc'[h] = pc[h] /\ result'[h] = result[h] /\ verdicts'[h] = verdicts[h]
           /\ fallbackResult'[h] = fallbackResult[h]
           /\ fallbackVerdicts'[h] = fallbackVerdicts[h]
  PROVE  AllVerdictsSoFar'
BY DEF AllVerdictsSoFar, VerdictsSoFar

(* Every step keeps what has been said about a call in line with where it  *)
(* is.                                                                     *)
LEMMA VerdictsStep ==
  ASSUME TypeOK, AllVerdictsSoFar, [Next]_vars
  PROVE  AllVerdictsSoFar'
<1>1. ASSUME NEW g \in Goroutines, Begin(g) \/ End(g)
      PROVE  \A h \in Goroutines \ {g} :
               /\ pc'[h] = pc[h] /\ result'[h] = result[h] /\ verdicts'[h] = verdicts[h]
               /\ fallbackResult'[h] = fallbackResult[h]
               /\ fallbackVerdicts'[h] = fallbackVerdicts[h]
  <2> USE DEF TypeOK, Goto, Returns, FallbackReturns, RunVerdict, FallbackVerdict, locals, history
  <2>1. CASE Begin(g)
    BY <2>1 DEF Begin, Call, ReadDisabled, Bypass, ReadLimit, ReadForceOpen,
                ReadForcedClosed, ReadState, ReadCount, Allow, ShortCircuit, Admit, Prevented,
                Enter, Throttled, ReadTimeout
  <2>2. CASE End(g)
    BY <2>2 DEF End, RunReturns, RunPanics, Interrupted, AfterFailure, MayOpen, ShouldOpen,
                AfterSuccess, MayClose, Transit, LeaveRun, Fallback, EnterFallback,
                ReadFallbackLimit, FallbackEnds, Return
  <2>3. QED
    BY <1>1, <2>1, <2>2
<1>2. \A g \in Goroutines : VerdictsSoFar(g)
  BY DEF AllVerdictsSoFar
<1> USE <1>2 DEF VerdictsSoFar, Unclassified, Classified, InFallback, TypeOK, Goto, Returns,
                 FallbackReturns, RunVerdict, FallbackVerdict, locals, history
<1>3. ASSUME NEW g \in Goroutines, Call(g) \/ ReadDisabled(g) \/ Bypass(g) \/ ReadLimit(g)
      PROVE  VerdictsSoFar(g)'
  BY <1>3 DEF Call, ReadDisabled, Bypass, ReadLimit
<1>4. ASSUME NEW g \in Goroutines, ReadForceOpen(g) \/ ReadCount(g) \/ Allow(g)
      PROVE  VerdictsSoFar(g)'
  BY <1>4 DEF ReadForceOpen, ReadCount, Allow, ShortCircuit, Admit
<1>5. ASSUME NEW g \in Goroutines,
             ReadForcedClosed(g) \/ ReadState(g) \/ Prevented(g) \/ Enter(g) \/ ReadTimeout(g)
      PROVE  VerdictsSoFar(g)'
  BY <1>5 DEF ReadForcedClosed, ReadState, Prevented, Enter, ReadTimeout
<1>6. ASSUME NEW g \in Goroutines, Throttled(g) PROVE VerdictsSoFar(g)'
  BY <1>6 DEF Throttled
<1>7. ASSUME NEW g \in Goroutines, NEW r \in {"nil", "err", "bad"}, NEW late, NEW canceled,
             RunReturns(g, r, late, canceled)
      PROVE  VerdictsSoFar(g)'
  BY <1>7 DEF RunReturns
<1>8. ASSUME NEW g \in Goroutines, RunPanics(g) \/ Interrupted(g)
      PROVE  VerdictsSoFar(g)'
  BY <1>8 DEF RunPanics, Interrupted
<1>9. ASSUME NEW g \in Goroutines,
             \/ AfterFailure(g) \/ MayOpen(g) \/ ShouldOpen(g) \/ AfterSuccess(g)
             \/ MayClose(g) \/ Transit(g)
      PROVE  VerdictsSoFar(g)'
  BY <1>9 DEF AfterFailure, MayOpen, ShouldOpen, AfterSuccess, MayClose, Transit
<1>10. ASSUME NEW g \in Goroutines, LeaveRun(g) PROVE VerdictsSoFar(g)'
  BY <1>10 DEF LeaveRun
<1>11. ASSUME NEW g \in Goroutines, Fallback(g) \/ EnterFallback(g)
       PROVE  VerdictsSoFar(g)'
  BY <1>11 DEF Fallback, EnterFallback
<1>12. ASSUME NEW g \in Goroutines, ReadFallbackLimit(g) PROVE VerdictsSoFar(g)'
  BY <1>12 DEF ReadFallbackLimit
<1>13. ASSUME NEW g \in Goroutines, NEW r \in {"nil", "err", "panic"}, FallbackEnds(g, r)
       PROVE  VerdictsSoFar(g)'
  <2>1. /\ pc[g] = "runFallback" /\ pc'[g] = "returned"
        /\ result'[g] = result[g] /\ verdicts'[g] = verdicts[g]
        /\ fallbackResult'[g] = r
    BY <1>13 DEF FallbackEnds
  <2>2. fallbackVerdicts'[g] = IF r = "panic" THEN 0 ELSE 1
    BY <1>13, <2>1 DEF FallbackEnds
  <2>3. QED
    BY <2>1, <2>2
<1>14. ASSUME NEW g \in Goroutines, Return(g) PROVE VerdictsSoFar(g)'
  BY <1>14 DEF Return
<1>15. ASSUME NEW g \in Goroutines, Begin(g) \/ End(g) PROVE AllVerdictsSoFar'
  <2>1. ASSUME Begin(g) PROVE VerdictsSoFar(g)'
    BY ONLY <1>3, <1>4, <1>5, <1>6, <2>1 DEF Begin
  <2>2. ASSUME End(g) PROVE VerdictsSoFar(g)'
    BY ONLY <1>7, <1>8, <1>9, <1>10, <1>11, <1>12, <1>13, <1>14, <2>2 DEF End
  <2>3. VerdictsSoFar(g)'
    BY <1>15, <2>1, <2>2
  <2>4. QED
    BY ONLY AllVerdictsSoFar, <1>1, <1>15, <2>3, VerdictsKept
<1>16. ASSUME UNCHANGED <<pc, result, verdicts, fallbackResult, fallbackVerdicts>>
       PROVE  AllVerdictsSoFar'
  BY <1>16 DEF AllVerdictsSoFar
<1>17. QED
  <2>1. CASE ByHand \/ StoreField \/ UNCHANGED vars
    BY <1>16, <2>1 DEF ByHand, StoreField, vars
  <2>2. ASSUME NEW c \in Configs, SetConfigThreadSafe(c) PROVE AllVerdictsSoFar'
    BY <1>16, <2>2 DEF SetConfigThreadSafe
  <2>3. QED
    BY ONLY [Next]_vars, <1>15, <2>1, <2>2 DEF Next

(* No call ever tells the RunMetrics or the FallbackMetrics two things,    *)
(* and one that returns has told each of them one, but for what panicked,  *)
(* was prevented or met a disabled circuit, and for calls that had no      *)
(* fallback.                                                               *)
THEOREM VerdictsSafe == Spec => []OneVerdictPerCall
<1>1. Init => AllVerdictsSoFar
  BY DEF Init, AllVerdictsSoFar, VerdictsSoFar, Unclassified, Classified, InFallback
<1>2. TypeOK /\ AllVerdictsSoFar /\ [Next]_vars => AllVerdictsSoFar'
  BY VerdictsStep
<1>3. TypeOK /\ AllVerdictsSoFar => OneVerdictPerCall
  <2>1. SUFFICES ASSUME TypeOK, AllVerdictsSoFar, NEW g \in Goroutines
                 PROVE  /\ verdicts[g] <= 1 /\ fallbackVerdicts[g] <= 1
                        /\ pc[g] = "returned" =>
                             /\ result[g] \notin {"panic", "prevented"} =>
                                  verdicts[g] = IF result[g] = "bypassed" THEN 0 ELSE 1
                             /\ fallbackResult[g] # "panic" =>
                                  fallbackVerdicts[g] = IF fallbackResult[g] = "none" THEN 0 ELSE 1
    BY DEF OneVerdictPerCall
  <2>2. VerdictsSoFar(g)
    BY <2>1 DEF AllVerdictsSoFar
  <2>3. pc[g] \in Unclassified \cup Classified \cup InFallback \cup {"leave", "returned"}
    BY <2>1 DEF TypeOK, Locations, Unclassified, Classified, InFallback
  <2>4. verdicts[g] \in {0, 1} /\ fallbackVerdicts[g] \in {0, 1}
    BY <2>2, <2>3 DEF VerdictsSoFar
  <2>5. QED
    BY <2>2, <2>4 DEF VerdictsSoFar
<1>4. QED
  BY <1>1, <1>2, <1>3, TypesAndPlaces, PTL DEF Spec
=============================================================================
