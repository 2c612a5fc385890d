--------------------------- MODULE HalfOpenProofs ---------------------------
(* Proofs about HalfOpen, for any requests, operators, windows and bounds. *)
EXTENDS HalfOpen, TLAPS

(* Where transitionMu is held, for an opening and for a close.             *)
Opening == {"stampOpen", "armSleep", "armPublish", "armReset"}
Closing == {"stampClose", "storeClosed", "clearOpened", "closedReset"}

(* transitionMu is held exactly in the critical section, and isOpen tells  *)
(* which of the two transitions runs there.  Only a self-arming Allow is   *)
(* in arm without it.                                                      *)
HolderOf(g) ==
  /\ transitionMu = g => pc[g] \in Opening \cup Closing
  /\ pc[g] \in {"stampOpen"} \cup Closing => transitionMu = g
  /\ transitionMu = g /\ pc[g] \in Opening => isOpen
  /\ pc[g] \in Closing => ~isOpen

HolderKept == \A g \in Goroutines : HolderOf(g)

(* The last close has stored its time.                                     *)
Stored == ~isOpen /\ \A h \in Goroutines : pc[h] \notin {"stampClose", "storeClosed"}

(* A request that saw the circuit open, and is overtaken by a close, began *)
(* before the time of that close.                                          *)
RacerOf(g) ==
  pc[g] \in {"loadOpened", "loadClosed"} /\ ~isOpen =>
    \/ \E h \in Goroutines : pc[h] = "stampClose"
    \/ \E h \in Goroutines : pc[h] = "storeClosed" /\ now[g] <= now[h]
    \/ Stored /\ closedAt # Nil /\ now[g] <= closedAt

(* Once that time is stored nobody is about to arm the closer, and once    *)
(* openedAt has been cleared too nobody has.                               *)
ArmKept ==
  /\ \A g \in Goroutines : RacerOf(g)
  /\ Stored /\ ~overtaken =>
       /\ \A g \in Goroutines : pc[g] \notin {"armSleep", "armPublish"}
       /\ (\A h \in Goroutines : pc[h] # "clearOpened") => openedAt = Nil

(* The window that Check looks at is one of this open episode.             *)
OfThisEpisode ==
  flippedAt = -Horizon \/ nextOpenTime >= flippedAt + SleepWindow - MaxAge

Probing == {"run", "success", "credit", "failure", "debit", "decideClose", "decideOpen",
            "open", "close"}

(* It is by the time that openedAt is published, and for whoever has seen  *)
(* it published since the circuit opened.                                  *)
WindowKept ==
  /\ isOpen /\ ~overtaken =>
       /\ openedAt # Nil => OfThisEpisode
       /\ \A g \in Goroutines :
            /\ pc[g] = "armPublish" => OfThisEpisode
            /\ pc[g] \in {"fastFail", "check"} /\ now[g] > flippedAt => OfThisEpisode
  /\ \A g \in probe : pc[g] \in Probing

-----------------------------------------------------------------------------
(* Types.                                                                  *)

LEMMA Constants ==
  /\ SleepWindow \in Nat /\ SleepWindow > 0 /\ MaxAge \in Nat /\ HalfOpenAttempts \in Int
  /\ Horizon \in Nat /\ Horizon = MaxAge + SleepWindow + 1
  /\ RequiredConcurrentSuccessful \in Nat /\ RequiredConcurrentSuccessful > 0
  /\ Nil \notin Int
  BY SleepWindowAssumption, MaxAgeAssumption, HalfOpenAttemptsAssumption, RequiredAssumption,
     NilAssumption DEF Horizon

(* A time gets older, down to the horizon.                                 *)
LEMMA OlderTime ==
  /\ \A t \in -Horizon .. SleepWindow : Older(t) \in -Horizon .. SleepWindow
  /\ \A t \in Times : Older(t) \in Times
  /\ Older(Nil) = Nil
  /\ \A t \in -Horizon .. SleepWindow : Older(t) >= t - 1
  /\ \A t \in -Horizon .. SleepWindow : t # -Horizon => Older(t) = t - 1
  BY Constants DEF Older, Times

(* TypeOK for any constants: no loop of the closer leaves its times or its *)
(* streak out of range, and a window of TimedCheck that still accepts      *)
(* probes has let through fewer than HalfOpenAttempts.                     *)
THEOREM HalfOpenTypeCorrect == Spec => []TypeOK
<1>1. Init => TypeOK
  <2> SUFFICES ASSUME Init PROVE TypeOK
    OBVIOUS
  <2>1. isOpen \in BOOLEAN /\ isFastFail \in BOOLEAN /\ clearing \in BOOLEAN /\ overtaken \in BOOLEAN
    BY HandAssignedAssumption, Zenon DEF Init, TimedCheckInit
  <2>2. /\ pc \in [Goroutines -> Locations] /\ now \in [Goroutines -> -MaxAge .. 0]
    BY Constants DEF Init, Locations
  <2>3. QED
    BY <2>1, <2>2, Constants DEF Init, TimedCheckInit, TypeOK, Times
<1>2. TypeOK /\ [Next]_vars => TypeOK'
  <2> SUFFICES ASSUME TypeOK, [Next]_vars PROVE TypeOK'
    OBVIOUS
  <2>1. ASSUME NEW g \in Goroutines,
               \/ Start(g) \/ ReadFlag(g) \/ LoadOpenedAt(g) \/ Fail(g) \/ LoadEpisode(g)
               \/ ByHand(g, "forceOpen") \/ ByHand(g, "forceClose")
        PROVE  TypeOK'
    BY <2>1 DEF TypeOK, Start, ReadFlag, LoadOpenedAt, Fail, LoadEpisode, ByHand, Goto, Locations,
                timedCheckVars, closerVars, lastClose, circuitVars, history
  <2>2. ASSUME NEW g \in Goroutines,
               \/ LoadClosedAt(g) \/ ReadFastFail(g) \/ NoVerdict(g)
               \/ DecideClose(g) \/ DecideOpen(g)
        PROVE  TypeOK'
    BY <2>2, Constants DEF TypeOK, LoadClosedAt, ReadFastFail, NoVerdict, DecideClose, DecideOpen, Done,
                Goto, Locations, timedCheckVars, closerVars, lastClose, circuitVars
  <2>3. ASSUME NEW g \in Goroutines, Succeed(g) \/ Credit(g) \/ Debit(g)
        PROVE  TypeOK'
    BY <2>3, Constants DEF TypeOK, Succeed, Credit, Debit,
                Goto, Locations, timedCheckVars, closerVars, lastClose, circuitVars, history
  <2>4. ASSUME NEW g \in Goroutines, CheckWindow(g)
        PROVE  TypeOK'
    <3>1. CASE CheckDenies(now[g]) /\ Done(g)
      BY <2>4, <3>1, Constants DEF TypeOK, CheckWindow, CheckDenies, Done,
                Goto, Locations, timedCheckVars, closerVars, lastClose, circuitVars
    <3>2. CASE CheckGrants(now[g]) /\ WindowUsedUp /\ ~(CheckDenies(now[g]) /\ Done(g))
      BY <2>4, <3>2, Constants DEF TypeOK, CheckWindow, CheckGrants, SleepStart,
                Goto, Locations, closerVars, lastClose, circuitVars
    <3>3. CASE CheckGrants(now[g]) /\ ~WindowUsedUp /\ ~(CheckDenies(now[g]) /\ Done(g))
      <4>1. currentlyAllowedEventCount + 1 < HalfOpenAttempts
        BY <3>3, Constants DEF WindowUsedUp, TypeOK
      <4>2. QED
        BY <2>4, <3>3, <4>1, Constants DEF TypeOK, CheckWindow, CheckGrants,
                Goto, Locations, closerVars, lastClose, circuitVars
    <3>4. QED
      BY <2>4, <3>1, <3>2, <3>3 DEF CheckWindow
  <2>5. ASSUME NEW g \in Goroutines, CommitOpen(g) \/ CommitClose(g) \/ Stamp(g)
        PROVE  TypeOK'
    <3>1. ASSUME UNCHANGED timedCheckVars, UNCHANGED closerVars, Done(g),
                 UNCHANGED <<circuitVars, flippedAt, proofs>>
          PROVE  TypeOK'
      BY <3>1, Constants DEF TypeOK, Done, Goto, Locations,
                timedCheckVars, closerVars, lastClose, circuitVars
    <3>2. ASSUME UNCHANGED timedCheckVars, UNCHANGED closerVars, transitionMu' = g,
                 isOpen' \in BOOLEAN, flippedAt' \in {0, flippedAt}, probe' = {}, proofs' = 0,
                 UNCHANGED now, Goto(g, "stampOpen") \/ Goto(g, "stampClose")
          PROVE  TypeOK'
      BY <3>2, Constants DEF TypeOK, Goto, Locations, Times,
                timedCheckVars, closerVars, lastClose
    <3>3. CASE Stamp(g)
      BY <3>3, Constants DEF TypeOK, Stamp,
                Goto, Locations, timedCheckVars, closerVars, lastClose, circuitVars, history
    <3>4. CASE CommitOpen(g)
      BY <3>1, <3>2, <3>4 DEF CommitOpen
    <3>5. CASE CommitClose(g)
      BY <3>1, <3>2, <3>5 DEF CommitClose
    <3>6. QED
      BY <2>5, <3>3, <3>4, <3>5
  <2>6. ASSUME NEW g \in Goroutines, ArmSleep(g)
        PROVE  TypeOK'
    BY <2>6, Constants DEF TypeOK, ArmSleep, SleepStart,
                Goto, Locations, closerVars, lastClose, circuitVars, history
  <2>7. ASSUME NEW g \in Goroutines, ArmPublish(g) \/ StoreClosed(g) \/ ClearOpened(g)
        PROVE  TypeOK'
    <3>1. now[g] \in Times
      BY Constants DEF TypeOK, Times
    <3>2. overtaken' \in BOOLEAN
      BY <2>7, Zenon DEF TypeOK, ArmPublish, StoreClosed, ClearOpened, lastClose
    <3>3. openedAt' \in Times \cup {Nil} /\ closedAt' \in Times \cup {Nil}
      BY <2>7, <3>1 DEF TypeOK, ArmPublish, StoreClosed, ClearOpened, lastClose
    <3>4. QED
      BY <2>7, <3>2, <3>3 DEF TypeOK, ArmPublish, StoreClosed, ClearOpened,
                Goto, Locations, timedCheckVars, lastClose, circuitVars, history
  <2>8. ASSUME NEW g \in Goroutines, ArmReset(g) \/ ClosedReset(g)
        PROVE  TypeOK'
    BY <2>8, Constants DEF TypeOK, ArmReset, ClosedReset, Done,
                Goto, Locations, timedCheckVars, lastClose
  <2>9. CASE Timer
    BY <2>9, Constants DEF TypeOK, Timer, TimerFires, TimerClears, closerVars, lastClose, circuitVars, history
  <2>10. CASE Tick
    BY <2>10, Constants, OlderTime DEF TypeOK, Tick, TimedCheckAges, circuitVars
  <2>11. CASE UNCHANGED vars
    BY <2>11 DEF TypeOK, vars, timedCheckVars, closerVars, lastClose, circuitVars, history
  <2>12. QED
    BY <2>1, <2>2, <2>3, <2>4, <2>5, <2>6, <2>7, <2>8, <2>9, <2>10, <2>11
       DEF Next, Request, Commit, Goroutines
<1>3. QED
  BY <1>1, <1>2, PTL DEF Spec

-----------------------------------------------------------------------------
(* What the steps of a call do.                                            *)

Others(g) == \A h \in Goroutines \ {g} : pc'[h] = pc[h] /\ now'[h] = now[h]

(* A call moves on, outside of the critical section.                       *)
Call(g) ==
  \/ Start(g) \/ Request(g)
  \/ \E location \in {"forceOpen", "forceClose"} : ByHand(g, location)

(* A probe is a request that has been one, or that Check lets through.     *)
ProbeMoves(g) ==
  /\ probe' \subseteq probe \cup {g}
  /\ g \in probe' /\ g \in probe => pc'[g] # "idle" /\ now'[g] = now[g]
  /\ g \in probe' /\ g \notin probe =>
       /\ pc[g] = "check" /\ pc'[g] = "run" /\ now'[g] = now[g]
       /\ nextOpenTime <= now[g]

CallMoves(g) ==
  /\ Others(g) /\ ProbeMoves(g)
  /\ UNCHANGED <<isOpen, transitionMu, openedAt, closedAt, overtaken, flippedAt>>
  /\ pc[g] \notin Opening \cup Closing
  /\ pc'[g] \notin {"stampOpen", "armPublish", "armReset"} \cup Closing
  /\ pc'[g] = "loadOpened" => isOpen
  /\ pc'[g] = "loadClosed" => pc[g] = "loadOpened" /\ now'[g] = now[g]
  /\ pc'[g] = "armSleep" => pc[g] = "loadClosed" /\ ~ClosedRecently(g)
  /\ pc'[g] = "fastFail" => pc[g] = "loadOpened" /\ openedAt # Nil
  /\ pc'[g] = "check" => pc[g] = "fastFail" /\ now'[g] = now[g]
  /\ pc[g] \in Probing /\ pc'[g] # "idle" => pc'[g] \in Probing
  /\ nextOpenTime' \in {nextOpenTime, now[g] + SleepWindow}

LEMMA DoneMoves ==
  ASSUME TypeOK, NEW g \in Goroutines, Done(g)
  PROVE  Others(g) /\ ProbeMoves(g) /\ pc'[g] = "idle"
  BY DEF Done, Goto, TypeOK, Others, ProbeMoves

LEMMA GotoMoves ==
  ASSUME TypeOK, NEW g \in Goroutines, NEW location, Goto(g, location), UNCHANGED <<now, probe>>,
         location # "idle"
  PROVE  Others(g) /\ ProbeMoves(g) /\ pc'[g] = location /\ now'[g] = now[g]
  BY DEF Goto, TypeOK, Others, ProbeMoves

LEMMA EachCallMoves ==
  ASSUME TypeOK, NEW g \in Goroutines, Call(g)
  PROVE  CallMoves(g)
<1>1. CASE Start(g)
  <2>1. Goto(g, "flag") /\ UNCHANGED <<now, probe>>
    BY <1>1 DEF Start, history
  <2>2. QED
    BY <1>1, <2>1, GotoMoves
       DEF Start, CallMoves, timedCheckVars, closerVars, lastClose, circuitVars, history, Opening,
           Closing, Probing
<1>2. CASE ReadFlag(g)
  <2>1. /\ Goto(g, IF isOpen THEN "loadOpened" ELSE "run") /\ UNCHANGED <<now, probe>>
        /\ (IF isOpen THEN "loadOpened" ELSE "run") # "idle"
    BY <1>2 DEF ReadFlag, history
  <2>2. QED
    BY <1>2, <2>1, GotoMoves
       DEF ReadFlag, CallMoves, timedCheckVars, closerVars, lastClose, circuitVars, history, Opening,
           Closing, Probing
<1>3. CASE LoadOpenedAt(g)
  <2>1. /\ Goto(g, IF openedAt = Nil THEN "loadClosed" ELSE "fastFail") /\ UNCHANGED <<now, probe>>
        /\ (IF openedAt = Nil THEN "loadClosed" ELSE "fastFail") # "idle"
    BY <1>3 DEF LoadOpenedAt, history
  <2>2. QED
    BY <1>3, <2>1, GotoMoves
       DEF LoadOpenedAt, CallMoves, timedCheckVars, closerVars, lastClose, circuitVars, history, Opening,
           Closing, Probing
<1>4. CASE LoadClosedAt(g)
  BY <1>4, DoneMoves, GotoMoves
     DEF LoadClosedAt, CallMoves, timedCheckVars, closerVars, lastClose, circuitVars, Opening,
         Closing, Probing
<1>5. CASE ReadFastFail(g)
  BY <1>5, DoneMoves, GotoMoves
     DEF ReadFastFail, CallMoves, timedCheckVars, closerVars, lastClose, circuitVars, Opening,
         Closing, Probing
<1>6. CASE CheckWindow(g)
  <2>1. CASE CheckDenies(now[g]) /\ Done(g)
    BY <1>6, <2>1, DoneMoves
       DEF CheckWindow, CheckDenies, CallMoves, timedCheckVars, closerVars, lastClose, circuitVars, Opening,
           Closing, Probing
  <2>2. CASE /\ CheckGrants(now[g]) /\ Goto(g, "run") /\ probe' = probe \cup {g}
             /\ UNCHANGED now
    <3>1. /\ nextOpenTime <= now[g] /\ nextOpenTime' \in {nextOpenTime, now[g] + SleepWindow}
          /\ pc[g] = "check"
      BY <1>6, <2>2 DEF CheckWindow, CheckGrants, SleepStart
    <3>2. Others(g) /\ ProbeMoves(g) /\ pc'[g] = "run" /\ now'[g] = now[g]
      BY <2>2, <3>1 DEF Goto, TypeOK, Others, ProbeMoves
    <3>3. QED
      BY <1>6, <3>1, <3>2 DEF CheckWindow, CallMoves, closerVars, lastClose, circuitVars, Opening,
           Closing, Probing
  <2>3. QED
    BY <1>6, <2>1, <2>2 DEF CheckWindow
<1>7. CASE Succeed(g) \/ Fail(g)
  <2>1. (Goto(g, "success") \/ Goto(g, "failure")) /\ UNCHANGED <<now, probe>>
    BY <1>7 DEF Succeed, Fail, history
  <2>2. QED
    BY <1>7, <2>1, GotoMoves
       DEF Succeed, Fail, CallMoves, timedCheckVars, closerVars, lastClose, circuitVars, history, Opening,
           Closing, Probing
<1>8. CASE NoVerdict(g)
  BY <1>8, DoneMoves
     DEF NoVerdict, CallMoves, timedCheckVars, closerVars, lastClose, circuitVars, Opening,
         Closing, Probing
<1>9. CASE LoadEpisode(g)
  <2>1. PICK location \in {"credit", "decideClose", "debit", "decideOpen"} : Goto(g, location)
    BY <1>9 DEF LoadEpisode
  <2>2. UNCHANGED <<now, probe>> /\ pc[g] \in {"success", "failure"} /\ location # "idle"
    BY <1>9, <2>1 DEF LoadEpisode, history
  <2>3. Others(g) /\ ProbeMoves(g) /\ pc'[g] = location /\ now'[g] = now[g]
    BY <2>1, <2>2, GotoMoves
  <2>4. QED
    BY <1>9, <2>1, <2>2, <2>3
       DEF LoadEpisode, CallMoves, timedCheckVars, closerVars, lastClose, circuitVars, history, Opening,
           Closing, Probing
<1>10. CASE Credit(g) \/ Debit(g)
  <2>1. (Goto(g, "decideClose") \/ Goto(g, "decideOpen")) /\ UNCHANGED <<now, probe>>
    BY <1>10 DEF Credit, Debit, history
  <2>2. QED
    BY <1>10, <2>1, GotoMoves
       DEF Credit, Debit, CallMoves, timedCheckVars, lastClose, circuitVars, history, Opening,
           Closing, Probing
<1>11. CASE DecideClose(g) \/ DecideOpen(g)
  <2>1. \/ (Goto(g, "close") \/ Goto(g, "open")) /\ UNCHANGED <<now, probe>>
        \/ Done(g)
    BY <1>11 DEF DecideClose, DecideOpen
  <2>2. Others(g) /\ ProbeMoves(g) /\ pc'[g] \in {"close", "open", "idle"}
    BY <2>1, DoneMoves, GotoMoves
  <2>3. QED
    BY <1>11, <2>2
     DEF DecideClose, DecideOpen, CallMoves, timedCheckVars, closerVars, lastClose, circuitVars, Opening,
         Closing, Probing
<1>12. ASSUME NEW location \in {"forceOpen", "forceClose"}, ByHand(g, location)
       PROVE  CallMoves(g)
  <2>1. Goto(g, location) /\ UNCHANGED <<now, probe>> /\ location # "idle"
    BY <1>12 DEF ByHand, history
  <2>2. QED
    BY <1>12, <2>1, GotoMoves
       DEF ByHand, CallMoves, timedCheckVars, closerVars, lastClose, circuitVars, history, Opening,
           Closing, Probing
<1>13. QED
  BY <1>1, <1>2, <1>3, <1>4, <1>5, <1>6, <1>7, <1>8, <1>9, <1>10, <1>11, <1>12 DEF Call, Request

(* What a commit comes to: nothing, an opening, or a close.                *)
GivesUp(g) ==
  /\ pc[g] \in {"open", "forceOpen", "close", "forceClose"}
  /\ Done(g) /\ UNCHANGED <<circuitVars, flippedAt, proofs, timedCheckVars, closerVars>>

Opens(g) ==
  /\ pc[g] \in {"open", "forceOpen"} /\ transitionMu = NoHolder /\ ~isOpen
  /\ isOpen' = TRUE /\ transitionMu' = g /\ flippedAt' = 0 /\ probe' = {}
  /\ Goto(g, "stampOpen") /\ UNCHANGED now /\ UNCHANGED <<timedCheckVars, closerVars>>

Closes(g) ==
  /\ pc[g] \in {"close", "forceClose"} /\ transitionMu = NoHolder /\ isOpen
  /\ isOpen' = FALSE /\ transitionMu' = g /\ probe' = {} /\ UNCHANGED flippedAt
  /\ Goto(g, "stampClose") /\ UNCHANGED now /\ UNCHANGED <<timedCheckVars, closerVars>>

LEMMA CommitCases ==
  ASSUME NEW g \in Goroutines, CommitOpen(g) \/ CommitClose(g)
  PROVE  GivesUp(g) \/ Opens(g) \/ Closes(g)
  BY DEF CommitOpen, CommitClose, GivesUp, Opens, Closes

LEMMA GivingUpMoves ==
  ASSUME TypeOK, NEW g \in Goroutines, GivesUp(g)
  PROVE  CallMoves(g)
  BY DoneMoves DEF GivesUp, CallMoves, circuitVars, timedCheckVars, closerVars, lastClose,
       Opening, Closing, Probing

LEMMA NextCases ==
  ASSUME TypeOK, [Next]_vars
  PROVE  \/ \E g \in Goroutines :
              \/ CallMoves(g) \/ Opens(g) \/ Closes(g) \/ Stamp(g)
              \/ ArmSleep(g) \/ ArmPublish(g) \/ ArmReset(g)
              \/ StoreClosed(g) \/ ClearOpened(g) \/ ClosedReset(g)
         \/ Timer \/ Tick \/ UNCHANGED vars
<1>1. ASSUME NEW g \in Goroutines, Call(g) PROVE CallMoves(g)
  BY <1>1, EachCallMoves
<1>2. ASSUME NEW g \in Goroutines, CommitOpen(g) \/ CommitClose(g)
      PROVE  CallMoves(g) \/ Opens(g) \/ Closes(g)
  BY <1>2, CommitCases, GivingUpMoves
<1>3. QED
  BY <1>1, <1>2 DEF Next, Commit, Call, Goroutines

-----------------------------------------------------------------------------
(* The critical section.                                                   *)

LEMMA HolderStep ==
  ASSUME TypeOK, HolderKept, [Next]_vars
  PROVE  HolderKept'
<1>n. \A g \in Goroutines : NoHolder # g
  BY HolderAssumption
<1>1. ASSUME NEW g \in Goroutines, CallMoves(g) PROVE HolderKept'
  BY <1>1 DEF CallMoves, Others, HolderKept, HolderOf, Opening, Closing
<1>2. ASSUME NEW g \in Goroutines, Opens(g) \/ Closes(g) PROVE HolderKept'
  BY <1>2, <1>n DEF Opens, Closes, Goto, HolderKept, HolderOf, Opening, Closing, TypeOK
<1>3. ASSUME NEW g \in Goroutines, Stamp(g) \/ ArmSleep(g) \/ ArmPublish(g) \/ StoreClosed(g)
                                   \/ ClearOpened(g)
      PROVE  HolderKept'
  <2>1. UNCHANGED <<isOpen, transitionMu>>
    BY <1>3 DEF Stamp, ArmSleep, ArmPublish, StoreClosed, ClearOpened, circuitVars
  <2>2. /\ \A h \in Goroutines \ {g} : pc'[h] = pc[h]
        /\ <<pc[g], pc'[g]>> \in {<<"stampOpen", "armSleep">>, <<"stampClose", "storeClosed">>,
              <<"armSleep", "armPublish">>, <<"armPublish", "armReset">>,
              <<"storeClosed", "clearOpened">>, <<"clearOpened", "closedReset">>}
    BY <1>3 DEF Stamp, ArmSleep, ArmPublish, StoreClosed, ClearOpened, Goto, TypeOK
  <2>3. QED
    BY <2>1, <2>2 DEF HolderKept, HolderOf, Opening, Closing
<1>4. ASSUME NEW g \in Goroutines, ArmReset(g) \/ ClosedReset(g) PROVE HolderKept'
  BY <1>4, <1>n DEF ArmReset, ClosedReset, Done, Goto, HolderKept, HolderOf, Opening, Closing, TypeOK
<1>5. CASE Timer \/ Tick \/ UNCHANGED vars
  BY <1>5 DEF Timer, Tick, vars, circuitVars, HolderKept, HolderOf
<1>6. QED
  BY <1>1, <1>2, <1>3, <1>4, <1>5, NextCases

-----------------------------------------------------------------------------
(* Who may arm the closer.                                                 *)

(* A step that is no call's and no part of a close.                        *)
LEMMA ArmFrame ==
  ASSUME TypeOK, HolderKept, ArmKept, NEW g \in Goroutines,
         UNCHANGED <<isOpen, closedAt, overtaken>>, Others(g),
         pc[g] \notin {"stampClose", "storeClosed", "clearOpened"},
         pc'[g] \notin {"stampClose", "storeClosed", "clearOpened", "loadOpened"},
         pc'[g] = "loadClosed" => pc[g] = "loadOpened" /\ now'[g] = now[g],
         Stored /\ ~overtaken => pc'[g] \notin {"armSleep", "armPublish"},
         Stored /\ ~overtaken => openedAt' = openedAt
  PROVE  ArmKept'
<1>0. Stored' <=> Stored
  BY DEF Stored, Others
<1>1. ASSUME NEW h \in Goroutines PROVE RacerOf(h)'
  <2>1. SUFFICES ASSUME pc'[h] \in {"loadOpened", "loadClosed"}, ~isOpen
                 PROVE  RacerOf(h)'
    BY DEF RacerOf
  <2>2. pc[h] \in {"loadOpened", "loadClosed"} /\ now'[h] = now[h]
    BY <2>1 DEF Others
  <2>3. \/ \E k \in Goroutines :
             pc[k] = "stampClose" \/ (pc[k] = "storeClosed" /\ now[h] <= now[k])
        \/ Stored /\ closedAt # Nil /\ now[h] <= closedAt
    <3>1. RacerOf(h)
      BY DEF ArmKept
    <3>2. QED
      BY <2>1, <2>2, <3>1 DEF RacerOf
  <2>4. CASE Stored /\ closedAt # Nil /\ now[h] <= closedAt
    BY <1>0, <2>2, <2>4 DEF RacerOf
  <2>5. ASSUME NEW k \in Goroutines,
               pc[k] = "stampClose" \/ (pc[k] = "storeClosed" /\ now[h] <= now[k])
        PROVE  RacerOf(h)'
    <3>1. k # g
      BY <2>5
    <3>2. pc'[k] = pc[k] /\ now'[k] = now[k]
      BY <3>1 DEF Others
    <3>3. QED
      BY <2>2, <2>5, <3>2 DEF RacerOf
  <2>6. QED
    BY <2>3, <2>4, <2>5
<1>3. (\A h \in Goroutines : pc'[h] # "clearOpened") => \A h \in Goroutines : pc[h] # "clearOpened"
  BY DEF Others
<1>4. QED
  BY <1>0, <1>1, <1>3 DEF ArmKept, Others

LEMMA CallArms ==
  ASSUME TypeOK, HolderKept, ArmKept, NEW g \in Goroutines, CallMoves(g)
  PROVE  ArmKept'
<1>1. /\ UNCHANGED <<isOpen, openedAt, closedAt, overtaken>> /\ Others(g)
      /\ pc[g] \notin {"stampClose", "storeClosed", "clearOpened"}
      /\ pc'[g] \notin {"stampClose", "storeClosed", "clearOpened", "armPublish"}
      /\ pc'[g] = "loadOpened" => isOpen
      /\ pc'[g] = "loadClosed" => pc[g] = "loadOpened" /\ now'[g] = now[g]
  BY DEF CallMoves, Opening, Closing
<1>2. Stored => pc'[g] # "armSleep"
  <2>1. SUFFICES ASSUME Stored, pc'[g] = "armSleep" PROVE FALSE
    OBVIOUS
  <2>2. pc[g] = "loadClosed" /\ ~ClosedRecently(g)
    BY <2>1 DEF CallMoves
  <2>3. closedAt # Nil /\ now[g] <= closedAt
    BY <2>1, <2>2 DEF ArmKept, RacerOf, Stored
  <2>4. now[g] \in Int /\ closedAt \in Int
    BY <2>3, Constants DEF TypeOK, Times
  <2>5. now[g] - closedAt < SleepWindow
    BY <2>3, <2>4, Constants
  <2>6. QED
    BY <2>2, <2>3, <2>5 DEF ClosedRecently
<1>3. CASE pc'[g] # "loadOpened"
  BY <1>1, <1>2, <1>3, ArmFrame
<1>4. CASE pc'[g] = "loadOpened"
  BY <1>1, <1>4 DEF ArmKept, RacerOf, Stored
<1>5. QED
  BY <1>3, <1>4

LEMMA ArmStep ==
  ASSUME TypeOK, HolderKept, ArmKept, [Next]_vars
  PROVE  ArmKept'
<1>n. \A g \in Goroutines : NoHolder # g
  BY HolderAssumption
<1>1. ASSUME NEW g \in Goroutines, CallMoves(g) PROVE ArmKept'
  BY <1>1, CallArms
<1>2. ASSUME NEW g \in Goroutines, Opens(g) PROVE ArmKept'
  BY <1>2 DEF Opens, ArmKept, RacerOf, Stored
<1>3. ASSUME NEW g \in Goroutines, Closes(g) PROVE ArmKept'
  <2>1. pc'[g] = "stampClose"
    BY <1>3 DEF Closes, Goto, TypeOK
  <2>2. QED
    BY <2>1 DEF ArmKept, RacerOf, Stored
<1>4. ASSUME NEW g \in Goroutines, Stamp(g) PROVE ArmKept'
  <2>0. Others(g) /\ UNCHANGED <<isOpen, openedAt, closedAt, overtaken>>
    BY <1>4 DEF Stamp, Goto, Others, TypeOK, closerVars, lastClose, circuitVars
  <2>1. CASE pc[g] = "stampOpen"
    <3>1. pc'[g] = "armSleep" /\ isOpen
      BY <1>4, <2>1 DEF Stamp, Goto, TypeOK, HolderKept, HolderOf, Opening
    <3>2. QED
      BY <2>0, <2>1, <3>1, ArmFrame DEF Stored
  <2>2. CASE pc[g] = "stampClose"
    <3>1. pc'[g] = "storeClosed" /\ now'[g] = 0
      BY <1>4, <2>2 DEF Stamp, Goto, TypeOK
    <3>2. \A h \in Goroutines : now'[h] <= now'[g]
      BY <2>0, <3>1, Constants DEF Others, TypeOK
    <3>3. QED
      BY <3>1, <3>2 DEF ArmKept, RacerOf, Stored
  <2>3. QED
    BY <1>4, <2>1, <2>2 DEF Stamp
<1>5. ASSUME NEW g \in Goroutines, ArmSleep(g) \/ ArmPublish(g) PROVE ArmKept'
  <2>1. /\ Others(g) /\ UNCHANGED <<isOpen, closedAt, overtaken>>
        /\ pc[g] \in {"armSleep", "armPublish"} /\ pc'[g] \in {"armPublish", "armReset"}
    BY <1>5 DEF ArmSleep, ArmPublish, Goto, Others, TypeOK, closerVars, lastClose, circuitVars
  <2>2. ~(Stored /\ ~overtaken)
    BY <2>1 DEF ArmKept
  <2>3. QED
    BY <2>1, <2>2, ArmFrame
<1>6. ASSUME NEW g \in Goroutines, ArmReset(g) PROVE ArmKept'
  <2>1. /\ Others(g) /\ UNCHANGED <<isOpen, openedAt, closedAt, overtaken>>
        /\ pc[g] = "armReset" /\ pc'[g] = "idle"
    BY <1>6, DoneMoves DEF ArmReset, lastClose
  <2>2. QED
    BY <2>1, ArmFrame
<1>7. ASSUME NEW g \in Goroutines, StoreClosed(g) PROVE ArmKept'
  <2>1. /\ Others(g) /\ UNCHANGED <<isOpen, openedAt>> /\ closedAt' = now[g] /\ UNCHANGED now
        /\ pc[g] = "storeClosed" /\ pc'[g] = "clearOpened"
        /\ overtaken' = (\E h \in Goroutines : pc[h] \in {"armSleep", "armPublish"})
    BY <1>7 DEF StoreClosed, Goto, Others, TypeOK, circuitVars
  <2>2. transitionMu = g
    BY <2>1 DEF HolderKept, HolderOf, Closing
  <2>3. \A h \in Goroutines \ {g} : pc[h] \notin {"stampClose", "storeClosed"}
    BY <2>2 DEF HolderKept, HolderOf, Closing
  <2>4. ASSUME NEW h \in Goroutines PROVE RacerOf(h)'
    <3>1. SUFFICES ASSUME pc'[h] \in {"loadOpened", "loadClosed"}, ~isOpen
                   PROVE  now[h] <= now[g] /\ now[g] # Nil
      <4>1. ~isOpen' => Stored'
        BY <2>1, <2>3 DEF Stored, Others
      <4>2. QED
        BY <2>1, <4>1 DEF RacerOf
    <3>2. pc[h] \in {"loadOpened", "loadClosed"}
      BY <2>1, <3>1 DEF Others
    <3>3. now[g] \in Int /\ now[g] # Nil
      BY Constants DEF TypeOK
    <3>4. RacerOf(h)
      BY DEF ArmKept
    <3>5. now[h] <= now[g]
      BY <2>1, <2>3, <3>1, <3>2, <3>4 DEF RacerOf, Stored
    <3>6. QED
      BY <3>3, <3>5
  <2>5. ~overtaken' => \A h \in Goroutines : pc'[h] \notin {"armSleep", "armPublish"}
    BY <2>1 DEF Others
  <2>6. QED
    BY <2>1, <2>4, <2>5 DEF ArmKept
<1>8. ASSUME NEW g \in Goroutines, ClearOpened(g) PROVE ArmKept'
  <2>1. /\ Others(g) /\ UNCHANGED <<isOpen, closedAt, overtaken>> /\ openedAt' = Nil
        /\ pc[g] = "clearOpened" /\ pc'[g] = "closedReset" /\ UNCHANGED now
    BY <1>8 DEF ClearOpened, Goto, Others, TypeOK, lastClose, circuitVars
  <2>2. QED
    BY <2>1 DEF ArmKept, RacerOf, Stored, Others
<1>9. ASSUME NEW g \in Goroutines, ClosedReset(g) PROVE ArmKept'
  <2>1. /\ Others(g) /\ UNCHANGED <<isOpen, openedAt, closedAt, overtaken>>
        /\ pc[g] = "closedReset" /\ pc'[g] = "idle"
    BY <1>9, DoneMoves DEF ClosedReset, lastClose
  <2>2. QED
    BY <2>1, ArmFrame
<1>10. CASE Tick
  <2>1. /\ UNCHANGED <<isOpen, overtaken, pc>> /\ closedAt' = Older(closedAt)
        /\ \A h \in Goroutines : pc[h] # "idle" => now'[h] = now[h] - 1
        /\ (openedAt = Nil => openedAt' = Nil)
    BY <1>10, OlderTime DEF Tick, circuitVars
  <2>2. ASSUME NEW h \in Goroutines PROVE RacerOf(h)'
    <3>1. RacerOf(h) /\ now[h] \in Int /\ now[h] >= -MaxAge
      BY Constants DEF ArmKept, TypeOK
    <3>2. closedAt # Nil /\ now[h] <= closedAt => closedAt' # Nil /\ now[h] - 1 <= closedAt'
      <4>1. SUFFICES ASSUME closedAt # Nil, now[h] <= closedAt
                     PROVE  closedAt' = closedAt - 1 /\ closedAt \in Int
        BY <3>1, Constants
      <4>2. closedAt \in Times
        BY <4>1 DEF TypeOK
      <4>3. closedAt # -Horizon /\ closedAt \in Int /\ closedAt \in -Horizon .. SleepWindow
        BY <3>1, <4>1, <4>2, Constants DEF Times
      <4>4. QED
        BY <2>1, <4>3, OlderTime
    <3>3. \A k \in Goroutines : now[k] \in Int
      BY Constants DEF TypeOK
    <3>4. Stored' <=> Stored
      BY <2>1 DEF Stored
    <3>5. SUFFICES ASSUME pc[h] \in {"loadOpened", "loadClosed"}, ~isOpen
                   PROVE  \/ \E k \in Goroutines : pc[k] = "stampClose"
                          \/ \E k \in Goroutines : pc[k] = "storeClosed" /\ now'[h] <= now'[k]
                          \/ Stored /\ closedAt' # Nil /\ now'[h] <= closedAt'
      BY <2>1, <3>4 DEF RacerOf
    <3>6. now'[h] = now[h] - 1
      BY <2>1, <3>5
    <3>7. ASSUME NEW k \in Goroutines, pc[k] = "storeClosed", now[h] <= now[k]
          PROVE  now'[h] <= now'[k]
      BY <2>1, <3>3, <3>6, <3>7
    <3>8. QED
      BY <3>1, <3>2, <3>5, <3>6, <3>7 DEF RacerOf
  <2>3. QED
    BY <2>1, <2>2 DEF ArmKept, Stored
<1>11. CASE Timer \/ UNCHANGED vars
  BY <1>11 DEF Timer, vars, closerVars, lastClose, circuitVars, ArmKept, RacerOf, Stored
<1>12. QED
  BY <1>1, <1>2, <1>3, <1>4, <1>5, <1>6, <1>7, <1>8, <1>9, <1>10, <1>11, NextCases

LEMMA ArmInvariant == Spec => [](HolderKept /\ ArmKept)
<1>1. Init => HolderKept /\ ArmKept
  BY HolderAssumption DEF Init, HolderKept, HolderOf, ArmKept, RacerOf, Opening, Closing
<1>2. TypeOK /\ HolderKept /\ ArmKept /\ [Next]_vars => (HolderKept /\ ArmKept)'
  BY HolderStep, ArmStep
<1>3. QED
  BY <1>1, <1>2, HalfOpenTypeCorrect, PTL DEF Spec

(* Once a close is complete the closer is not armed and nobody is about to *)
(* arm it, but for a request that had looked at closedAt before that close *)
(* was stored: whatever requests and operators do.                         *)
THEOREM ArmedSafe == Spec => []ArmedOnlyWhileOpen
<1>1. TypeOK /\ HolderKept /\ ArmKept => ArmedOnlyWhileOpen
  <2>1. SUFFICES ASSUME HolderKept, ArmKept, transitionMu = NoHolder, ~isOpen, ~overtaken
                 PROVE  openedAt = Nil /\ \A g \in Goroutines : pc[g] \notin {"armSleep", "armPublish"}
    BY DEF ArmedOnlyWhileOpen
  <2>2. \A g \in Goroutines : pc[g] \notin Closing
    BY <2>1, HolderAssumption DEF HolderKept, HolderOf
  <2>3. QED
    BY <2>1, <2>2 DEF ArmKept, Stored, Closing
<1>2. QED
  BY <1>1, ArmInvariant, HalfOpenTypeCorrect, PTL

-----------------------------------------------------------------------------
(* When probes begin.                                                      *)

(* Whoever starts a window while the circuit is open starts one of this    *)
(* episode: it cannot be older than MaxAge, and the opening is past.       *)
LEMMA StartsOfThisEpisode ==
  ASSUME TypeOK, NEW g \in Goroutines, nextOpenTime' = now[g] + SleepWindow, UNCHANGED flippedAt
  PROVE  OfThisEpisode'
<1>1. now[g] \in Int /\ now[g] >= -MaxAge /\ flippedAt \in Int /\ flippedAt <= 0
  BY Constants DEF TypeOK, Times
<1>2. now[g] + SleepWindow >= flippedAt + SleepWindow - MaxAge
  BY <1>1, Constants
<1>3. QED
  BY <1>2 DEF OfThisEpisode

LEMMA TimePasses ==
  ASSUME TypeOK, OfThisEpisode, Tick
  PROVE  OfThisEpisode'
<1>1. /\ nextOpenTime \in -Horizon .. SleepWindow /\ flippedAt \in -Horizon .. SleepWindow
      /\ nextOpenTime' = Older(nextOpenTime) /\ flippedAt' = Older(flippedAt)
  BY Constants DEF TypeOK, Times, Tick, TimedCheckAges
<1>2. CASE flippedAt = -Horizon
  BY <1>1, <1>2 DEF OfThisEpisode, Older
<1>3. CASE flippedAt # -Horizon
  <2>1. /\ nextOpenTime \in Int /\ flippedAt \in Int
        /\ Older(nextOpenTime) \in Int /\ Older(nextOpenTime) >= nextOpenTime - 1
        /\ Older(flippedAt) = flippedAt - 1
    BY <1>1, <1>3, OlderTime, Constants
  <2>2. nextOpenTime >= flippedAt + SleepWindow - MaxAge
    BY <1>3 DEF OfThisEpisode
  <2>3. nextOpenTime' >= flippedAt' + SleepWindow - MaxAge
    BY <1>1, <2>1, <2>2, Constants
  <2>4. QED
    BY <2>3 DEF OfThisEpisode
<1>4. QED
  BY <1>2, <1>3

(* A step that does not open the circuit or store a close.                 *)
LEMMA WindowFrame ==
  ASSUME TypeOK, WindowKept, NEW g \in Goroutines, Others(g),
         UNCHANGED <<isOpen, overtaken, flippedAt>>,
         nextOpenTime' = nextOpenTime \/ \E h \in Goroutines : nextOpenTime' = now[h] + SleepWindow,
         isOpen /\ ~overtaken =>
           /\ openedAt' # Nil => openedAt # Nil \/ OfThisEpisode'
           /\ pc'[g] = "armPublish" => OfThisEpisode'
           /\ pc'[g] \in {"fastFail", "check"} /\ now'[g] > flippedAt => OfThisEpisode',
         \A h \in probe' : pc'[h] \in Probing
  PROVE  WindowKept'
<1>1. OfThisEpisode => OfThisEpisode'
  <2>1. CASE nextOpenTime' = nextOpenTime
    BY <2>1 DEF OfThisEpisode
  <2>2. CASE \E h \in Goroutines : nextOpenTime' = now[h] + SleepWindow
    BY <2>2, StartsOfThisEpisode
  <2>3. QED
    BY <2>1, <2>2
<1>2. QED
  BY <1>1 DEF WindowKept, Others

LEMMA CallWindow ==
  ASSUME TypeOK, WindowKept, NEW g \in Goroutines, CallMoves(g)
  PROVE  WindowKept'
<1>1. /\ Others(g) /\ UNCHANGED <<isOpen, overtaken, flippedAt, openedAt>>
      /\ nextOpenTime' = nextOpenTime \/ nextOpenTime' = now[g] + SleepWindow
      /\ pc'[g] # "armPublish"
  BY DEF CallMoves
<1>2. OfThisEpisode => OfThisEpisode'
  <2>1. CASE nextOpenTime' = nextOpenTime
    BY <1>1, <2>1 DEF OfThisEpisode
  <2>2. CASE nextOpenTime' = now[g] + SleepWindow
    BY <1>1, <2>2, StartsOfThisEpisode
  <2>3. QED
    BY <1>1, <2>1, <2>2
<1>3. pc'[g] = "fastFail" /\ isOpen /\ ~overtaken => OfThisEpisode'
  BY <1>2 DEF CallMoves, WindowKept
<1>4. pc'[g] = "check" /\ isOpen /\ ~overtaken /\ now'[g] > flippedAt => OfThisEpisode'
  BY <1>2 DEF CallMoves, WindowKept
<1>5. ASSUME NEW h \in probe' PROVE pc'[h] \in Probing
  <2>1. CASE h = g
    BY <2>1 DEF CallMoves, ProbeMoves, WindowKept, Probing
  <2>2. CASE h # g
    BY <2>2 DEF CallMoves, ProbeMoves, WindowKept, Others, TypeOK
  <2>3. QED
    BY <2>1, <2>2
<1>6. QED
  BY <1>1, <1>3, <1>4, <1>5, WindowFrame

LEMMA WindowStep ==
  ASSUME TypeOK, HolderKept, ArmKept, WindowKept, [Next]_vars
  PROVE  WindowKept'
<1>1. ASSUME NEW g \in Goroutines, CallMoves(g) PROVE WindowKept'
  BY <1>1, CallWindow
<1>2. ASSUME NEW g \in Goroutines, Opens(g) PROVE WindowKept'
  <2>1. /\ transitionMu = NoHolder /\ ~isOpen /\ flippedAt' = 0 /\ probe' = {} /\ UNCHANGED now
        /\ pc'[g] = "stampOpen" /\ \A h \in Goroutines \ {g} : pc'[h] = pc[h]
        /\ UNCHANGED <<openedAt, overtaken>>
    BY <1>2 DEF Opens, Goto, TypeOK, closerVars, lastClose
  <2>2. \A h \in Goroutines : pc[h] \notin Closing
    BY <2>1, HolderAssumption DEF HolderKept, HolderOf
  <2>3. ~overtaken => openedAt = Nil /\ \A h \in Goroutines : pc[h] # "armPublish"
    BY <2>1, <2>2 DEF ArmKept, Stored, Closing
  <2>4. \A h \in Goroutines : ~(now'[h] > flippedAt')
    BY <2>1, Constants DEF TypeOK
  <2>5. QED
    BY <2>1, <2>3, <2>4 DEF WindowKept
<1>3. ASSUME NEW g \in Goroutines, Closes(g) PROVE WindowKept'
  BY <1>3 DEF Closes, WindowKept
<1>4. ASSUME NEW g \in Goroutines, Stamp(g) PROVE WindowKept'
  <2>1. /\ Others(g) /\ UNCHANGED <<isOpen, overtaken, flippedAt, nextOpenTime, openedAt, probe>>
        /\ pc[g] \in {"stampOpen", "stampClose"} /\ pc'[g] \in {"armSleep", "storeClosed"}
    BY <1>4 DEF Stamp, Goto, TypeOK, Others, timedCheckVars, closerVars, lastClose, circuitVars, history
  <2>2. \A h \in probe' : pc'[h] \in Probing
    BY <2>1 DEF WindowKept, Others, Probing, TypeOK
  <2>3. QED
    BY <2>1, <2>2, WindowFrame
<1>5. ASSUME NEW g \in Goroutines, ArmSleep(g) PROVE WindowKept'
  <2>1. /\ Others(g) /\ UNCHANGED <<isOpen, overtaken, flippedAt, openedAt, probe>>
        /\ nextOpenTime' = now[g] + SleepWindow
        /\ pc[g] = "armSleep" /\ pc'[g] = "armPublish"
    BY <1>5 DEF ArmSleep, SleepStart, Goto, TypeOK, Others, closerVars, lastClose, circuitVars, history
  <2>2. OfThisEpisode'
    BY <2>1, StartsOfThisEpisode
  <2>3. \A h \in probe' : pc'[h] \in Probing
    BY <2>1 DEF WindowKept, Others, Probing, TypeOK
  <2>4. QED
    BY <2>1, <2>2, <2>3, WindowFrame
<1>6. ASSUME NEW g \in Goroutines, ArmPublish(g) PROVE WindowKept'
  <2>1. /\ Others(g) /\ UNCHANGED <<isOpen, overtaken, flippedAt, nextOpenTime, probe>>
        /\ pc[g] = "armPublish" /\ pc'[g] = "armReset"
    BY <1>6 DEF ArmPublish, Goto, TypeOK, Others, timedCheckVars, lastClose, circuitVars, history
  <2>2. isOpen /\ ~overtaken => OfThisEpisode'
    BY <2>1 DEF WindowKept, OfThisEpisode
  <2>3. \A h \in probe' : pc'[h] \in Probing
    BY <2>1 DEF WindowKept, Others, Probing, TypeOK
  <2>4. QED
    BY <2>1, <2>2, <2>3, WindowFrame
<1>7. ASSUME NEW g \in Goroutines, ArmReset(g) \/ ClosedReset(g) PROVE WindowKept'
  <2>1. /\ Done(g) /\ UNCHANGED <<isOpen, overtaken, flippedAt, nextOpenTime, openedAt>>
    BY <1>7 DEF ArmReset, ClosedReset, timedCheckVars, lastClose
  <2>2. Others(g) /\ pc'[g] = "idle" /\ probe' = probe \ {g}
    BY <2>1, DoneMoves DEF Done
  <2>3. \A h \in probe' : pc'[h] \in Probing
    BY <2>2 DEF WindowKept, Others, TypeOK
  <2>4. QED
    BY <2>1, <2>2, <2>3, WindowFrame
<1>8. ASSUME NEW g \in Goroutines, StoreClosed(g) \/ ClearOpened(g) PROVE WindowKept'
  <2>1. /\ Others(g) /\ UNCHANGED <<isOpen, probe>>
        /\ pc[g] \in {"storeClosed", "clearOpened"} /\ pc'[g] \in {"clearOpened", "closedReset"}
    BY <1>8 DEF StoreClosed, ClearOpened, Goto, TypeOK, Others, circuitVars, history
  <2>2. ~isOpen
    BY <2>1 DEF HolderKept, HolderOf, Closing
  <2>3. \A h \in probe' : pc'[h] \in Probing
    BY <2>1 DEF WindowKept, Others, Probing, TypeOK
  <2>4. QED
    BY <2>1, <2>2, <2>3 DEF WindowKept
<1>9. CASE Tick
  <2>1. /\ UNCHANGED <<isOpen, overtaken, pc, probe>>
        /\ openedAt' = Older(openedAt) /\ flippedAt' = Older(flippedAt)
        /\ \A h \in Goroutines : pc[h] # "idle" => now'[h] = now[h] - 1
    BY <1>9 DEF Tick, circuitVars
  <2>2. OfThisEpisode => OfThisEpisode'
    BY <1>9, TimePasses
  <2>3. openedAt' # Nil => openedAt # Nil
    BY <2>1, OlderTime
  <2>4. ASSUME NEW h \in Goroutines, pc[h] # "idle", now'[h] > flippedAt'
        PROVE  now[h] > flippedAt
    <3>1. flippedAt \in -Horizon .. SleepWindow /\ flippedAt \in Int /\ now[h] \in Int /\ now[h] >= -MaxAge
      BY Constants DEF TypeOK, Times
    <3>2. CASE flippedAt = -Horizon
      BY <3>1, <3>2, Constants
    <3>3. CASE flippedAt # -Horizon
      BY <2>1, <2>4, <3>1, <3>3, OlderTime
    <3>4. QED
      BY <3>2, <3>3
  <2>5. QED
    BY <2>1, <2>2, <2>3, <2>4 DEF WindowKept
<1>10. CASE Timer \/ UNCHANGED vars
  <2>1. UNCHANGED <<isOpen, overtaken, pc, probe, openedAt, flippedAt, now, nextOpenTime>>
    BY <1>10 DEF Timer, TimerFires, TimerClears, vars, timedCheckVars, closerVars, lastClose, circuitVars, history
  <2>2. QED
    BY <2>1 DEF WindowKept, OfThisEpisode
<1>11. QED
  BY <1>1, <1>2, <1>3, <1>4, <1>5, <1>6, <1>7, <1>8, <1>9, <1>10, NextCases

(* A probe of this episode is late enough, and stays so.                   *)
LEMMA ProbeStep ==
  ASSUME TypeOK, HolderKept, WindowKept, ProbesWaitForTheWindow, [Next]_vars
  PROVE  ProbesWaitForTheWindow'
<1>0. ASSUME NEW g \in Goroutines, Others(g), UNCHANGED <<isOpen, overtaken, flippedAt>>,
             probe' \subseteq probe \ {g}
      PROVE  ProbesWaitForTheWindow'
  BY <1>0 DEF ProbesWaitForTheWindow, Others, TypeOK
<1>1. ASSUME NEW g \in Goroutines, CallMoves(g) PROVE ProbesWaitForTheWindow'
  <2>1. Others(g) /\ ProbeMoves(g) /\ UNCHANGED <<isOpen, overtaken, flippedAt>>
    BY <1>1 DEF CallMoves
  <2>2. SUFFICES ASSUME isOpen, ~overtaken, NEW h \in probe', now'[h] > flippedAt
                 PROVE  now'[h] - flippedAt >= SleepWindow - MaxAge
    BY <2>1 DEF ProbesWaitForTheWindow
  <2>3. CASE h \in probe
    <3>1. now'[h] = now[h]
      BY <2>1, <2>2, <2>3 DEF Others, ProbeMoves, TypeOK
    <3>2. QED
      BY <2>2, <2>3, <3>1 DEF ProbesWaitForTheWindow
  <2>4. CASE h \notin probe
    <3>1. h = g /\ pc[g] = "check" /\ now'[g] = now[g] /\ nextOpenTime <= now[g]
      BY <2>1, <2>2, <2>4 DEF ProbeMoves
    <3>2. OfThisEpisode
      BY <2>2, <3>1 DEF WindowKept
    <3>3. now[g] \in Int /\ now[g] >= -MaxAge /\ flippedAt \in Int /\ nextOpenTime \in Int
      BY Constants DEF TypeOK, Times
    <3>4. now[g] - flippedAt >= SleepWindow - MaxAge
      BY <3>1, <3>2, <3>3, Constants DEF OfThisEpisode
    <3>5. QED
      BY <3>1, <3>4
  <2>5. QED
    BY <2>3, <2>4
<1>2. ASSUME NEW g \in Goroutines, Opens(g) \/ Closes(g) PROVE ProbesWaitForTheWindow'
  BY <1>2 DEF Opens, Closes, ProbesWaitForTheWindow
<1>3. ASSUME NEW g \in Goroutines, Stamp(g) \/ ArmSleep(g) \/ ArmPublish(g) \/ ClearOpened(g)
      PROVE  ProbesWaitForTheWindow'
  <2>1. Others(g) /\ UNCHANGED <<isOpen, overtaken, flippedAt, probe>>
    BY <1>3 DEF Stamp, ArmSleep, ArmPublish, ClearOpened, Goto, TypeOK, Others, closerVars, lastClose,
                circuitVars, history
  <2>2. pc[g] \notin Probing
    BY <1>3 DEF Stamp, ArmSleep, ArmPublish, ClearOpened, Probing
  <2>3. probe' \subseteq probe \ {g}
    BY <2>1, <2>2 DEF WindowKept
  <2>4. QED
    BY <1>0, <2>1, <2>3
<1>4. ASSUME NEW g \in Goroutines, ArmReset(g) \/ ClosedReset(g) PROVE ProbesWaitForTheWindow'
  <2>1. Done(g) /\ UNCHANGED <<isOpen, overtaken, flippedAt>>
    BY <1>4 DEF ArmReset, ClosedReset, lastClose
  <2>2. QED
    BY <1>0, <2>1, DoneMoves DEF Done
<1>5. ASSUME NEW g \in Goroutines, StoreClosed(g) PROVE ProbesWaitForTheWindow'
  BY <1>5 DEF StoreClosed, HolderKept, HolderOf, Closing, ProbesWaitForTheWindow, circuitVars
<1>6. CASE Tick
  <2>1. /\ UNCHANGED <<isOpen, overtaken, pc, probe>> /\ flippedAt' = Older(flippedAt)
        /\ \A h \in Goroutines : pc[h] # "idle" => now'[h] = now[h] - 1
        /\ \A h \in Goroutines : pc[h] # "idle" => now[h] > -MaxAge
    BY <1>6 DEF Tick, circuitVars
  <2>2. SUFFICES ASSUME isOpen, ~overtaken, NEW h \in probe, now'[h] > flippedAt'
                 PROVE  now'[h] - flippedAt' >= SleepWindow - MaxAge
    BY <2>1 DEF ProbesWaitForTheWindow
  <2>3. /\ h \in Goroutines /\ now'[h] = now[h] - 1 /\ now[h] > -MaxAge /\ now[h] \in Int
        /\ flippedAt \in -Horizon .. SleepWindow /\ flippedAt \in Int
    BY <2>1, <2>2, Constants DEF WindowKept, Probing, TypeOK, Times
  <2>4. CASE flippedAt = -Horizon
    <3>1. flippedAt' = -Horizon
      BY <2>1, <2>4 DEF Older
    <3>2. QED
      BY <2>3, <3>1, Constants
  <2>5. CASE flippedAt # -Horizon
    <3>1. flippedAt' = flippedAt - 1
      BY <2>1, <2>3, <2>5, OlderTime
    <3>2. now[h] > flippedAt
      BY <2>2, <2>3, <3>1
    <3>3. now[h] - flippedAt >= SleepWindow - MaxAge
      BY <2>2, <3>2 DEF ProbesWaitForTheWindow
    <3>4. QED
      BY <2>3, <3>1, <3>3, Constants
  <2>6. QED
    BY <2>4, <2>5
<1>7. CASE Timer \/ UNCHANGED vars
  BY <1>7 DEF Timer, vars, closerVars, lastClose, circuitVars, history, ProbesWaitForTheWindow
<1>8. QED
  BY <1>1, <1>2, <1>3, <1>4, <1>5, <1>6, <1>7, NextCases

(* Closer.arm's order, SleepStart before openedAt, at work: a request that *)
(* began after the circuit opened is let through only a SleepWindow later, *)
(* less the age of a request that may have armed the closer itself, unless *)
(* the closer was left armed by a request that the last close overtook.    *)
THEOREM ProbesSafe == Spec => []ProbesWaitForTheWindow
<1>1. Init => WindowKept /\ ProbesWaitForTheWindow
  BY DEF Init, WindowKept, ProbesWaitForTheWindow, OfThisEpisode
<1>2. TypeOK /\ HolderKept /\ ArmKept /\ WindowKept /\ ProbesWaitForTheWindow /\ [Next]_vars
      => (WindowKept /\ ProbesWaitForTheWindow)'
  BY WindowStep, ProbeStep
<1>3. QED
  BY <1>1, <1>2, ArmInvariant, HalfOpenTypeCorrect, PTL DEF Spec
=============================================================================
