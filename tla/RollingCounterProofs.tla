------------------------ MODULE RollingCounterProofs ------------------------
(* Proofs about RollingCounter, for any number of buckets, any callers and *)
(* any clocks.                                                             *)
EXTENDS RollingCounter, SequenceTheorems, TLAPS

-----------------------------------------------------------------------------
(* The ring.                                                               *)

(* Every index has a slot.                                                 *)
LEMMA SlotType == \A i \in Int : Slot(i) \in Slots
BY NumBucketsAssumption DEF Slot, Slots

(* Division by the number of buckets.                                      *)
LEMMA TurnAndSlot ==
  ASSUME NEW i \in Int
  PROVE  i \div NumBuckets \in Int /\ i = NumBuckets * (i \div NumBuckets) + Slot(i)
<1>1. NumBuckets \in Nat /\ NumBuckets > 0
  BY NumBucketsAssumption
<1>2. i \div NumBuckets \in Int
  BY <1>1
<1>3. i = NumBuckets * (i \div NumBuckets) + (i % NumBuckets)
  BY <1>1
<1>4. QED
  BY <1>2, <1>3 DEF Slot

(* There is no integer between two neighbours.                             *)
LEMMA IntegerGap ==
  ASSUME NEW a \in Int, NEW b \in Int, NEW c \in Int, a + b # c, a + b < c + 1
  PROVE  a + b < c
<1> DEFINE sum == a + b
<1>1. sum \in Int /\ sum # c /\ sum < c + 1
  OBVIOUS
<1> HIDE DEF sum
<1>2. sum < c
  BY <1>1
<1>3. QED
  BY <1>2 DEF sum

(* One turn of the ring later, an index has the same slot.                 *)
LEMMA SlotPeriodic == \A i \in Int : Slot(i + NumBuckets) = Slot(i)
<1> SUFFICES ASSUME NEW i \in Int PROVE Slot(i + NumBuckets) = Slot(i)
  OBVIOUS
<1>1. NumBuckets \in Int /\ NumBuckets > 0
  BY NumBucketsAssumption
<1>2. Slot(i) \in 0 .. NumBuckets - 1
  BY SlotType DEF Slots
<1> DEFINE q == i \div NumBuckets
<1>3. q + 1 \in Int /\ i + NumBuckets \in Int
      /\ i + NumBuckets = NumBuckets * (q + 1) + Slot(i)
  BY <1>1, <1>2, TurnAndSlot
<1>4. \A n \in Int : \A r \in 0 .. n - 1 : \A t \in Int : n > 0 => ((n * t) + r) % n = r
  OBVIOUS
<1>5. QED
  BY ONLY <1>1, <1>2, <1>3, <1>4 DEF Slot

(* Two indices less than one turn apart have different slots.              *)
LEMMA SlotsDiffer ==
  ASSUME NEW i \in Int, NEW j \in Int, i < j, j - i < NumBuckets
  PROVE  Slot(i) # Slot(j)
<1> SUFFICES ASSUME Slot(i) = Slot(j) PROVE FALSE
  OBVIOUS
<1>1. NumBuckets \in Int /\ Slot(i) \in Int
  BY SlotType, NumBucketsAssumption DEF Slots
<1> DEFINE p == i \div NumBuckets
           q == j \div NumBuckets
<1>2. p \in Int /\ q \in Int /\ i = NumBuckets * p + Slot(i) /\ j = NumBuckets * q + Slot(i)
  BY TurnAndSlot
<1> HIDE DEF p, q
<1>3. NumBuckets * q - NumBuckets * p > 0 /\ NumBuckets * q - NumBuckets * p < NumBuckets
  BY <1>1, <1>2
<1>4. QED
  BY <1>1, <1>2, <1>3

-----------------------------------------------------------------------------
(* The calls.                                                              *)

(* A call is where its method and its index let it be: only the holder of  *)
(* advanceMu rolls, forward, to the index it came with; an event is known  *)
(* by its index; it is added only within the published window.             *)
CallInOrder(g) ==
  /\ advanceMu = g <=> pc[g] = "clear"
  /\ pc[g] # "idle" /\ op[g] = "Inc" =>
       event[g] \in Events /\ eventIndex[event[g]] = absIndex[g]
  /\ pc[g] = "lock" => absIndex[g] # BeforeStart
  /\ pc[g] = "clear" =>
       /\ lastAbsIndex < absIndex[g] /\ lastAbsIndex < cursor[g]
       /\ lastCleared[g] = LastToClear(g)
  /\ pc[g] = "add" => op[g] = "Inc" /\ absIndex[g] \in 0 .. lastAbsIndex
  /\ pc[g] \in {"read", "summed"} => op[g] = "RollingSumAt" /\ floor[g] <= lastAbsIndex
  /\ pc[g] \notin {"read", "summed"} => seen[g] = {}

CallsInOrder == \A g \in Goroutines : CallInOrder(g)

Locations == {"idle", "advance", "lock", "clear", "add", "read", "summed", "wipe"}

(* The part of TypeOK about the locals of the calls.                       *)
LocalsTyped ==
  /\ pc \in [Goroutines -> Locations]
  /\ op \in [Goroutines -> {"Inc", "RollingSumAt", "Reset"}]
  /\ absIndex \in [Goroutines -> Indices]
  /\ event \in [Goroutines -> 0 .. totalSum]
  /\ cursor \in [Goroutines -> 0 .. MaxIndex + 1 + NumBuckets]
  /\ \A g \in Goroutines : pc[g] \in {"read", "wipe"} => cursor[g] \in Slots
  /\ lastCleared \in [Goroutines -> 0 .. MaxIndex + NumBuckets]
  /\ seen \in [Goroutines -> SUBSET Events]

(* Bounds of the indices and of the loops.                                 *)
LEMMA Bounds ==
  /\ MaxIndex \in Nat /\ NumBuckets \in Nat /\ NumBuckets > 0
  /\ Indices = -1 .. MaxIndex /\ 0 \in Slots
BY BoundsAssumption, NumBucketsAssumption DEF Indices, BeforeStart, Slots

(* The events are numbered from 1.                                         *)
LEMMA EventsType == TypeOK => totalSum \in Nat /\ Events = 1 .. totalSum
BY LenProperties DEF TypeOK, totalSum, Events

(* What the provers need to know to calculate.                             *)
LEMMA Numbers ==
  ASSUME TypeOK
  PROVE  /\ lastAbsIndex \in Nat /\ NumBuckets \in Nat /\ NumBuckets > 0
         /\ \A g \in Goroutines :
              /\ absIndex[g] \in Int /\ absIndex[g] >= -1
              /\ cursor[g] \in Nat /\ lastCleared[g] \in Nat /\ floor[g] \in Nat
         /\ \A e \in Events : eventIndex[e] \in Int /\ eventIndex[e] >= -1
<1>1. \A e \in Events : eventIndex[e] \in Indices
  BY EventsType, ElementOfSeq DEF TypeOK, Events, totalSum
<1>2. QED
  BY <1>1, Bounds DEF TypeOK

(* What Return makes of the locals.                                        *)
LEMMA ReturnTypes ==
  ASSUME TypeOK, NEW g \in Goroutines, Return(g), eventIndex' = eventIndex
  PROVE  LocalsTyped'
<1>1. /\ pc' \in [Goroutines -> Locations]
      /\ op' \in [Goroutines -> {"Inc", "RollingSumAt", "Reset"}]
      /\ absIndex' \in [Goroutines -> Indices]
  BY Bounds DEF TypeOK, Return, Goto, Locations
<1>2. /\ event' \in [Goroutines -> (0 .. totalSum)']
      /\ seen' \in [Goroutines -> SUBSET Events']
  BY EventsType DEF TypeOK, Return, totalSum, Events
<1>3. /\ cursor' \in [Goroutines -> 0 .. MaxIndex + 1 + NumBuckets]
      /\ \A h \in Goroutines : pc'[h] \in {"read", "wipe"} => cursor'[h] \in Slots
      /\ lastCleared' \in [Goroutines -> 0 .. MaxIndex + NumBuckets]
  BY Bounds DEF TypeOK, Return, Goto
<1>4. QED
  BY <1>1, <1>2, <1>3 DEF LocalsTyped

(* What the answer of Advance makes of the locals.                         *)
LEMMA AdvancedTypes ==
  ASSUME TypeOK, NEW g \in Goroutines, NEW inWindow, Advanced(g, inWindow),
         eventIndex' = eventIndex, lastAbsIndex' \in 0 .. MaxIndex
  PROVE  LocalsTyped' /\ floor' \in [Goroutines -> 0 .. MaxIndex]
<1>1. CASE Return(g) /\ UNCHANGED floor
  BY <1>1, ReturnTypes DEF TypeOK
<1>2. CASE ~(Return(g) /\ UNCHANGED floor)
  <2>1. /\ Goto(g, CASE op[g] = "Inc"          -> "add"
                     [] op[g] = "RollingSumAt" -> "read"
                     [] op[g] = "Reset"        -> "wipe")
        /\ cursor' = [cursor EXCEPT ![g] = 0]
        /\ lastCleared' = [lastCleared EXCEPT ![g] = 0]
        /\ floor' = [floor EXCEPT ![g] = IF op[g] = "RollingSumAt" THEN lastAbsIndex' ELSE 0]
        /\ UNCHANGED <<op, absIndex, event, seen>>
    BY <1>2 DEF Advanced
  <2>2. pc' \in [Goroutines -> Locations]
    BY <2>1 DEF TypeOK, Goto, Locations
  <2>3. /\ cursor' \in [Goroutines -> 0 .. MaxIndex + 1 + NumBuckets]
        /\ \A h \in Goroutines : pc'[h] \in {"read", "wipe"} => cursor'[h] \in Slots
        /\ lastCleared' \in [Goroutines -> 0 .. MaxIndex + NumBuckets]
    BY <2>1, Bounds DEF TypeOK, Goto
  <2>4. floor' \in [Goroutines -> 0 .. MaxIndex]
    BY <2>1, Bounds DEF TypeOK
  <2>5. QED
    BY <2>1, <2>2, <2>3, <2>4 DEF TypeOK, LocalsTyped, totalSum, Events
<1>3. QED
  BY <1>1, <1>2

(* A call of one of the three methods begins.                              *)
CallBegins(g, index) ==
  /\ Goto(g, "advance")
  /\ absIndex' = [absIndex EXCEPT ![g] = index]
  /\ UNCHANGED cursor

(* ... and is well typed.                                                  *)
LEMMA CallTypes ==
  ASSUME TypeOK, NEW g \in Goroutines, NEW index \in Indices, CallBegins(g, index)
  PROVE  /\ pc' \in [Goroutines -> Locations]
         /\ absIndex' \in [Goroutines -> Indices]
         /\ \A h \in Goroutines : pc'[h] \in {"read", "wipe"} => cursor'[h] \in Slots
BY DEF TypeOK, CallBegins, Goto, Locations

(* A loop over the buckets goes on to the next bucket.                     *)
LEMMA NextBucket ==
  ASSUME TypeOK, NEW g \in Goroutines, pc[g] \in {"read", "wipe"}, MoreBuckets(g),
         cursor' = [cursor EXCEPT ![g] = @ + 1], pc' = pc
  PROVE  /\ cursor' \in [Goroutines -> 0 .. MaxIndex + 1 + NumBuckets]
         /\ \A h \in Goroutines : pc'[h] \in {"read", "wipe"} => cursor'[h] \in Slots
<1>1. cursor[g] \in Slots
  BY DEF TypeOK
<1>2. cursor[g] + 1 \in Slots /\ cursor[g] + 1 \in 0 .. MaxIndex + 1 + NumBuckets
  BY <1>1, Bounds DEF MoreBuckets, Slots
<1>3. QED
  BY <1>2 DEF TypeOK

(* Every step keeps every variable well typed.                             *)
LEMMA TypeStep ==
  ASSUME TypeOK, CallsInOrder, [Next]_vars
  PROVE  TypeOK'
<1> USE Bounds, EventsType
<1>1. \A g \in Goroutines : CallInOrder(g)
  BY DEF CallsInOrder
<1>2. ASSUME NEW g \in Goroutines, NEW index \in Indices, Inc(g, index) PROVE TypeOK'
  <2>1. /\ eventIndex' \in Seq(Indices) /\ totalSum' = totalSum + 1
        /\ Events \subseteq Events' /\ Events' = 1 .. totalSum + 1
    <3>1. eventIndex' \in Seq(Indices) /\ Len(eventIndex') = Len(eventIndex) + 1
      BY <1>2, AppendProperties DEF TypeOK, Inc
    <3>2. QED
      BY <3>1 DEF totalSum, Events
  <2>2. event' \in [Goroutines -> 0 .. totalSum']
    <3>1. \A n \in 0 .. totalSum : n \in 0 .. totalSum'
      BY <2>1
    <3>2. totalSum + 1 \in 0 .. totalSum'
      BY <2>1
    <3>3. event \in [Goroutines -> 0 .. totalSum]
      BY DEF TypeOK
    <3>4. QED
      BY ONLY <1>2, <3>1, <3>2, <3>3 DEF Inc
  <2>3. CallBegins(g, index)
    BY <1>2 DEF Inc, CallBegins
  <2>4. QED
    BY <1>2, <2>1, <2>2, <2>3, CallTypes DEF TypeOK, Inc, history, Locations
<1>3. ASSUME NEW g \in Goroutines, NEW index \in Indices,
             RollingSumAt(g, index) \/ Reset(g, index)
      PROVE  TypeOK'
  <2>1. CallBegins(g, index)
    BY <1>3 DEF RollingSumAt, Reset, CallBegins
  <2>2. /\ op' \in [Goroutines -> {"Inc", "RollingSumAt", "Reset"}]
        /\ owed' \in [Goroutines -> SUBSET Events]
    BY <1>3 DEF TypeOK, RollingSumAt, Reset, history
  <2>3. QED
    BY <1>3, <2>1, <2>2, CallTypes
    DEF TypeOK, RollingSumAt, Reset, Locations, history, totalSum, Events
<1>4. ASSUME NEW g \in Goroutines, FastPath(g) PROVE TypeOK'
  <2>1. LocalsTyped' /\ floor' \in [Goroutines -> 0 .. MaxIndex] /\ lastAbsIndex' = lastAbsIndex
    <3>1. CASE \E inWindow : Advanced(g, inWindow) /\ UNCHANGED lastAbsIndex
      BY <1>4, <3>1, AdvancedTypes DEF TypeOK, FastPath
    <3>2. CASE Goto(g, "lock") /\ UNCHANGED <<lastAbsIndex, locals, floor>>
      BY <1>4, <3>2 DEF TypeOK, FastPath, LocalsTyped, Locations, Goto, locals, totalSum, Events
    <3>3. QED
      BY <1>4, <3>1, <3>2 DEF FastPath
  <2>2. QED
    BY <1>4, <2>1 DEF TypeOK, FastPath, LocalsTyped, Locations, totalSum, Events
<1>5. ASSUME NEW g \in Goroutines, AlreadyRolled(g) PROVE TypeOK'
  <2>1. LocalsTyped' /\ floor' \in [Goroutines -> 0 .. MaxIndex]
    BY <1>5, AdvancedTypes DEF TypeOK, AlreadyRolled
  <2>2. QED
    BY <1>5, <2>1 DEF TypeOK, AlreadyRolled, LocalsTyped, Locations, totalSum, Events
<1>6. ASSUME NEW g \in Goroutines, StartRolling(g) PROVE TypeOK'
  <2>1. /\ FirstToClear \in 0 .. MaxIndex + 1 + NumBuckets
        /\ LastToClear(g) \in 0 .. MaxIndex + NumBuckets
    BY <1>6 DEF TypeOK, StartRolling, NothingToRoll, FirstToClear, LastToClear
  <2>2. QED
    BY <1>6, <2>1 DEF TypeOK, StartRolling, Goto, history, totalSum, Events
<1>7. ASSUME NEW g \in Goroutines, ClearBucket(g) PROVE TypeOK'
  <2>1. cursor[g] + 1 \in 0 .. MaxIndex + 1 + NumBuckets /\ Slot(cursor[g]) \in Slots
    BY <1>7, SlotType DEF TypeOK, ClearBucket
  <2>2. buckets' \in [Slots -> SUBSET Events]
    BY <1>7, <2>1 DEF TypeOK, ClearBucket
  <2>3. /\ cursor' \in [Goroutines -> 0 .. MaxIndex + 1 + NumBuckets]
        /\ \A h \in Goroutines : pc[h] \in {"read", "wipe"} => cursor'[h] \in Slots
    BY <1>7, <2>1 DEF TypeOK, ClearBucket
  <2>4. QED
    BY <1>7, <2>2, <2>3 DEF TypeOK, ClearBucket, history, totalSum, Events
<1>8. ASSUME NEW g \in Goroutines, Publish(g) PROVE TypeOK'
  <2>1. lastAbsIndex' \in 0 .. MaxIndex
    BY <1>1, <1>8 DEF TypeOK, Publish, CallInOrder
  <2>2. LocalsTyped' /\ floor' \in [Goroutines -> 0 .. MaxIndex]
    BY <1>8, <2>1, AdvancedTypes DEF Publish
  <2>3. QED
    BY <1>8, <2>1, <2>2 DEF TypeOK, Publish, LocalsTyped, Locations, totalSum, Events
<1>9. ASSUME NEW g \in Goroutines, Add(g) PROVE TypeOK'
  <2>1. event[g] \in Events /\ Slot(absIndex[g]) \in Slots
    BY <1>1, <1>9, SlotType DEF TypeOK, Add, CallInOrder
  <2>2. LocalsTyped'
    BY <1>9, ReturnTypes DEF Add
  <2>3. lagged' \in BOOLEAN
    BY <1>9, Zenon DEF Add
  <2>4. buckets' \in [Slots -> SUBSET Events] /\ landed' \subseteq Events
    BY <1>9, <2>1 DEF TypeOK, Add
  <2>5. QED
    BY <1>9, <2>2, <2>3, <2>4 DEF TypeOK, Add, LocalsTyped, Locations, totalSum, Events
<1>10. ASSUME NEW g \in Goroutines, ReadBucket(g) PROVE TypeOK'
  <2>1. seen' \in [Goroutines -> SUBSET Events]
    BY <1>10 DEF TypeOK, ReadBucket
  <2>2. /\ pc' \in [Goroutines -> Locations]
        /\ cursor' \in [Goroutines -> 0 .. MaxIndex + 1 + NumBuckets]
        /\ \A h \in Goroutines : pc'[h] \in {"read", "wipe"} => cursor'[h] \in Slots
    <3>1. CASE MoreBuckets(g)
      BY <1>10, <3>1, NextBucket DEF TypeOK, ReadBucket, Locations
    <3>2. CASE ~MoreBuckets(g)
      BY <1>10, <3>2 DEF TypeOK, ReadBucket, Goto, Locations
    <3>3. QED
      BY <3>1, <3>2
  <2>3. QED
    BY <1>10, <2>1, <2>2 DEF TypeOK, ReadBucket, history, Locations, totalSum, Events
<1>11. ASSUME NEW g \in Goroutines, ReturnSum(g) PROVE TypeOK'
  <2>1. LocalsTyped'
    BY <1>11, ReturnTypes DEF ReturnSum
  <2>2. floor' \in [Goroutines -> 0 .. MaxIndex] /\ owed' \in [Goroutines -> SUBSET Events]
    <3>1. /\ floor \in [Goroutines -> 0 .. MaxIndex] /\ owed \in [Goroutines -> SUBSET Events]
          /\ floor' = [floor EXCEPT ![g] = 0] /\ owed' = [owed EXCEPT ![g] = {}]
      BY <1>11 DEF TypeOK, ReturnSum
    <3>2. 0 \in 0 .. MaxIndex /\ {} \in SUBSET Events
      BY BoundsAssumption
    <3>3. QED
      BY <3>1, <3>2
  <2>3. QED
    BY <1>11, <2>1, <2>2 DEF TypeOK, ReturnSum, LocalsTyped, Locations, totalSum, Events
<1>12. ASSUME NEW g \in Goroutines, WipeBucket(g) PROVE TypeOK'
  <2>1. LocalsTyped'
    <3>1. CASE Return(g)
      BY <1>12, <3>1, ReturnTypes DEF WipeBucket
    <3>2. CASE ~Return(g)
      BY <1>12, <3>2, NextBucket DEF TypeOK, WipeBucket, LocalsTyped, Locations, totalSum, Events
    <3>3. QED
      BY <3>1, <3>2
  <2>2. /\ buckets' \in [Slots -> SUBSET Events] /\ landed' \subseteq Events
        /\ owed' \in [Goroutines -> SUBSET Events]
    BY <1>12 DEF TypeOK, WipeBucket
  <2>3. QED
    BY <1>12, <2>1, <2>2 DEF TypeOK, WipeBucket, LocalsTyped, Locations, totalSum, Events
<1>13. CASE UNCHANGED vars
  BY <1>13 DEF TypeOK, vars, locals, history, totalSum, Events
<1>14. QED
  BY <1>2, <1>3, <1>4, <1>5, <1>6, <1>7, <1>8, <1>9, <1>10, <1>11, <1>12, <1>13 DEF Next

-----------------------------------------------------------------------------
(* What a step of one goroutine leaves alone.                              *)

Untouched(h) ==
  /\ pc'[h] = pc[h] /\ op'[h] = op[h] /\ absIndex'[h] = absIndex[h] /\ event'[h] = event[h]
  /\ cursor'[h] = cursor[h] /\ lastCleared'[h] = lastCleared[h]
  /\ seen'[h] = seen[h] /\ floor'[h] = floor[h]
  /\ advanceMu' = h <=> advanceMu = h

(* The indices of the events are never changed.                            *)
EventsKept == \A e \in Events : e \in Events' /\ eventIndex'[e] = eventIndex[e]

(* All that goroutine g may do next.                                       *)
StepOf(g) ==
  \/ \E index \in Indices : Inc(g, index) \/ RollingSumAt(g, index) \/ Reset(g, index)
  \/ FastPath(g) \/ AlreadyRolled(g) \/ StartRolling(g) \/ ClearBucket(g) \/ Publish(g)
  \/ Add(g) \/ ReadBucket(g) \/ ReturnSum(g) \/ WipeBucket(g)

(* A goroutine's step does nothing to the locals of another.               *)
LEMMA OthersUntouched ==
  ASSUME TypeOK, CallsInOrder, NEW g \in Goroutines, StepOf(g), NEW h \in Goroutines \ {g}
  PROVE  Untouched(h)
<1> USE HolderAssumption DEF TypeOK, Untouched, Goto, history, locals
<1>1. CASE \E index \in Indices : Inc(g, index) \/ RollingSumAt(g, index) \/ Reset(g, index)
  BY <1>1 DEF Inc, RollingSumAt, Reset
<1>2. CASE FastPath(g) \/ AlreadyRolled(g)
  BY <1>2 DEF FastPath, AlreadyRolled, Advanced, Return
<1>3. CASE StartRolling(g) \/ ClearBucket(g)
  BY <1>3 DEF StartRolling, ClearBucket
<1>4. CASE Publish(g)
  <2>1. advanceMu = g
    BY <1>4 DEF Publish, CallsInOrder, CallInOrder
  <2>2. QED
    BY <1>4, <2>1 DEF Publish, Advanced, Return
<1>5. CASE Add(g) \/ ReadBucket(g) \/ ReturnSum(g)
  BY <1>5 DEF Add, ReadBucket, ReturnSum, Return
<1>6. CASE WipeBucket(g)
  BY <1>6 DEF WipeBucket, Return
<1>7. QED
  BY <1>1, <1>2, <1>3, <1>4, <1>5, <1>6 DEF StepOf

(* No step changes the index of an event or moves LastAbsIndex back, and   *)
(* only its holder moves it.                                               *)
LEMMA IndexMonotone ==
  ASSUME TypeOK, CallsInOrder, NEW g \in Goroutines, StepOf(g)
  PROVE  /\ EventsKept
         /\ lastAbsIndex <= lastAbsIndex'
         /\ lastAbsIndex' # lastAbsIndex => Publish(g)
<1>1. eventIndex' = eventIndex => EventsKept
  BY DEF EventsKept, Events, totalSum
<1>2. CASE \E index \in Indices : Inc(g, index)
  <2>1. PICK index \in Indices : Inc(g, index)
    BY <1>2
  <2>2. /\ Len(eventIndex') = Len(eventIndex) + 1
        /\ \A e \in 1 .. Len(eventIndex) : eventIndex'[e] = eventIndex[e]
        /\ Len(eventIndex) \in Nat
    BY <2>1, AppendProperties, LenProperties DEF TypeOK, Inc
  <2>3. EventsKept
    BY <2>2 DEF EventsKept, Events, totalSum
  <2>4. QED
    BY <2>1, <2>3, Numbers DEF Inc
<1>3. CASE \E index \in Indices : RollingSumAt(g, index) \/ Reset(g, index)
  BY <1>1, <1>3, Numbers DEF RollingSumAt, Reset
<1>4. CASE \/ FastPath(g) \/ AlreadyRolled(g) \/ StartRolling(g) \/ ClearBucket(g)
           \/ Add(g) \/ ReadBucket(g) \/ ReturnSum(g) \/ WipeBucket(g)
  <2>1. eventIndex' = eventIndex /\ lastAbsIndex' = lastAbsIndex
    BY <1>4
    DEF FastPath, AlreadyRolled, StartRolling, ClearBucket, Add, ReadBucket, ReturnSum, WipeBucket
  <2>2. QED
    BY <1>1, <2>1, Numbers
<1>5. CASE Publish(g)
  <2>1. eventIndex' = eventIndex /\ lastAbsIndex' = absIndex[g] /\ lastAbsIndex < absIndex[g]
    BY <1>5 DEF Publish, CallsInOrder, CallInOrder
  <2>2. QED
    BY <1>1, <1>5, <2>1, Numbers
<1>6. QED
  BY <1>2, <1>3, <1>4, <1>5 DEF StepOf

(* A call that is left alone stays in order.                               *)
LEMMA OthersInOrder ==
  ASSUME TypeOK, CallsInOrder, NEW g \in Goroutines, StepOf(g), NEW h \in Goroutines \ {g}
  PROVE  CallInOrder(h)'
<1>1. Untouched(h) /\ CallInOrder(h)
  BY OthersUntouched DEF CallsInOrder
<1>2. EventsKept /\ lastAbsIndex <= lastAbsIndex'
  BY IndexMonotone
<1>3. pc[h] = "clear" => lastAbsIndex' = lastAbsIndex
  BY IndexMonotone DEF Publish, CallsInOrder, CallInOrder
<1>4. lastAbsIndex \in Int /\ lastAbsIndex' \in Int
  <2>1. CASE Publish(g)
    BY <2>1, Numbers DEF Publish
  <2>2. CASE ~Publish(g)
    BY <2>2, Numbers, IndexMonotone
  <2>3. QED
    BY <2>1, <2>2
<1>5. /\ floor[h] \in Int
      /\ floor[h] <= lastAbsIndex => floor[h] <= lastAbsIndex'
      /\ absIndex[h] \in 0 .. lastAbsIndex => absIndex[h] \in 0 .. lastAbsIndex'
  BY <1>2, <1>4, Numbers
<1>6. /\ pc'[h] = "clear" =>
           /\ lastAbsIndex' < absIndex'[h] /\ lastAbsIndex' < cursor'[h]
           /\ lastCleared'[h] = LastToClear(h)'
  BY <1>1, <1>3 DEF CallInOrder, Untouched, LastToClear
<1>7. QED
  BY <1>1, <1>2, <1>5, <1>6 DEF CallInOrder, Untouched, EventsKept

(* After Return a call holds nothing.                                      *)
LEMMA ReturnInOrder ==
  ASSUME TypeOK, NEW g \in Goroutines, Return(g), advanceMu' # g
  PROVE  CallInOrder(g)'
BY DEF TypeOK, Return, Goto, CallInOrder

(* The answer of Advance leaves the call in order, its window published.   *)
LEMMA AdvancedInOrder ==
  ASSUME TypeOK, CallsInOrder, NEW g \in Goroutines, NEW inWindow, Advanced(g, inWindow),
         pc[g] \in {"advance", "lock", "clear"}, advanceMu' # g, eventIndex' = eventIndex,
         lastAbsIndex' \in Nat, inWindow => absIndex[g] \in 0 .. lastAbsIndex'
  PROVE  CallInOrder(g)'
<1>1. CASE Return(g)
  BY <1>1, ReturnInOrder
<1>2. CASE ~Return(g)
  <2>1. /\ op[g] = "Inc" => inWindow
        /\ pc' = [pc EXCEPT ![g] = CASE op[g] = "Inc"          -> "add"
                                     [] op[g] = "RollingSumAt" -> "read"
                                     [] op[g] = "Reset"        -> "wipe"]
        /\ floor' = [floor EXCEPT ![g] = IF op[g] = "RollingSumAt" THEN lastAbsIndex' ELSE 0]
        /\ op' = op /\ absIndex' = absIndex /\ event' = event /\ seen' = seen
    BY <1>2 DEF Advanced, Goto
  <2>2. /\ pc'[g] = "add" => op[g] = "Inc"
        /\ pc'[g] = "read" => op[g] = "RollingSumAt" /\ floor'[g] = lastAbsIndex'
        /\ pc'[g] \in {"add", "read", "wipe"}
    BY <2>1 DEF TypeOK
  <2>3. /\ seen[g] = {}
        /\ op[g] = "Inc" => event[g] \in Events /\ eventIndex[event[g]] = absIndex[g]
    BY DEF CallsInOrder, CallInOrder
  <2>4. /\ pc'[g] = "add" => absIndex'[g] \in 0 .. lastAbsIndex'
        /\ pc'[g] = "read" => floor'[g] <= lastAbsIndex'
    <3>1. pc'[g] = "add" => absIndex[g] \in 0 .. lastAbsIndex'
      BY <2>1, <2>2
    <3>2. pc'[g] = "read" => floor'[g] <= lastAbsIndex'
      BY <2>2
    <3>3. QED
      BY <2>1, <3>1, <3>2
  <2>5. op'[g] = "Inc" => event'[g] \in Events' /\ eventIndex'[event'[g]] = absIndex'[g]
    BY <2>1, <2>3 DEF Events, totalSum
  <2>6. seen'[g] = {} /\ op'[g] = op[g]
    BY <2>1, <2>3
  <2>7. QED
    BY <2>2, <2>4, <2>5, <2>6 DEF CallInOrder
<1>3. QED
  BY <1>1, <1>2

(* Every step keeps the calls in order.                                    *)
LEMMA CallsStep ==
  ASSUME TypeOK, CallsInOrder, [Next]_vars
  PROVE  CallsInOrder'
<1> USE Numbers
<1>1. SUFFICES ASSUME NEW g \in Goroutines, StepOf(g) PROVE CallInOrder(g)'
  <2>1. CASE UNCHANGED vars
    BY <2>1 DEF vars, locals, history, CallsInOrder, CallInOrder, Events, totalSum, LastToClear
  <2>2. CASE Next
    <3>1. PICK g \in Goroutines : StepOf(g)
      BY <2>2 DEF Next, StepOf
    <3>2. \A h \in Goroutines \ {g} : CallInOrder(h)'
      BY <3>1, OthersInOrder
    <3>3. QED
      BY <1>1, <3>1, <3>2 DEF CallsInOrder
  <2>3. QED
    BY <2>1, <2>2
<1>2. CallInOrder(g)
  BY DEF CallsInOrder
<1>3. ASSUME NEW index \in Indices, Inc(g, index) PROVE CallInOrder(g)'
  <2>1. /\ Len(eventIndex') = Len(eventIndex) + 1 /\ Len(eventIndex) \in Nat
        /\ eventIndex'[Len(eventIndex) + 1] = index
    BY <1>3, AppendProperties, LenProperties DEF TypeOK, Inc
  <2>2. event'[g] \in Events' /\ eventIndex'[event'[g]] = absIndex'[g]
    BY <1>3, <2>1 DEF TypeOK, Inc, Events, totalSum
  <2>3. pc'[g] = "advance" /\ seen'[g] = {} /\ advanceMu' # g
    BY <1>2, <1>3 DEF TypeOK, Inc, CallInOrder, Goto
  <2>4. QED
    BY <2>2, <2>3 DEF CallInOrder
<1>4. ASSUME NEW index \in Indices, RollingSumAt(g, index) \/ Reset(g, index)
      PROVE  CallInOrder(g)'
  <2>1. pc'[g] = "advance" /\ op'[g] # "Inc" /\ seen'[g] = {} /\ advanceMu' # g
    BY <1>2, <1>4 DEF TypeOK, RollingSumAt, Reset, CallInOrder, Goto
  <2>2. QED
    BY <2>1 DEF CallInOrder
<1>5. ASSUME FastPath(g) PROVE CallInOrder(g)'
  <2>1. /\ pc[g] = "advance" /\ advanceMu' # g /\ eventIndex' = eventIndex
        /\ lastAbsIndex' = lastAbsIndex
    BY <1>2, <1>5 DEF FastPath, CallInOrder
  <2>2. CASE absIndex[g] = BeforeStart
    BY <1>5, <2>1, <2>2, AdvancedInOrder DEF FastPath
  <2>3. CASE absIndex[g] # BeforeStart /\ absIndex[g] <= lastAbsIndex
    <3>1. absIndex[g] \in 0 .. lastAbsIndex'
      BY <2>1, <2>3 DEF BeforeStart
    <3>2. Advanced(g, InWindow(absIndex[g], lastAbsIndex))
      BY <1>5, <2>3 DEF FastPath
    <3>3. QED
      BY <2>1, <3>1, <3>2, AdvancedInOrder
  <2>4. CASE absIndex[g] # BeforeStart /\ ~(absIndex[g] <= lastAbsIndex)
    <3>1. /\ pc'[g] = "lock" /\ op' = op /\ absIndex' = absIndex /\ event' = event
          /\ seen' = seen
      BY <1>5, <2>4 DEF TypeOK, FastPath, Goto, locals
    <3>2. QED
      BY <1>2, <2>1, <2>4, <3>1 DEF CallInOrder, Events, totalSum
  <2>5. QED
    BY <2>2, <2>3, <2>4
<1>6. ASSUME AlreadyRolled(g) PROVE CallInOrder(g)'
  <2>1. /\ pc[g] = "lock" /\ advanceMu' # g /\ eventIndex' = eventIndex
        /\ lastAbsIndex' = lastAbsIndex /\ absIndex[g] # BeforeStart
        /\ absIndex[g] <= lastAbsIndex
    BY <1>2, <1>6, HolderAssumption DEF AlreadyRolled, CallInOrder, NothingToRoll
  <2>2. absIndex[g] \in 0 .. lastAbsIndex'
    BY <2>1 DEF BeforeStart
  <2>3. QED
    BY <1>6, <2>1, <2>2, AdvancedInOrder DEF AlreadyRolled
<1>7. ASSUME StartRolling(g) PROVE CallInOrder(g)'
  <2>1. /\ pc[g] = "lock" /\ pc'[g] = "clear" /\ advanceMu' = g /\ eventIndex' = eventIndex
        /\ lastAbsIndex' = lastAbsIndex /\ op' = op /\ absIndex' = absIndex
        /\ event' = event /\ seen' = seen
        /\ cursor'[g] = lastAbsIndex + 1 /\ lastCleared'[g] = LastToClear(g)
    BY <1>7 DEF TypeOK, StartRolling, Goto, FirstToClear
  <2>2. lastAbsIndex < absIndex[g]
    BY <1>7 DEF StartRolling, NothingToRoll
  <2>3. LastToClear(g)' = LastToClear(g)
    BY <2>1 DEF LastToClear
  <2>4. QED
    BY <1>2, <2>1, <2>2, <2>3 DEF CallInOrder, Events, totalSum
<1>8. ASSUME ClearBucket(g) PROVE CallInOrder(g)'
  <2>1. /\ pc[g] = "clear" /\ pc' = pc /\ advanceMu' = advanceMu /\ eventIndex' = eventIndex
        /\ lastAbsIndex' = lastAbsIndex /\ op' = op /\ absIndex' = absIndex
        /\ event' = event /\ seen' = seen
        /\ cursor'[g] = cursor[g] + 1 /\ lastCleared' = lastCleared
    BY <1>8 DEF TypeOK, ClearBucket
  <2>2. LastToClear(g)' = LastToClear(g)
    BY <2>1 DEF LastToClear
  <2>3. QED
    BY <1>2, <2>1, <2>2 DEF CallInOrder, Events, totalSum
<1>9. ASSUME Publish(g) PROVE CallInOrder(g)'
  <2>1. /\ pc[g] = "clear" /\ advanceMu' # g /\ eventIndex' = eventIndex
        /\ lastAbsIndex' = absIndex[g] /\ lastAbsIndex < absIndex[g]
    BY <1>2, <1>9, HolderAssumption DEF Publish, CallInOrder
  <2>2. lastAbsIndex' \in Nat /\ absIndex[g] \in 0 .. lastAbsIndex'
    BY <2>1
  <2>3. QED
    BY <1>9, <2>1, <2>2, AdvancedInOrder DEF Publish
<1>10. ASSUME Add(g) \/ ReturnSum(g) PROVE CallInOrder(g)'
  BY <1>2, <1>10, ReturnInOrder DEF Add, ReturnSum, CallInOrder
<1>11. ASSUME ReadBucket(g) PROVE CallInOrder(g)'
  <2>1. /\ pc[g] = "read" /\ pc'[g] \in {"read", "summed"} /\ advanceMu' = advanceMu
        /\ op' = op /\ floor' = floor /\ lastAbsIndex' = lastAbsIndex
    BY <1>11 DEF TypeOK, ReadBucket, Goto, history
  <2>2. QED
    BY <1>2, <2>1 DEF CallInOrder
<1>12. ASSUME WipeBucket(g) PROVE CallInOrder(g)'
  <2>1. CASE Return(g)
    BY <1>2, <1>12, <2>1, ReturnInOrder DEF WipeBucket, CallInOrder
  <2>2. CASE ~Return(g)
    <3>1. /\ pc[g] = "wipe" /\ pc' = pc /\ op' = op /\ absIndex' = absIndex
          /\ event' = event /\ seen' = seen /\ advanceMu' = advanceMu /\ eventIndex' = eventIndex
      BY <1>12, <2>2 DEF WipeBucket
    <3>2. QED
      BY <1>2, <3>1 DEF CallInOrder, Events, totalSum
  <2>3. QED
    BY <2>1, <2>2
<1>13. QED
  BY <1>1, <1>3, <1>4, <1>5, <1>6, <1>7, <1>8, <1>9, <1>10, <1>11, <1>12 DEF StepOf

(* The calls start in order.                                               *)
LEMMA InitInOrder == Init => TypeOK /\ CallsInOrder
<1> SUFFICES ASSUME Init PROVE TypeOK /\ CallsInOrder
  OBVIOUS
<1>1. Events = {} /\ totalSum = 0
  BY EmptySeq DEF Init, Events, totalSum
<1>2. lagged \in BOOLEAN
  BY Zenon DEF Init
<1>3. TypeOK
  BY <1>1, <1>2, Bounds, EmptySeq DEF Init, TypeOK
<1>4. CallsInOrder
  BY HolderAssumption DEF Init, CallsInOrder, CallInOrder
<1>5. QED
  BY <1>3, <1>4

(* Every variable keeps its type, and the calls stay in order.             *)
LEMMA TypesAndOrder == Spec => [](TypeOK /\ CallsInOrder)
<1>1. TypeOK /\ CallsInOrder /\ [Next]_vars => (TypeOK /\ CallsInOrder)'
  BY TypeStep, CallsStep
<1>2. QED
  BY <1>1, InitInOrder, PTL DEF Spec

(* LastAbsIndex never moves back, however the callers' clocks disagree and *)
(* whoever else rolls meanwhile.                                           *)
THEOREM RollsForward == Spec => NeverRollsBack
<1>1. TypeOK /\ CallsInOrder /\ [Next]_vars => [lastAbsIndex' >= lastAbsIndex]_vars
  <2> SUFFICES ASSUME TypeOK, CallsInOrder, Next PROVE lastAbsIndex' >= lastAbsIndex
    OBVIOUS
  <2>1. PICK g \in Goroutines : StepOf(g)
    BY DEF Next, StepOf
  <2>2. lastAbsIndex <= lastAbsIndex'
    BY <2>1, IndexMonotone
  <2>3. QED
    BY <2>2
<1>2. QED
  BY <1>1, TypesAndOrder, PTL DEF Spec, NeverRollsBack

-----------------------------------------------------------------------------
(* The contents of the buckets.                                            *)

(* NoExpiredEventKept as it is inductive.  An event is in the slot of its  *)
(* index and within the published window; and once a roll has cleared the  *)
(* slot one turn after an event that is still there, the event is within   *)
(* the window the roll is heading for.                                     *)
WindowKept ==
  ~lagged =>
    \A s \in Slots : \A e \in buckets[s] :
      /\ s = Slot(eventIndex[e])
      /\ eventIndex[e] \in 0 .. lastAbsIndex
      /\ InWindow(eventIndex[e], lastAbsIndex)
      /\ \A g \in Goroutines :
           pc[g] = "clear" /\ eventIndex[e] + NumBuckets < cursor[g]
             => InWindow(eventIndex[e], absIndex[g])

(* NoEventLost as it is inductive: an event that landed is of a bucket     *)
(* that was published, and so never of one that a roll still has to clear  *)
(* on its way to a window the event is in.                                 *)
LandedKept ==
  ~lagged =>
    \A e \in landed :
      /\ eventIndex[e] \in 0 .. lastAbsIndex
      /\ InWindow(eventIndex[e], Newest) => e \in buckets[Slot(eventIndex[e])]

(* SumBracketed as it is inductive: it holds of the buckets read so far.   *)
SumKept ==
  \A g \in Goroutines :
    /\ owed[g] \subseteq landed
    /\ ~lagged /\ pc[g] \in {"read", "summed"} =>
         /\ \A e \in seen[g] : InWindow(eventIndex[e], floor[g])
         /\ \A e \in owed[g] :
              /\ InWindow(eventIndex[e], Newest)
              /\ pc[g] = "read" => Slot(eventIndex[e]) < cursor[g]
              => e \in seen[g]

(* An event once added a full window late is not forgotten.                *)
LEMMA LaggedStays ==
  ASSUME TypeOK, NEW g \in Goroutines, StepOf(g), ~lagged'
  PROVE  ~lagged
BY DEF StepOf, Inc, RollingSumAt, Reset, FastPath, AlreadyRolled, StartRolling, ClearBucket,
       Publish, Add, ReadBucket, ReturnSum, WipeBucket, history

(* A step that adds nothing to a bucket and neither rolls nor clears keeps *)
(* the window.                                                             *)
LEMMA WindowFrame ==
  ASSUME TypeOK, WindowKept, ~lagged, EventsKept, lastAbsIndex' = lastAbsIndex,
         \A s \in Slots : buckets'[s] \subseteq buckets[s],
         \A h \in Goroutines : pc'[h] = "clear" =>
           pc[h] = "clear" /\ cursor'[h] = cursor[h] /\ absIndex'[h] = absIndex[h]
  PROVE  WindowKept'
<1>1. \A s \in Slots : \A e \in buckets'[s] : e \in buckets[s] /\ eventIndex'[e] = eventIndex[e]
  BY DEF TypeOK, EventsKept
<1>2. QED
  BY <1>1 DEF WindowKept, InWindow

(* Every step keeps the window.                                            *)
LEMMA WindowStep ==
  ASSUME TypeOK, CallsInOrder, WindowKept, NEW g \in Goroutines, StepOf(g)
  PROVE  WindowKept'
<1>1. SUFFICES ASSUME ~lagged', ~lagged PROVE WindowKept'
  BY LaggedStays DEF WindowKept
<1>2. /\ EventsKept /\ CallInOrder(g)
      /\ \A h \in Goroutines \ {g} : Untouched(h)
  BY IndexMonotone, OthersUntouched DEF CallsInOrder
<1>3. \A s \in Slots : \A e \in buckets[s] :
        /\ s = Slot(eventIndex[e]) /\ eventIndex[e] \in Int
        /\ eventIndex[e] \in 0 .. lastAbsIndex /\ lastAbsIndex - eventIndex[e] < NumBuckets
  BY <1>1, Numbers DEF TypeOK, WindowKept, InWindow
<1>4. CASE \/ \E index \in Indices : Inc(g, index) \/ RollingSumAt(g, index) \/ Reset(g, index)
           \/ FastPath(g) \/ AlreadyRolled(g) \/ ReadBucket(g) \/ ReturnSum(g) \/ WipeBucket(g)
  <2>1. pc[g] # "clear" /\ pc'[g] # "clear" /\ lastAbsIndex' = lastAbsIndex
    BY <1>4 DEF TypeOK, Inc, RollingSumAt, Reset, FastPath, AlreadyRolled, ReadBucket,
                ReturnSum, WipeBucket, Advanced, Return, Goto
  <2>2. \A s \in Slots : buckets'[s] \subseteq buckets[s]
    BY <1>4 DEF TypeOK, Inc, RollingSumAt, Reset, FastPath, AlreadyRolled, ReadBucket,
                ReturnSum, WipeBucket
  <2>3. QED
    BY <1>1, <1>2, <2>1, <2>2, WindowFrame DEF Untouched
<1>5. CASE StartRolling(g)
  <2>1. /\ cursor'[g] = lastAbsIndex + 1 /\ lastAbsIndex' = lastAbsIndex /\ buckets' = buckets
        /\ eventIndex' = eventIndex
    BY <1>5 DEF TypeOK, StartRolling, FirstToClear
  <2>2. \A s \in Slots : \A e \in buckets[s] : ~(eventIndex[e] + NumBuckets < cursor'[g])
    BY <1>3, <2>1, Numbers
  <2>3. QED
    BY <1>1, <1>2, <2>1, <2>2 DEF WindowKept, InWindow, Untouched
<1>6. CASE ClearBucket(g)
  <2>1. /\ cursor'[g] = cursor[g] + 1 /\ lastAbsIndex' = lastAbsIndex
        /\ eventIndex' = eventIndex /\ absIndex' = absIndex /\ pc' = pc /\ pc[g] = "clear"
        /\ \A s \in Slots : buckets'[s] = IF s = Slot(cursor[g]) THEN {} ELSE buckets[s]
    BY <1>6 DEF TypeOK, ClearBucket
  <2>2. \A s \in Slots : \A e \in buckets'[s] :
          eventIndex[e] + NumBuckets < cursor'[g] => eventIndex[e] + NumBuckets < cursor[g]
    <3>1. SUFFICES ASSUME NEW s \in Slots, NEW e \in buckets'[s],
                          eventIndex[e] + NumBuckets < cursor'[g]
                   PROVE  eventIndex[e] + NumBuckets < cursor[g]
      OBVIOUS
    <3>2. s # Slot(cursor[g]) /\ e \in buckets[s]
      BY <2>1
    <3>3. eventIndex[e] + NumBuckets # cursor[g]
      BY <1>3, <3>2, SlotPeriodic
    <3>4. eventIndex[e] \in Int /\ NumBuckets \in Int /\ cursor[g] \in Int
      BY <1>3, <3>2, Numbers
    <3>5. eventIndex[e] + NumBuckets < cursor[g] + 1
      BY <2>1, <3>1
    <3>6. QED
      BY <3>3, <3>4, <3>5, IntegerGap
  <2>3. QED
    BY <1>1, <1>2, <2>1, <2>2 DEF WindowKept, InWindow, Untouched
<1>7. CASE Publish(g)
  <2>1. /\ lastAbsIndex' = absIndex[g] /\ lastAbsIndex < absIndex[g]
        /\ cursor[g] > lastCleared[g] /\ lastCleared[g] = LastToClear(g)
        /\ buckets' = buckets /\ eventIndex' = eventIndex /\ pc[g] = "clear"
    BY <1>2, <1>7 DEF Publish, CallInOrder
  <2>2. \A h \in Goroutines : pc'[h] # "clear"
    <3>1. pc'[g] # "clear"
      BY <1>7 DEF TypeOK, Publish, Advanced, Return, Goto
    <3>2. \A h \in Goroutines \ {g} : pc[h] # "clear"
      BY <2>1 DEF CallsInOrder, CallInOrder
    <3>3. QED
      BY <1>2, <3>1, <3>2 DEF Untouched
  <2>3. \A s \in Slots : \A e \in buckets[s] : absIndex[g] - eventIndex[e] < NumBuckets
    <3>1. SUFFICES ASSUME NEW s \in Slots, NEW e \in buckets[s],
                          ~(absIndex[g] - eventIndex[e] < NumBuckets)
                   PROVE  FALSE
      OBVIOUS
    <3>2. eventIndex[e] + NumBuckets <= LastToClear(g)
      BY <1>3, <2>1, <3>1, Numbers DEF LastToClear
    <3>3. eventIndex[e] + NumBuckets < cursor[g]
      BY <1>3, <2>1, <3>2, Numbers
    <3>4. QED
      BY <1>1, <2>1, <3>1, <3>3 DEF WindowKept, InWindow
  <2>4. \A s \in Slots : \A e \in buckets[s] : eventIndex[e] \in 0 .. absIndex[g]
    BY <1>3, <2>1, Numbers
  <2>5. QED
    BY <1>3, <2>1, <2>2, <2>3, <2>4 DEF WindowKept, InWindow
<1>8. CASE Add(g)
  <2>1. /\ eventIndex[event[g]] = absIndex[g] /\ absIndex[g] \in 0 .. lastAbsIndex
        /\ event[g] \in Events /\ pc[g] = "add" /\ pc'[g] = "idle"
        /\ eventIndex' = eventIndex /\ lastAbsIndex' = lastAbsIndex
        /\ \A s \in Slots : buckets'[s] =
             IF s = Slot(absIndex[g]) THEN buckets[s] \cup {event[g]} ELSE buckets[s]
    BY <1>2, <1>8 DEF TypeOK, Add, Return, Goto, CallInOrder
  <2>2. InWindow(absIndex[g], Newest)
    BY <1>1, <1>8 DEF Add
  <2>3. \A h \in Goroutines : pc[h] = "clear" => InWindow(absIndex[g], absIndex[h])
    BY <2>2, HolderAssumption DEF Newest, CallsInOrder, CallInOrder
  <2>4. InWindow(absIndex[g], lastAbsIndex)
    <3>1. CASE advanceMu = NoHolder
      BY <2>2, <3>1 DEF Newest
    <3>2. CASE advanceMu # NoHolder
      <4>1. advanceMu \in Goroutines /\ lastAbsIndex < absIndex[advanceMu]
        BY <3>2 DEF TypeOK, CallsInOrder, CallInOrder
      <4>2. QED
        BY <2>2, <3>2, <4>1, Numbers DEF Newest, InWindow
    <3>3. QED
      BY <3>1, <3>2
  <2>5. SUFFICES ASSUME NEW s \in Slots, NEW e \in buckets'[s]
                 PROVE  /\ s = Slot(eventIndex[e]) /\ eventIndex[e] \in 0 .. lastAbsIndex
                        /\ InWindow(eventIndex[e], lastAbsIndex)
                        /\ \A h \in Goroutines :
                             pc'[h] = "clear" /\ eventIndex[e] + NumBuckets < cursor'[h]
                               => InWindow(eventIndex[e], absIndex'[h])
    BY <2>1 DEF WindowKept, InWindow
  <2>6. CASE e \in buckets[s]
    BY <1>1, <1>2, <2>1, <2>6 DEF WindowKept, Untouched
  <2>7. CASE e \notin buckets[s]
    <3>1. s = Slot(absIndex[g]) /\ e = event[g]
      BY <2>1, <2>5, <2>7
    <3>2. QED
      BY <1>2, <2>1, <2>3, <2>4, <3>1 DEF Untouched
  <2>8. QED
    BY <2>6, <2>7
<1>9. QED
  BY <1>4, <1>5, <1>6, <1>7, <1>8 DEF StepOf

(* The newest index never moves back, and an index within its window was   *)
(* within it before.                                                       *)
LEMMA NewestMonotone ==
  ASSUME TypeOK, CallsInOrder, NEW g \in Goroutines, StepOf(g)
  PROVE  /\ Newest \in Int /\ Newest' \in Int /\ lastAbsIndex <= Newest /\ Newest <= Newest'
         /\ ~StartRolling(g) => Newest' = Newest
<1>1. /\ advanceMu = NoHolder => Newest = lastAbsIndex
      /\ \A h \in Goroutines : advanceMu = h => Newest = absIndex[h] /\ lastAbsIndex < absIndex[h]
      /\ advanceMu \in Goroutines \cup {NoHolder}
  BY HolderAssumption DEF TypeOK, Newest, CallsInOrder, CallInOrder
<1>2. Newest \in Int /\ lastAbsIndex <= Newest
  BY <1>1, Numbers
<1>3. \A h \in Goroutines \ {g} : Untouched(h)
  BY OthersUntouched
<1>4. CASE StartRolling(g)
  <2>1. Newest = lastAbsIndex /\ Newest' = absIndex[g] /\ lastAbsIndex < absIndex[g]
    BY <1>4, HolderAssumption, Numbers DEF StartRolling, NothingToRoll, Newest
  <2>2. QED
    BY <1>2, <1>4, <2>1, Numbers
<1>5. CASE Publish(g)
  <2>1. Newest = absIndex[g] /\ Newest' = absIndex[g]
    BY <1>1, <1>5 DEF Publish, Newest, CallsInOrder, CallInOrder
  <2>2. QED
    BY <1>2, <2>1
<1>6. CASE ~StartRolling(g) /\ ~Publish(g)
  <2>1. advanceMu' = advanceMu /\ lastAbsIndex' = lastAbsIndex
    BY <1>6 DEF StepOf, Inc, RollingSumAt, Reset, FastPath, AlreadyRolled, ClearBucket, Add,
                ReadBucket, ReturnSum, WipeBucket
  <2>2. advanceMu = g => absIndex'[g] = absIndex[g]
    <3>1. SUFFICES ASSUME advanceMu = g PROVE absIndex'[g] = absIndex[g]
      OBVIOUS
    <3>2. pc[g] = "clear"
      BY <3>1 DEF CallsInOrder, CallInOrder
    <3>3. ClearBucket(g)
      BY <1>6, <3>2 DEF StepOf, Inc, RollingSumAt, Reset, FastPath, AlreadyRolled, Add,
                        ReadBucket, ReturnSum, WipeBucket
    <3>4. QED
      BY <3>3 DEF ClearBucket
  <2>3. Newest' = Newest
    BY <1>1, <1>3, <2>1, <2>2 DEF Newest, Untouched
  <2>4. QED
    BY <1>2, <1>6, <2>3
<1>7. QED
  BY <1>4, <1>5, <1>6

(* Every step keeps what has landed and is still within the window.        *)
LEMMA LandedStep ==
  ASSUME TypeOK, CallsInOrder, LandedKept, NEW g \in Goroutines, StepOf(g)
  PROVE  LandedKept'
<1>1. SUFFICES ASSUME ~lagged', ~lagged PROVE LandedKept'
  BY LaggedStays DEF LandedKept
<1>2. /\ EventsKept /\ CallInOrder(g) /\ lastAbsIndex' \in Int
      /\ lastAbsIndex \in Int /\ lastAbsIndex <= lastAbsIndex'
  <2>1. lastAbsIndex' # lastAbsIndex => lastAbsIndex' = absIndex[g]
    BY IndexMonotone DEF Publish
  <2>2. QED
    BY <2>1, IndexMonotone, Numbers DEF CallsInOrder
<1>3. \A e \in landed :
        /\ e \in Events /\ eventIndex'[e] = eventIndex[e] /\ eventIndex[e] \in Int
        /\ eventIndex'[e] \in 0 .. lastAbsIndex'
        /\ InWindow(eventIndex'[e], Newest') => e \in buckets[Slot(eventIndex[e])]
  <2>1. SUFFICES ASSUME NEW e \in landed
                 PROVE  /\ e \in Events /\ eventIndex'[e] = eventIndex[e] /\ eventIndex[e] \in Int
                        /\ eventIndex'[e] \in 0 .. lastAbsIndex'
                        /\ InWindow(eventIndex'[e], Newest') => e \in buckets[Slot(eventIndex[e])]
    OBVIOUS
  <2>2. e \in Events /\ eventIndex'[e] = eventIndex[e] /\ eventIndex[e] \in Int
    BY <1>2, Numbers DEF TypeOK, EventsKept
  <2>3. eventIndex'[e] \in 0 .. lastAbsIndex'
    BY <1>1, <1>2, <2>2 DEF LandedKept
  <2>4. InWindow(eventIndex'[e], Newest') => InWindow(eventIndex[e], Newest)
    BY <2>2, NewestMonotone, Numbers DEF InWindow
  <2>5. QED
    BY <1>1, <2>2, <2>3, <2>4 DEF LandedKept
<1>4. CASE \/ \E index \in Indices : Inc(g, index) \/ RollingSumAt(g, index) \/ Reset(g, index)
           \/ FastPath(g) \/ AlreadyRolled(g) \/ StartRolling(g) \/ Publish(g)
           \/ ReadBucket(g) \/ ReturnSum(g)
  <2>1. landed' = landed /\ buckets' = buckets
    BY <1>4 DEF Inc, RollingSumAt, Reset, FastPath, AlreadyRolled, StartRolling, Publish,
                ReadBucket, ReturnSum, history
  <2>2. QED
    BY <1>3, <2>1 DEF LandedKept
<1>5. CASE ClearBucket(g)
  <2>1. /\ landed' = landed /\ pc[g] = "clear" /\ advanceMu = g /\ Newest' = Newest
        /\ cursor[g] <= lastCleared[g] /\ lastCleared[g] = LastToClear(g)
        /\ lastAbsIndex < cursor[g]
        /\ \A s \in Slots : buckets'[s] = IF s = Slot(cursor[g]) THEN {} ELSE buckets[s]
    BY <1>2, <1>5, NewestMonotone DEF TypeOK, ClearBucket, StartRolling, CallInOrder, history
  <2>2. Newest = absIndex[g] /\ cursor[g] <= absIndex[g]
    BY <1>2, <2>1, HolderAssumption, Numbers DEF Newest, LastToClear, CallInOrder
  <2>3. SUFFICES ASSUME NEW e \in landed, InWindow(eventIndex'[e], Newest')
                 PROVE  e \in buckets'[Slot(eventIndex[e])]
    BY <1>3, <2>1 DEF LandedKept
  <2>4. eventIndex[e] < cursor[g] /\ cursor[g] - eventIndex[e] < NumBuckets
    BY <1>1, <1>2, <1>3, <2>1, <2>2, <2>3, Numbers DEF InWindow, LandedKept
  <2>5. Slot(eventIndex[e]) # Slot(cursor[g])
    BY <1>3, <2>4, SlotsDiffer, Numbers
  <2>6. QED
    BY <1>3, <2>1, <2>3, <2>5, SlotType
<1>6. CASE Add(g)
  <2>1. /\ landed' = landed \cup {event[g]} /\ eventIndex' = eventIndex
        /\ event[g] \in Events /\ eventIndex[event[g]] = absIndex[g]
        /\ absIndex[g] \in 0 .. lastAbsIndex /\ lastAbsIndex' = lastAbsIndex
        /\ \A s \in Slots : buckets[s] \subseteq buckets'[s]
        /\ Slot(absIndex[g]) \in Slots => event[g] \in buckets'[Slot(absIndex[g])]
    BY <1>2, <1>6 DEF TypeOK, Add, CallInOrder
  <2>2. Slot(absIndex[g]) \in Slots /\ \A e \in landed : Slot(eventIndex[e]) \in Slots
    BY <1>3, SlotType, Numbers
  <2>3. QED
    BY <1>3, <2>1, <2>2 DEF LandedKept
<1>7. CASE WipeBucket(g)
  <2>1. /\ landed' = landed \ {e \in landed : Slot(eventIndex[e]) = cursor[g]}
        /\ \A s \in Slots : buckets'[s] = IF s = cursor[g] THEN {} ELSE buckets[s]
    BY <1>7 DEF TypeOK, WipeBucket
  <2>2. QED
    BY <1>3, <2>1, SlotType DEF LandedKept
<1>8. QED
  BY <1>4, <1>5, <1>6, <1>7 DEF StepOf

(* What a reader is owed has landed, at every step.                        *)
LEMMA OwedStep ==
  ASSUME TypeOK, SumKept, NEW g \in Goroutines, StepOf(g), NEW h \in Goroutines
  PROVE  owed'[h] \subseteq landed'
<1>1. owed[h] \subseteq landed
  BY DEF SumKept
<1>2. CASE \/ \E index \in Indices : Inc(g, index) \/ Reset(g, index)
           \/ FastPath(g) \/ AlreadyRolled(g) \/ StartRolling(g) \/ ClearBucket(g)
           \/ Publish(g) \/ ReadBucket(g)
  BY <1>1, <1>2 DEF Inc, Reset, FastPath, AlreadyRolled, StartRolling, ClearBucket, Publish,
                    ReadBucket, history
<1>3. CASE Add(g) \/ ReturnSum(g) \/ \E index \in Indices : RollingSumAt(g, index)
  BY <1>1, <1>3 DEF TypeOK, Add, ReturnSum, RollingSumAt
<1>4. CASE WipeBucket(g)
  BY <1>1, <1>4 DEF WipeBucket
<1>5. QED
  BY <1>2, <1>3, <1>4 DEF StepOf

(* A reader is owed nothing more while it reads.                           *)
LEMMA OwedShrinks ==
  ASSUME TypeOK, NEW g \in Goroutines, StepOf(g), NEW h \in Goroutines,
         h # g \/ pc[h] # "idle"
  PROVE  owed'[h] \subseteq owed[h]
<1>1. CASE \/ \E index \in Indices : Inc(g, index) \/ Reset(g, index)
           \/ FastPath(g) \/ AlreadyRolled(g) \/ StartRolling(g) \/ ClearBucket(g)
           \/ Publish(g) \/ ReadBucket(g) \/ Add(g)
  BY <1>1 DEF Inc, Reset, FastPath, AlreadyRolled, StartRolling, ClearBucket, Publish, Add,
              ReadBucket, history
<1>2. CASE ReturnSum(g) \/ \E index \in Indices : RollingSumAt(g, index)
  BY <1>2 DEF TypeOK, ReturnSum, RollingSumAt
<1>3. CASE WipeBucket(g)
  BY <1>3 DEF WipeBucket
<1>4. QED
  BY <1>1, <1>2, <1>3 DEF StepOf

(* Every step keeps the sums read so far between their brackets.           *)
LEMMA SumStep ==
  ASSUME TypeOK, CallsInOrder, WindowKept, LandedKept, SumKept,
         NEW g \in Goroutines, StepOf(g)
  PROVE  SumKept'
<1>1. SUFFICES ASSUME NEW h \in Goroutines, ~lagged', ~lagged, pc'[h] \in {"read", "summed"}
               PROVE  /\ \A e \in seen'[h] : InWindow(eventIndex'[e], floor'[h])
                      /\ \A e \in owed'[h] :
                           /\ InWindow(eventIndex'[e], Newest')
                           /\ pc'[h] = "read" => Slot(eventIndex'[e]) < cursor'[h]
                           => e \in seen'[h]
  BY OwedStep, LaggedStays DEF SumKept
<1>2. /\ EventsKept /\ CallInOrder(h)
      /\ \A i \in Goroutines \ {g} : Untouched(i)
  BY IndexMonotone, OthersUntouched DEF CallsInOrder
<1>3. ASSUME NEW e \in Events
      PROVE  /\ eventIndex'[e] = eventIndex[e] /\ eventIndex[e] \in Int
             /\ InWindow(eventIndex'[e], Newest') => InWindow(eventIndex[e], Newest)
  <2>1. eventIndex'[e] = eventIndex[e] /\ eventIndex[e] \in Int
    BY <1>2, Numbers DEF EventsKept
  <2>2. QED
    BY <2>1, NewestMonotone, Numbers DEF InWindow
<1>4. seen[h] \subseteq Events /\ owed[h] \subseteq Events /\ landed \subseteq Events
  BY DEF TypeOK
<1>5. CASE h # g
  <2>1. Untouched(h) /\ owed'[h] \subseteq owed[h]
    BY <1>2, <1>5, OwedShrinks
  <2>2. \A e \in seen'[h] : InWindow(eventIndex'[e], floor'[h])
    BY <1>1, <1>3, <1>4, <2>1 DEF SumKept, Untouched
  <2>3. ASSUME NEW e \in owed'[h], InWindow(eventIndex'[e], Newest'),
               pc'[h] = "read" => Slot(eventIndex'[e]) < cursor'[h]
        PROVE  e \in seen'[h]
    <3>1. e \in owed[h] /\ e \in Events
      BY <1>4, <2>1
    <3>2. InWindow(eventIndex[e], Newest) /\ eventIndex'[e] = eventIndex[e]
      BY <1>3, <2>3, <3>1
    <3>3. QED
      BY <1>1, <2>1, <2>3, <3>1, <3>2 DEF SumKept, Untouched
  <2>4. QED
    BY <2>2, <2>3
<1>6. CASE h = g /\ (FastPath(g) \/ AlreadyRolled(g) \/ Publish(g))
  <2>1. /\ pc[g] \in {"advance", "lock", "clear"}
        /\ cursor'[g] = 0 /\ seen' = seen /\ pc'[g] = "read"
    BY <1>1, <1>6 DEF TypeOK, FastPath, AlreadyRolled, Publish, Advanced, Return, Goto
  <2>2. seen'[g] = {}
    BY <1>2, <1>6, <2>1 DEF CallInOrder
  <2>3. \A e \in Events : ~(Slot(eventIndex'[e]) < 0)
    BY <1>3, SlotType, Numbers DEF Slots
  <2>4. owed'[g] \subseteq Events
    BY <1>4, <1>6, <2>1, OwedShrinks
  <2>5. QED
    BY <1>6, <2>1, <2>2, <2>3, <2>4
<1>7. CASE h = g /\ ReadBucket(g)
  <2>1. /\ pc[g] = "read" /\ cursor[g] \in Slots
        /\ seen'[g] = seen[g] \cup buckets[cursor[g]]
        /\ floor' = floor /\ owed' = owed
        /\ pc'[g] = "read" => cursor'[g] = cursor[g] + 1
        /\ pc'[g] # "read" => ~MoreBuckets(g)
    BY <1>7 DEF TypeOK, ReadBucket, Goto, history
  <2>2. ASSUME NEW e \in seen'[g] PROVE InWindow(eventIndex'[e], floor'[g])
    <3>1. CASE e \in seen[g]
      BY <1>1, <1>3, <1>4, <1>7, <2>1, <3>1 DEF SumKept
    <3>2. CASE e \in buckets[cursor[g]]
      <4>1. e \in Events /\ InWindow(eventIndex[e], lastAbsIndex)
        BY <1>1, <2>1, <3>2 DEF TypeOK, WindowKept
      <4>2. floor[g] <= lastAbsIndex
        BY <1>2, <1>7, <2>1 DEF CallInOrder
      <4>3. QED
        BY <1>3, <2>1, <4>1, <4>2, Numbers DEF InWindow
    <3>3. QED
      BY <2>1, <3>1, <3>2
  <2>3. ASSUME NEW e \in owed[g], InWindow(eventIndex'[e], Newest'),
               pc'[g] = "read" => Slot(eventIndex'[e]) < cursor'[g]
        PROVE  e \in seen'[g]
    <3>1. /\ e \in Events /\ e \in landed /\ eventIndex'[e] = eventIndex[e]
          /\ InWindow(eventIndex[e], Newest) /\ Slot(eventIndex[e]) \in Slots
      BY <1>3, <1>4, <1>7, <2>3, SlotType DEF SumKept
    <3>2. Slot(eventIndex[e]) <= cursor[g]
      BY <2>1, <2>3, <3>1, Numbers DEF MoreBuckets, Slots
    <3>3. CASE Slot(eventIndex[e]) = cursor[g]
      BY <1>1, <2>1, <3>1, <3>3 DEF LandedKept
    <3>4. CASE Slot(eventIndex[e]) < cursor[g]
      BY <1>1, <2>1, <2>3, <3>1, <3>4 DEF SumKept
    <3>5. QED
      BY <2>1, <3>1, <3>2, <3>3, <3>4, Numbers DEF Slots
  <2>4. QED
    BY <1>7, <2>1, <2>2, <2>3
<1>8. CASE h = g /\ ~(FastPath(g) \/ AlreadyRolled(g) \/ Publish(g) \/ ReadBucket(g))
  BY <1>1, <1>8 DEF TypeOK, StepOf, Inc, RollingSumAt, Reset, StartRolling, ClearBucket, Add,
                    ReturnSum, WipeBucket, Return, Goto
<1>9. QED
  BY <1>5, <1>6, <1>7, <1>8

-----------------------------------------------------------------------------
BucketsKept == WindowKept /\ LandedKept /\ SumKept

(* The three invariants hold together at the start and at every step.      *)
LEMMA BucketsSafe == Spec => []BucketsKept
<1>1. Init => BucketsKept
  BY DEF Init, BucketsKept, WindowKept, LandedKept, SumKept
<1>2. TypeOK /\ CallsInOrder /\ BucketsKept /\ [Next]_vars => BucketsKept'
  <2> SUFFICES ASSUME TypeOK, CallsInOrder, BucketsKept, [Next]_vars PROVE BucketsKept'
    OBVIOUS
  <2>1. CASE UNCHANGED vars
    BY <2>1 DEF BucketsKept, WindowKept, LandedKept, SumKept, Newest, InWindow, vars, locals,
                history
  <2>2. CASE Next
    <3>1. PICK g \in Goroutines : StepOf(g)
      BY <2>2 DEF Next, StepOf
    <3>2. QED
      BY <3>1, WindowStep, LandedStep, SumStep DEF BucketsKept
  <2>3. QED
    BY <2>1, <2>2
<1>3. QED
  BY <1>1, <1>2, TypesAndOrder, PTL DEF Spec

(* "Buckets are always cleared before the new index is published": unless  *)
(* a write came a full window late, no event that was added within the     *)
(* window is lost to a roll, for any number of buckets and of callers.     *)
THEOREM CounterKeeps == Spec => []NoEventLost
<1>1. BucketsKept => NoEventLost
  BY DEF BucketsKept, LandedKept, NoEventLost
<1>2. QED
  BY <1>1, BucketsSafe, PTL

(* Unless a write came a full window late, no bucket holds an event of an  *)
(* older turn of the ring, nor one from a bucket not yet reached.          *)
THEOREM CounterForgets == Spec => []NoExpiredEventKept
<1>1. TypeOK /\ BucketsKept => NoExpiredEventKept
  BY Numbers DEF BucketsKept, WindowKept, NoExpiredEventKept
<1>2. QED
  BY <1>1, BucketsSafe, TypesAndOrder, PTL

(* A rolling sum read bucket by bucket, while others add, roll and reset,  *)
(* counts every event that had landed when it was asked for and is still   *)
(* in the window when it answers, and none that had left the window when   *)
(* it began to read.                                                       *)
THEOREM SumSafe == Spec => []SumBracketed
<1>1. BucketsKept => SumBracketed
  BY DEF BucketsKept, SumKept, SumBracketed
<1>2. QED
  BY <1>1, BucketsSafe, PTL
=============================================================================
