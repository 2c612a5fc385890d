--------------------------- MODULE RollingCounter ---------------------------
(***************************************************************************)
(* faststats.RollingCounter over faststats.RollingBuckets: events counted  *)
(* in a ring of buckets, one per BucketWidth, by goroutines whose clocks   *)
(* need not agree.  Advance answers most callers from one atomic load and  *)
(* takes advanceMu only to roll the window forward.  Every atomic access   *)
(* is a step of its own.                                                   *)
(*                                                                         *)
(* A caller's now is its absolute bucket index, (now - StartTime) divided  *)
(* by BucketWidth, or BeforeStart.  A bucket is the set of the events in   *)
(* it, where the code keeps their number: an event is added once, so the   *)
(* number is the size of the set.                                          *)
(***************************************************************************)
EXTENDS Integers, Sequences, FiniteSets

CONSTANTS
  Goroutines,  \* the callers
  NoHolder,    \* advanceMu while it is free
  NumBuckets,  \* RollingBuckets.NumBuckets
  MaxIndex,    \* bound: the last bucket index any clock shows
  MaxEvents    \* bound: calls of Inc

ASSUME HolderAssumption == NoHolder \notin Goroutines
ASSUME NumBucketsAssumption == NumBuckets \in Nat \ {0}
ASSUME BoundsAssumption == MaxIndex \in Nat /\ MaxEvents \in Nat

VARIABLES
  buckets,       \* slot -> the events it holds
  lastAbsIndex,  \* RollingBuckets.LastAbsIndex
  advanceMu,     \* the goroutine that holds advanceMu
  eventIndex,    \* the index of every event so far; totalSum is its length
  pc,            \* where each goroutine is
  op,            \* the method it is in: "Inc", "RollingSumAt" or "Reset"
  absIndex,      \* its now
  event,         \* Inc: its event, 0 in other calls
  cursor,        \* the loop variable of the loop it is in
  lastCleared,   \* rollForward: where its clearing loop ends
  seen,          \* RollingSumAt: the events counted so far
  floor,         \* history, RollingSumAt: LastAbsIndex when it began to read
  owed,          \* history, RollingSumAt: the events landed when it was called
  landed,        \* history: events added and not reset since
  lagged         \* history: was an event added a full window late

locals == <<op, absIndex, event, cursor, lastCleared, seen>>
history == <<floor, owed, landed, lagged>>
vars == <<buckets, lastAbsIndex, advanceMu, eventIndex, pc, locals, history>>

BeforeStart == -1
Slots == 0 .. NumBuckets - 1
Slot(index) == index % NumBuckets
totalSum == Len(eventIndex)
Events == 1 .. totalSum

Init ==
  /\ buckets = [s \in Slots |-> {}]
  /\ lastAbsIndex = 0
  /\ advanceMu = NoHolder
  /\ eventIndex = <<>>
  /\ pc = [g \in Goroutines |-> "idle"]
  /\ op = [g \in Goroutines |-> "Inc"]
  /\ absIndex = [g \in Goroutines |-> 0]
  /\ event = [g \in Goroutines |-> 0]
  /\ cursor = [g \in Goroutines |-> 0]
  /\ lastCleared = [g \in Goroutines |-> 0]
  /\ seen = [g \in Goroutines |-> {}]
  /\ floor = [g \in Goroutines |-> 0]
  /\ owed = [g \in Goroutines |-> {}]
  /\ landed = {}
  /\ lagged = FALSE

Goto(g, location) == pc' = [pc EXCEPT ![g] = location]

(* The call is over: its locals are gone.                                  *)
Return(g) ==
  /\ Goto(g, "idle")
  /\ op' = [op EXCEPT ![g] = "Inc"]
  /\ absIndex' = [absIndex EXCEPT ![g] = 0]
  /\ event' = [event EXCEPT ![g] = 0]
  /\ cursor' = [cursor EXCEPT ![g] = 0]
  /\ lastCleared' = [lastCleared EXCEPT ![g] = 0]
  /\ seen' = [seen EXCEPT ![g] = {}]

-----------------------------------------------------------------------------
(* The three methods, up to Advance.                                       *)

(* Inc: totalSum counts the event whatever becomes of it.                  *)
Inc(g, index) ==
  /\ pc[g] = "idle"
  /\ totalSum < MaxEvents
  /\ eventIndex' = Append(eventIndex, index)
  /\ event' = [event EXCEPT ![g] = totalSum + 1]
  /\ absIndex' = [absIndex EXCEPT ![g] = index]
  /\ Goto(g, "advance")
  /\ UNCHANGED <<buckets, lastAbsIndex, advanceMu, op, cursor, lastCleared, seen, history>>

RollingSumAt(g, index) ==
  /\ pc[g] = "idle"
  /\ op' = [op EXCEPT ![g] = "RollingSumAt"]
  /\ absIndex' = [absIndex EXCEPT ![g] = index]
  /\ owed' = [owed EXCEPT ![g] = landed]
  /\ Goto(g, "advance")
  /\ UNCHANGED <<buckets, lastAbsIndex, advanceMu, eventIndex, event, cursor,
                 lastCleared, seen, floor, landed, lagged>>

Reset(g, index) ==
  /\ pc[g] = "idle"
  /\ op' = [op EXCEPT ![g] = "Reset"]
  /\ absIndex' = [absIndex EXCEPT ![g] = index]
  /\ Goto(g, "advance")
  /\ UNCHANGED <<buckets, lastAbsIndex, advanceMu, eventIndex, event, cursor,
                 lastCleared, seen, history>>

-----------------------------------------------------------------------------
(* RollingBuckets.Advance.                                                 *)

(* Advance answers: only Inc cares whether its bucket is still there.      *)
Advanced(g, inWindow) ==
  \/ op[g] = "Inc" /\ ~inWindow /\ Return(g) /\ UNCHANGED floor
  \/ /\ op[g] = "Inc" => inWindow
     /\ Goto(g, CASE op[g] = "Inc"          -> "add"
                  [] op[g] = "RollingSumAt" -> "read"
                  [] op[g] = "Reset"        -> "wipe")
     /\ cursor' = [cursor EXCEPT ![g] = 0]
     /\ lastCleared' = [lastCleared EXCEPT ![g] = 0]
     /\ floor' = [floor EXCEPT ![g] = IF op[g] = "RollingSumAt" THEN lastAbsIndex' ELSE 0]
     /\ UNCHANGED <<op, absIndex, event, seen>>

(* Is the index within the window that ends at last?                       *)
InWindow(index, last) == last - index < NumBuckets

(* The fast path: one load of LastAbsIndex, or none before StartTime.      *)
FastPath(g) ==
  /\ pc[g] = "advance"
  /\ IF absIndex[g] = BeforeStart
       THEN UNCHANGED lastAbsIndex /\ Advanced(g, FALSE)
       ELSE IF absIndex[g] <= lastAbsIndex
         THEN UNCHANGED lastAbsIndex /\ Advanced(g, InWindow(absIndex[g], lastAbsIndex))
         ELSE Goto(g, "lock") /\ UNCHANGED <<lastAbsIndex, locals, floor>>
  /\ UNCHANGED <<buckets, advanceMu, eventIndex, owed, landed, lagged>>

(* Mutant of NothingToRoll: the index is not compared again.               *)
AlwaysRoll(g) == FALSE

NothingToRoll(g) == absIndex[g] <= lastAbsIndex

(* rollForward, not needed after all: someone was here first.              *)
AlreadyRolled(g) ==
  /\ pc[g] = "lock" /\ advanceMu = NoHolder
  /\ NothingToRoll(g)
  /\ UNCHANGED lastAbsIndex
  /\ Advanced(g, InWindow(absIndex[g], lastAbsIndex))
  /\ UNCHANGED <<buckets, advanceMu, eventIndex, owed, landed, lagged>>

(* Mutant of FirstToClear: the current bucket goes too.                    *)
CurrentBucket == lastAbsIndex

FirstToClear == lastAbsIndex + 1

(* Mutant of LastToClear: the new bucket keeps its old events.             *)
AllButTheNew(g) ==
  IF absIndex[g] < lastAbsIndex + NumBuckets
    THEN absIndex[g] - 1 ELSE lastAbsIndex + NumBuckets - 1

LastToClear(g) ==
  IF absIndex[g] < lastAbsIndex + NumBuckets
    THEN absIndex[g] ELSE lastAbsIndex + NumBuckets

(* Mutant of StartRolling: the index is published before the clearing.     *)
PublishFirst(g) ==
  /\ pc[g] = "lock" /\ advanceMu = NoHolder
  /\ ~NothingToRoll(g)
  /\ advanceMu' = g
  /\ cursor' = [cursor EXCEPT ![g] = FirstToClear]
  /\ lastCleared' = [lastCleared EXCEPT ![g] = LastToClear(g)]
  /\ lastAbsIndex' = absIndex[g]
  /\ Goto(g, "clear")
  /\ UNCHANGED <<buckets, eventIndex, op, absIndex, event, seen, history>>

(* rollForward: under advanceMu, from the bucket after the last one.       *)
StartRolling(g) ==
  /\ pc[g] = "lock" /\ advanceMu = NoHolder
  /\ ~NothingToRoll(g)
  /\ advanceMu' = g
  /\ cursor' = [cursor EXCEPT ![g] = FirstToClear]
  /\ lastCleared' = [lastCleared EXCEPT ![g] = LastToClear(g)]
  /\ Goto(g, "clear")
  /\ UNCHANGED <<buckets, lastAbsIndex, eventIndex, op, absIndex, event, seen, history>>

ClearBucket(g) ==
  /\ pc[g] = "clear" /\ cursor[g] <= lastCleared[g]
  /\ buckets' = [buckets EXCEPT ![Slot(cursor[g])] = {}]
  /\ cursor' = [cursor EXCEPT ![g] = @ + 1]
  /\ UNCHANGED <<lastAbsIndex, advanceMu, eventIndex, pc, op, absIndex, event,
                 lastCleared, seen, history>>

(* LastAbsIndex is set once the buckets are empty, and the lock released.  *)
Publish(g) ==
  /\ pc[g] = "clear" /\ cursor[g] > lastCleared[g]
  /\ lastAbsIndex' = absIndex[g]
  /\ advanceMu' = NoHolder
  /\ Advanced(g, TRUE)
  /\ UNCHANGED <<buckets, eventIndex, owed, landed, lagged>>

-----------------------------------------------------------------------------
(* The three methods, after Advance.                                       *)

(* The newest index any caller has brought so far, published or not.       *)
Newest == IF advanceMu = NoHolder THEN lastAbsIndex ELSE absIndex[advanceMu]

(* Inc: the event is added to the bucket Advance answered, by now perhaps  *)
(* another's.                                                              *)
Add(g) ==
  /\ pc[g] = "add"
  /\ buckets' = [buckets EXCEPT ![Slot(absIndex[g])] = @ \cup {event[g]}]
  /\ landed' = landed \cup {event[g]}
  /\ lagged' = (lagged \/ ~InWindow(absIndex[g], Newest))
  /\ Return(g)
  /\ UNCHANGED <<lastAbsIndex, advanceMu, eventIndex, floor, owed>>

MoreBuckets(g) == cursor[g] + 1 < NumBuckets

(* sumBuckets: one load per bucket, with no lock.  The sum is the size of  *)
(* seen.                                                                   *)
ReadBucket(g) ==
  /\ pc[g] = "read"
  /\ seen' = [seen EXCEPT ![g] = @ \cup buckets[cursor[g]]]
  /\ IF MoreBuckets(g)
       THEN cursor' = [cursor EXCEPT ![g] = @ + 1] /\ UNCHANGED pc
       ELSE Goto(g, "summed") /\ UNCHANGED cursor
  /\ UNCHANGED <<buckets, lastAbsIndex, advanceMu, eventIndex, op, absIndex, event,
                 lastCleared, history>>

ReturnSum(g) ==
  /\ pc[g] = "summed"
  /\ Return(g)
  /\ floor' = [floor EXCEPT ![g] = 0]
  /\ owed' = [owed EXCEPT ![g] = {}]
  /\ UNCHANGED <<buckets, lastAbsIndex, advanceMu, eventIndex, landed, lagged>>

(* Reset clears bucket by bucket, without advanceMu.                       *)
WipeBucket(g) ==
  LET gone == {e \in landed : Slot(eventIndex[e]) = cursor[g]}
  IN
  /\ pc[g] = "wipe"
  /\ buckets' = [buckets EXCEPT ![cursor[g]] = {}]
  /\ landed' = landed \ gone
  /\ owed' = [h \in Goroutines |-> owed[h] \ gone]
  /\ IF MoreBuckets(g)
       THEN /\ cursor' = [cursor EXCEPT ![g] = @ + 1]
            /\ UNCHANGED <<pc, op, absIndex, event, lastCleared, seen>>
       ELSE Return(g)
  /\ UNCHANGED <<lastAbsIndex, advanceMu, eventIndex, floor, lagged>>

-----------------------------------------------------------------------------
Indices == BeforeStart .. MaxIndex

Next ==
  \E g \in Goroutines :
    \/ \E index \in Indices : Inc(g, index) \/ RollingSumAt(g, index) \/ Reset(g, index)
    \/ FastPath(g) \/ AlreadyRolled(g) \/ StartRolling(g) \/ ClearBucket(g) \/ Publish(g)
    \/ Add(g) \/ ReadBucket(g) \/ ReturnSum(g) \/ WipeBucket(g)

Spec == Init /\ [][Next]_vars

-----------------------------------------------------------------------------
(* Properties.                                                             *)

(* Every variable has its type; a loop stays within the buckets.           *)
TypeOK ==
  /\ buckets \in [Slots -> SUBSET Events]
  /\ lastAbsIndex \in 0 .. MaxIndex
  /\ advanceMu \in Goroutines \cup {NoHolder}
  /\ eventIndex \in Seq(Indices)
  /\ pc \in [Goroutines -> {"idle", "advance", "lock", "clear", "add", "read", "summed", "wipe"}]
  /\ op \in [Goroutines -> {"Inc", "RollingSumAt", "Reset"}]
  /\ absIndex \in [Goroutines -> Indices]
  /\ event \in [Goroutines -> 0 .. totalSum]
  /\ cursor \in [Goroutines -> 0 .. MaxIndex + 1 + NumBuckets]
  /\ \A g \in Goroutines : pc[g] \in {"read", "wipe"} => cursor[g] \in Slots
  /\ lastCleared \in [Goroutines -> 0 .. MaxIndex + NumBuckets]
  /\ seen \in [Goroutines -> SUBSET Events]
  /\ floor \in [Goroutines -> 0 .. MaxIndex]
  /\ owed \in [Goroutines -> SUBSET Events]
  /\ landed \subseteq Events
  /\ lagged \in BOOLEAN

(* "Buckets are always cleared before the new index is published": unless  *)
(* a write came a full window late, every event added within the window    *)
(* (even the one a roll in progress is heading for) is still there.        *)
NoEventLost ==
  ~lagged =>
    \A e \in landed :
      InWindow(eventIndex[e], Newest) => e \in buckets[Slot(eventIndex[e])]

(* Unless a write came a full window late, no bucket holds an event of an  *)
(* older turn of the ring, nor one from a bucket not yet reached.          *)
NoExpiredEventKept ==
  ~lagged =>
    \A s \in Slots : \A e \in buckets[s] :
      /\ InWindow(eventIndex[e], lastAbsIndex)
      /\ eventIndex[e] <= lastAbsIndex

(* A rolling sum read bucket by bucket while others add, roll and reset    *)
(* counts every event that had landed when it was asked for and is still   *)
(* in the window when it answers, and none that had left the window when   *)
(* it began to read.                                                       *)
SumBracketed ==
  ~lagged =>
    \A g \in Goroutines : pc[g] = "summed" =>
      /\ \A e \in owed[g] : InWindow(eventIndex[e], Newest) => e \in seen[g]
      /\ \A e \in seen[g] : InWindow(eventIndex[e], floor[g])

(* LastAbsIndex never moves back, however the callers' clocks disagree.    *)
NeverRollsBack == [][lastAbsIndex' >= lastAbsIndex]_vars
=============================================================================
