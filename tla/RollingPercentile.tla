-------------------------- MODULE RollingPercentile -------------------------
(***************************************************************************)
(* faststats.RollingPercentile: one bucket of the ring, a durationsBucket  *)
(* that hands out its slots by counting currentIndex up and whose readers  *)
(* and writers take no lock.  AddDuration, SnapshotAt and Reset begin with *)
(* RollingBuckets.Advance (RollingCounter has its details): it answers at  *)
(* once, or clears the bucket under advanceMu and gives it to a new window.*)
(*                                                                         *)
(* A duration is an integer of Width bits.  Samples are numbered so that   *)
(* the history variables can tell them apart; the code sees durations.     *)
(***************************************************************************)
EXTENDS Integers, Sequences, FiniteSets, Functions, TLC

CONSTANTS
  Goroutines,
  NoHolder,    \* advanceMu while it is free
  Size,        \* the length of durationsSomeInvalid
  Width,       \* the bits of an int64
  Durations,   \* the durations that are added
  MaxWindow,   \* bound: how often the ring turns
  MaxSamples   \* bound: calls of AddDuration

ASSUME HolderAssumption == NoHolder \notin Goroutines
ASSUME SizeAssumption == Size \in Nat \ {0}
ASSUME BoundsAssumption == MaxWindow \in Nat /\ MaxSamples \in Nat
(* The second conjunct is arithmetic, for provers that have no powers.      *)
ASSUME WidthAssumption ==
  /\ Width \in Nat \ {0}
  /\ 2^(Width - 1) \in Nat \ {0} /\ 2^Width = 2 * 2^(Width - 1)
ASSUME DurationsAssumption == Durations \subseteq -(2^(Width - 1)) .. 2^(Width - 1) - 1

VARIABLES
  durationsSomeInvalid,  \* slot -> encoded duration or unsetDuration
  currentIndex,          \* how many slots were handed out since the last clear
  window,                \* the turn of the ring the bucket belongs to
  advanceMu,             \* the goroutine that rolls
  pc, op,                \* where each goroutine is, and in which method
  mine,                  \* the window Advance answered
  sample,                \* AddDuration: its sample, 0 in other calls
  cursor, limit,         \* a loop's variable and end; AddDuration: its slot
  ret,                   \* SnapshotAt: the durations so far
  samples,               \* history: every sample's duration and window
  from,                  \* history: slot -> the sample in it, or 0
  seen, owed,            \* history, SnapshotAt: samples read; samples it must read
  late                   \* history: samples whose AddDuration overlapped a clear

bucket == <<durationsSomeInvalid, currentIndex, from>>
ring == <<window, advanceMu>>
locals == <<op, mine, sample, cursor, limit, ret, seen>>
vars == <<bucket, ring, pc, locals, samples, owed, late>>

unsetDuration == 0
Slots == 0 .. Size - 1

(* Two's complement of Width bits.                                         *)
Wrap(n) == ((n + 2^(Width - 1)) % 2^Width) - 2^(Width - 1)

(* Mutant of encodeDuration: no room is made for the sentinel.             *)
encodePlain(d) == IF d < 0 THEN 0 ELSE d

encodeDuration(d) == Wrap((IF d < 0 THEN 0 ELSE d) + 1)
decodeDuration(v) == Wrap(v - 1)

size == IF currentIndex < Size THEN currentIndex ELSE Size

Init ==
  /\ durationsSomeInvalid = [i \in Slots |-> unsetDuration]
  /\ currentIndex = 0 /\ window = 0 /\ advanceMu = NoHolder
  /\ pc = [g \in Goroutines |-> "idle"]
  /\ op = [g \in Goroutines |-> "none"]
  /\ mine = [g \in Goroutines |-> 0]
  /\ sample = [g \in Goroutines |-> 0]
  /\ cursor = [g \in Goroutines |-> 0]
  /\ limit = [g \in Goroutines |-> 0]
  /\ ret = [g \in Goroutines |-> <<>>]
  /\ samples = <<>>
  /\ from = [i \in Slots |-> 0]
  /\ seen = [g \in Goroutines |-> {}]
  /\ owed = [g \in Goroutines |-> {}]
  /\ late = {}

Goto(g, location) == pc' = [pc EXCEPT ![g] = location]

Return(g) ==
  /\ Goto(g, "idle")
  /\ op' = [op EXCEPT ![g] = "none"]
  /\ mine' = [mine EXCEPT ![g] = 0]
  /\ sample' = [sample EXCEPT ![g] = 0]
  /\ cursor' = [cursor EXCEPT ![g] = 0]
  /\ limit' = [limit EXCEPT ![g] = 0]
  /\ ret' = [ret EXCEPT ![g] = <<>>]
  /\ seen' = [seen EXCEPT ![g] = {}]

-----------------------------------------------------------------------------
(* A method is called at a time that Advance will find in window w.        *)
Enter(g, method, w) ==
  /\ pc[g] = "idle"
  /\ op' = [op EXCEPT ![g] = method]
  /\ IF method = "AddDuration"
       THEN /\ Len(samples) < MaxSamples
            /\ sample' = [sample EXCEPT ![g] = Len(samples) + 1]
            /\ \E d \in Durations :
                 samples' = Append(samples, [duration |-> d, window |-> w])
       ELSE UNCHANGED <<samples, sample>>

(* What it does with Advance's answer.                                     *)
Advanced(g, method, w) ==
  /\ mine' = [mine EXCEPT ![g] = w]
  /\ owed' = [owed EXCEPT ![g] =
       IF method = "SnapshotAt" THEN {from[i] : i \in Slots} \ {0} ELSE {}]
  /\ Goto(g, CASE method = "AddDuration" -> "reserve"
               [] method = "SnapshotAt"  -> "size"
               [] method = "Reset"       -> "clear")

(* The bucket is current: no lock.                                         *)
Advance(g, method) ==
  /\ Enter(g, method, window)
  /\ Advanced(g, method, window)
  /\ UNCHANGED <<bucket, ring, cursor, limit, ret, seen, late>>

(* The bucket's window is over: it is cleared before it is given out again. *)
rollForward(g, method) ==
  /\ advanceMu = NoHolder /\ window < MaxWindow
  /\ Enter(g, method, window + 1)
  /\ advanceMu' = g
  /\ Goto(g, "clear")
  /\ UNCHANGED <<bucket, window, mine, cursor, limit, ret, seen, owed, late>>

Publish(g) ==
  /\ pc[g] = "publish"
  /\ window' = window + 1
  /\ advanceMu' = NoHolder
  /\ Advanced(g, op[g], window + 1)
  /\ UNCHANGED <<bucket, op, sample, cursor, limit, ret, seen, samples, late>>

-----------------------------------------------------------------------------
(* durationsBucket.clear, for a roll or for Reset.                         *)

Clearing == {g \in Goroutines : pc[g] \in {"unset", "publish"}}

(* Mutant of used: off by one.                                             *)
usedButOne == IF size > 0 THEN size - 1 ELSE 0

used == size

clear(g) ==
  /\ pc[g] = "clear"
  /\ limit' = [limit EXCEPT ![g] = used]
  /\ cursor' = [cursor EXCEPT ![g] = 0]
  /\ late' = late \cup {sample[h] : h \in {w \in Goroutines : pc[w] = "store"}}
  /\ Goto(g, "unset")
  /\ UNCHANGED <<bucket, ring, op, mine, sample, ret, seen, samples, owed>>

Forget(id) == owed' = [h \in Goroutines |-> owed[h] \ {id}]

(* Mutant of UnsetSlot: only the index is reset, the slots keep their values. *)
KeepSlot(g) ==
  /\ pc[g] = "unset" /\ cursor[g] < limit[g]
  /\ Forget(from[cursor[g]])
  /\ cursor' = [cursor EXCEPT ![g] = @ + 1]
  /\ UNCHANGED <<bucket, ring, pc, op, mine, sample, limit, ret, seen, samples, late>>

UnsetSlot(g) ==
  /\ pc[g] = "unset" /\ cursor[g] < limit[g]
  /\ durationsSomeInvalid' = [durationsSomeInvalid EXCEPT ![cursor[g]] = unsetDuration]
  /\ from' = [from EXCEPT ![cursor[g]] = 0]
  /\ Forget(from[cursor[g]])
  /\ cursor' = [cursor EXCEPT ![g] = @ + 1]
  /\ UNCHANGED <<currentIndex, ring, pc, op, mine, sample, limit, ret, seen, samples, late>>

ResetIndex(g) ==
  /\ pc[g] = "unset" /\ cursor[g] = limit[g]
  /\ currentIndex' = 0
  /\ IF advanceMu = g
       THEN Goto(g, "publish") /\ UNCHANGED locals
       ELSE Return(g)
  /\ UNCHANGED <<durationsSomeInvalid, from, ring, samples, owed, late>>

-----------------------------------------------------------------------------
(* durationsBucket.addDuration: reserve, then store.                       *)

arrayIndex(n) == n % Size

Reserve(g) ==
  /\ pc[g] = "reserve"
  /\ cursor' = [cursor EXCEPT ![g] = arrayIndex(currentIndex)]
  /\ currentIndex' = currentIndex + 1
  /\ late' = IF Clearing # {} \/ mine[g] # window THEN late \cup {sample[g]} ELSE late
  /\ Goto(g, "store")
  /\ UNCHANGED <<durationsSomeInvalid, from, ring, op, mine, sample, limit, ret, seen,
                 samples, owed>>

Store(g) ==
  /\ pc[g] = "store"
  /\ durationsSomeInvalid' = [durationsSomeInvalid EXCEPT
       ![cursor[g]] = encodeDuration(samples[sample[g]].duration)]
  /\ from' = [from EXCEPT ![cursor[g]] = sample[g]]
  /\ Forget(from[cursor[g]])
  /\ Return(g)
  /\ UNCHANGED <<currentIndex, ring, samples, late>>

-----------------------------------------------------------------------------
(* appendDurations and the sort.                                           *)

ReadSize(g) ==
  /\ pc[g] = "size"
  /\ limit' = [limit EXCEPT ![g] = size]
  /\ cursor' = [cursor EXCEPT ![g] = 0]
  /\ Goto(g, "append")
  /\ UNCHANGED <<bucket, ring, op, mine, sample, ret, seen, samples, owed, late>>

appendDurations(g) ==
  LET v == durationsSomeInvalid[cursor[g]]
  IN
  /\ pc[g] = "append" /\ cursor[g] < limit[g]
  /\ cursor' = [cursor EXCEPT ![g] = @ + 1]
  /\ ret' = [ret EXCEPT ![g] =
       IF v = unsetDuration THEN @ ELSE Append(@, decodeDuration(v))]
  /\ seen' = [seen EXCEPT ![g] =
       IF v = unsetDuration THEN @ ELSE @ \cup {from[cursor[g]]}]
  /\ UNCHANGED <<bucket, ring, pc, op, mine, sample, limit, samples, owed, late>>

(* Mutant of SortedDurations: the durations stay in slot order.            *)
SlotOrder(s) == {s}

(* What slices.Sort may leave of s: its elements, permuted into order.     *)
SortedDurations(s) ==
  {t \in {[i \in DOMAIN s |-> s[f[i]]] : f \in Bijection(DOMAIN s, DOMAIN s)} :
     \A i, j \in DOMAIN s : i < j => t[i] <= t[j]}

Sort(g) ==
  /\ pc[g] = "append" /\ cursor[g] = limit[g]
  /\ \E sorted \in SortedDurations(ret[g]) : ret' = [ret EXCEPT ![g] = sorted]
  /\ Goto(g, "snapshot")
  /\ UNCHANGED <<bucket, ring, op, mine, sample, cursor, limit, seen, samples, owed, late>>

ReturnSnapshot(g) ==
  /\ pc[g] = "snapshot"
  /\ Return(g)
  /\ owed' = [owed EXCEPT ![g] = {}]
  /\ UNCHANGED <<bucket, ring, samples, late>>

(* SortedDurations' methods, -1 for an empty list.                         *)
MinOf(s) == IF s = <<>> THEN -1 ELSE s[1]
MaxOf(s) == IF s = <<>> THEN -1 ELSE s[Len(s)]

(* The value p percent of the way through s, between two elements in       *)
(* proportion; the code's floating-point numbers are exact here.           *)
Percentile(s, p) ==
  LET position == p * (Len(s) - 1)
      first == s[position \div 100 + 1]
      second == s[(position + 99) \div 100 + 1]
  IN
  IF s = <<>> THEN -1
  ELSE IF p <= 0 THEN s[1]
  ELSE IF p >= 100 THEN s[Len(s)]
  ELSE first + ((second - first) * (position % 100)) \div 100

-----------------------------------------------------------------------------
Next ==
  \E g \in Goroutines :
    \/ \E method \in {"AddDuration", "SnapshotAt", "Reset"} :
         Advance(g, method) \/ rollForward(g, method)
    \/ Publish(g) \/ clear(g) \/ UnsetSlot(g) \/ ResetIndex(g)
    \/ Reserve(g) \/ Store(g)
    \/ ReadSize(g) \/ appendDurations(g) \/ Sort(g) \/ ReturnSnapshot(g)

Spec == Init /\ [][Next]_vars

-----------------------------------------------------------------------------
(* Properties.                                                             *)

Ids == 1 .. Len(samples)
Ints == -(2^(Width - 1)) .. 2^(Width - 1) - 1

(* Every variable has its type; slots and loops stay within the bucket.    *)
TypeOK ==
  /\ durationsSomeInvalid \in [Slots -> Ints]
  /\ currentIndex \in 0 .. MaxSamples
  /\ window \in 0 .. MaxWindow
  /\ advanceMu \in Goroutines \cup {NoHolder}
  /\ pc \in [Goroutines -> {"idle", "clear", "unset", "publish", "reserve",
                            "store", "size", "append", "snapshot"}]
  /\ op \in [Goroutines -> {"none", "AddDuration", "SnapshotAt", "Reset"}]
  /\ mine \in [Goroutines -> 0 .. MaxWindow]
  /\ sample \in [Goroutines -> 0 .. Len(samples)]
  /\ cursor \in [Goroutines -> 0 .. Size] /\ limit \in [Goroutines -> 0 .. Size]
  /\ \A g \in Goroutines : pc[g] = "store" => cursor[g] \in Slots
  /\ ret \in [Goroutines -> Seq(Ints)]
  /\ samples \in Seq([duration : Durations, window : 0 .. MaxWindow])
  /\ from \in [Slots -> 0 .. Len(samples)]
  /\ seen \in [Goroutines -> SUBSET Ids] /\ owed \in [Goroutines -> SUBSET Ids]
  /\ late \subseteq Ids

(* clear "unsets exactly the prefix that was handed out, so by induction   *)
(* slots at or beyond currentIndex are already unset": whatever races      *)
(* whatever, only a sample whose own AddDuration overlapped a clear is     *)
(* ever left there.                                                        *)
BeyondIndexUnset ==
  \A i \in Slots :
    i >= currentIndex /\ durationsSomeInvalid[i] # unsetDuration => from[i] \in late

(* A reader never gets "a stale value from a previous window": a snapshot  *)
(* holds no sample of a window that was over when it was asked for, save   *)
(* one whose AddDuration overlapped a clear.                               *)
NoStaleSample ==
  \A g \in Goroutines : pc[g] \in {"append", "snapshot"} =>
    \A s \in seen[g] : samples[s].window < mine[g] => s \in late

(* A snapshot misses nothing: it holds every sample stored before it was   *)
(* asked for and neither overwritten nor cleared since, of any duration,   *)
(* save one whose AddDuration overlapped a clear.                          *)
NoSampleMissed ==
  \A g \in Goroutines : pc[g] = "snapshot" => owed[g] \subseteq seen[g] \cup late

(* Percentiles of a snapshot grow with p, from Min to Max, and every       *)
(* sample comes back as the duration that was added, negative ones as 0.   *)
PercentilesOrdered ==
  \A g \in Goroutines : pc[g] = "snapshot" =>
    /\ Percentile(ret[g], 0) = MinOf(ret[g]) /\ Percentile(ret[g], 100) = MaxOf(ret[g])
    /\ \A p, q \in {0, 25, 50, 90, 99, 100} :
         p <= q => Percentile(ret[g], p) <= Percentile(ret[g], q)
    /\ \A i \in DOMAIN ret[g] : \E s \in Ids :
         ret[g][i] = IF samples[s].duration < 0 THEN 0 ELSE samples[s].duration
=============================================================================
