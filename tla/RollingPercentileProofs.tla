----------------------- MODULE RollingPercentileProofs ----------------------
(* Proofs about RollingPercentile, for any goroutines, size of the bucket, *)
(* durations and bounds.                                                   *)
EXTENDS RollingPercentile, SequenceTheorems, FiniteSetTheorems, TLAPS

Locations == {"idle", "clear", "unset", "publish", "reserve", "store", "size", "append", "snapshot"}

(* The types that the order of things depends on; a sample is a number     *)
(* that was given out.                                                     *)
Types ==
  /\ DOMAIN durationsSomeInvalid = Slots
  /\ currentIndex \in Nat /\ window \in Nat
  /\ advanceMu \in Goroutines \cup {NoHolder}
  /\ pc \in [Goroutines -> Locations]
  /\ op \in [Goroutines -> {"none", "AddDuration", "SnapshotAt", "Reset"}]
  /\ mine \in [Goroutines -> Nat]
  /\ samples \in Seq([duration : Durations, window : Nat])
  /\ sample \in [Goroutines -> 0 .. Len(samples)]
  /\ cursor \in [Goroutines -> Nat] /\ limit \in [Goroutines -> Nat]
  /\ from \in [Slots -> 0 .. Len(samples)]
  /\ seen \in [Goroutines -> SUBSET (0 .. Len(samples))]

(* Where a goroutine is fits what it does: the holder of advanceMu rolls,  *)
(* and the window of its sample is the one that it found or will begin.    *)
PlaceOf(g) ==
  /\ advanceMu = g => pc[g] \in {"clear", "unset", "publish"}
  /\ pc[g] = "publish" => advanceMu = g
  /\ advanceMu = g => op[g] # "none"
  /\ advanceMu = g /\ op[g] = "AddDuration" =>
       sample[g] # 0 /\ samples[sample[g]].window = window + 1
  /\ pc[g] \in {"reserve", "store"} =>
       sample[g] # 0 /\ samples[sample[g]].window = mine[g]
  /\ mine[g] <= window
  /\ pc[g] = "store" => cursor[g] \in Slots
  /\ pc[g] = "unset" => cursor[g] <= limit[g] /\ limit[g] <= Size
  /\ pc[g] = "append" => cursor[g] <= limit[g] /\ limit[g] <= Size

Places == \A g \in Goroutines : PlaceOf(g)

(* A slot holds a sample of the code that is not excused.                  *)
Fresh(i) == durationsSomeInvalid[i] # unsetDuration /\ from[i] \notin late

(* Such a sample lies below currentIndex and is of the present window; the *)
(* part of the bucket that a clear has passed, or will not reach, has none *)
(* of them.  A writer that is not excused meets no clear.                  *)
SlotsKept ==
  /\ \A i \in Slots :
       /\ durationsSomeInvalid[i] # unsetDuration => from[i] # 0
       /\ Fresh(i) =>
            /\ i < currentIndex
            /\ samples[from[i]].window >= window
            /\ \A h \in Goroutines :
                 /\ pc[h] = "unset" => cursor[h] <= i /\ i < limit[h]
                 /\ pc[h] # "publish"
  /\ \A g \in Goroutines : pc[g] = "store" /\ sample[g] \notin late =>
       /\ cursor[g] < currentIndex
       /\ samples[sample[g]].window >= window
       /\ Clearing = {}

(* What a snapshot has read is of its window or later, or is excused.      *)
SeenKept ==
  \A g \in Goroutines :
    /\ \A s \in seen[g] : s # 0 /\ (s \in late \/ samples[s].window >= mine[g])
    /\ pc[g] \notin {"append", "snapshot"} => seen[g] = {}

-----------------------------------------------------------------------------
(* Types, and where each goroutine is.                                     *)

(* What a step leaves alone of goroutine h.                                *)
Same(h) ==
  /\ pc'[h] = pc[h] /\ op'[h] = op[h] /\ mine'[h] = mine[h] /\ sample'[h] = sample[h]
  /\ cursor'[h] = cursor[h] /\ limit'[h] = limit[h] /\ seen'[h] = seen[h]

(* Samples are only added.                                                 *)
Added ==
  /\ samples' \in Seq([duration : Durations, window : Nat])
  /\ Len(samples') \in Nat /\ Len(samples) \in Nat /\ Len(samples) <= Len(samples')
  /\ \A s \in 1 .. Len(samples) : samples'[s] = samples[s]

LEMMA NothingAdded ==
  ASSUME Types, UNCHANGED samples
  PROVE  Added
  BY DEF Types, Added

(* A new call gets the next sample, of the window it is for.               *)
LEMMA EnterAdds ==
  ASSUME Types, NEW g \in Goroutines, NEW method, NEW w \in Nat, Enter(g, method, w)
  PROVE  /\ Added
         /\ sample' \in [Goroutines -> 0 .. Len(samples')]
         /\ \A h \in Goroutines \ {g} : sample'[h] = sample[h] /\ op'[h] = op[h]
         /\ op'[g] = method /\ DOMAIN op' = Goroutines
         /\ method = "AddDuration" =>
              sample'[g] # 0 /\ samples'[sample'[g]].window = w
<1>t. /\ samples \in Seq([duration : Durations, window : Nat]) /\ Len(samples) \in Nat
      /\ sample \in [Goroutines -> 0 .. Len(samples)]
      /\ op \in [Goroutines -> {"none", "AddDuration", "SnapshotAt", "Reset"}]
  BY DEF Types
<1>1. /\ op'[g] = method /\ DOMAIN op' = Goroutines
      /\ \A h \in Goroutines \ {g} : op'[h] = op[h]
  BY <1>t DEF Enter
<1>2. CASE method # "AddDuration"
  BY <1>t, <1>1, <1>2, NothingAdded DEF Enter
<1>3. CASE method = "AddDuration"
  <2>1. PICK d \in Durations : samples' = Append(samples, [duration |-> d, window |-> w])
    BY <1>3 DEF Enter
  <2> DEFINE r == [duration |-> d, window |-> w]
  <2>2. r \in [duration : Durations, window : Nat]
    OBVIOUS
  <2>3. /\ samples' \in Seq([duration : Durations, window : Nat])
        /\ Len(samples') = Len(samples) + 1 /\ samples'[Len(samples) + 1] = r
        /\ \A s \in 1 .. Len(samples) : samples'[s] = samples[s]
    BY <1>t, <2>1, <2>2, AppendProperties
  <2>4. Added
    BY <1>t, <2>3 DEF Added
  <2>5. sample' = [sample EXCEPT ![g] = Len(samples) + 1]
    BY <1>3 DEF Enter
  <2>6. /\ sample' \in [Goroutines -> 0 .. Len(samples')] /\ sample'[g] = Len(samples) + 1
        /\ \A h \in Goroutines \ {g} : sample'[h] = sample[h]
    BY <1>t, <2>3, <2>5
  <2>7. r.window = w
    OBVIOUS
  <2>8. QED
    BY <1>t, <1>1, <2>3, <2>4, <2>6, <2>7
<1>4. QED
  BY <1>2, <1>3

(* A goroutine that does not move stays where it belongs.                  *)
LEMMA PlaceFrame ==
  ASSUME Types, NEW h \in Goroutines, PlaceOf(h), Same(h), Added,
         advanceMu' = h <=> advanceMu = h, window' \in Nat, window <= window',
         advanceMu = h => window' = window
  PROVE  PlaceOf(h)'
<1>1. sample[h] \in 0 .. Len(samples) /\ mine[h] \in Nat /\ window \in Nat /\ Len(samples) \in Nat
  BY DEF Types, Added
<1>2. sample[h] # 0 => samples'[sample[h]] = samples[sample[h]]
  BY <1>1 DEF Added
<1>3. QED
  BY <1>1, <1>2 DEF PlaceOf, Same

LEMMA WindowOf ==
  ASSUME Types, NEW s \in 1 .. Len(samples)
  PROVE  samples[s].window \in Nat
<1>1. samples \in Seq([duration : Durations, window : Nat])
  BY DEF Types
<1>2. samples[s] \in [duration : Durations, window : Nat]
  BY <1>1, ElementOfSeq
<1>3. QED
  BY <1>2

(* The remainder is a slot.                                                *)
LEMMA ArrayIndex ==
  ASSUME NEW n \in Nat
  PROVE  arrayIndex(n) \in Slots /\ arrayIndex(n) \in Nat /\ arrayIndex(n) <= n
<1>1. Size \in Nat /\ Size > 0
  BY SizeAssumption
<1>2. n % Size \in 0 .. Size - 1
  BY <1>1
<1>3. n % Size <= n
  <2>1. n = Size * (n \div Size) + (n % Size)
    BY <1>1
  <2>2. n \div Size \in Nat
    BY <1>1
  <2>3. Size * (n \div Size) >= 0
    BY <1>1, <2>2
  <2>4. QED
    BY <1>1, <1>2, <2>1, <2>2, <2>3
<1>4. QED
  BY <1>1, <1>2, <1>3 DEF arrayIndex, Slots

LEMMA SizeBound ==
  ASSUME Types
  PROVE  size \in Nat /\ size <= Size /\ Size \in Nat
         /\ \A i \in Slots : i < currentIndex => i < size
  BY SizeAssumption DEF Types, size, Slots

(* Every other goroutine stays as it is.                                   *)
Alone(g) == \A h \in Goroutines \ {g} : Same(h)

(* The steps of calls, by what they leave alone.                           *)
LEMMA AdvanceTypes ==
  ASSUME Types, Places, NEW g \in Goroutines,
         NEW method \in {"AddDuration", "SnapshotAt", "Reset"}, Advance(g, method)
  PROVE  Types' /\ Places' /\ Added /\ Alone(g)
<1>t. /\ window \in Nat /\ Len(samples) \in Nat
      /\ op \in [Goroutines -> {"none", "AddDuration", "SnapshotAt", "Reset"}]
  BY DEF Types
<1>1. /\ Added /\ sample' \in [Goroutines -> 0 .. Len(samples')]
      /\ \A h \in Goroutines \ {g} : sample'[h] = sample[h] /\ op'[h] = op[h]
      /\ op'[g] = method /\ DOMAIN op' = Goroutines
      /\ method = "AddDuration" => sample'[g] # 0 /\ samples'[sample'[g]].window = window
  BY <1>t, EnterAdds DEF Advance
<1>2. /\ pc[g] = "idle" /\ mine' = [mine EXCEPT ![g] = window]
      /\ op' = [op EXCEPT ![g] = method]
      /\ pc' = [pc EXCEPT ![g] = CASE method = "AddDuration" -> "reserve"
                                   [] method = "SnapshotAt"  -> "size"
                                   [] method = "Reset"       -> "clear"]
      /\ UNCHANGED <<durationsSomeInvalid, currentIndex, from, window, advanceMu,
                     cursor, limit, seen>>
  BY DEF Advance, Enter, Advanced, Goto, bucket, ring
<1>3. /\ pc'[g] \in {"reserve", "size", "clear"} /\ pc' \in [Goroutines -> Locations]
      /\ pc'[g] = "reserve" => method = "AddDuration"
      /\ \A h \in Goroutines \ {g} : pc'[h] = pc[h]
  BY <1>2 DEF Types, Locations
<1>4. 0 .. Len(samples) \subseteq 0 .. Len(samples')
  BY <1>1 DEF Added
<1>5. Types'
  <2>1. op' \in [Goroutines -> {"none", "AddDuration", "SnapshotAt", "Reset"}]
    BY <1>t, <1>2
  <2>2. mine' \in [Goroutines -> Nat]
    BY <1>2 DEF Types
  <2>3. from' \in [Slots -> 0 .. Len(samples')]
    BY <1>2, <1>4 DEF Types
  <2>4. seen' \in [Goroutines -> SUBSET (0 .. Len(samples'))]
    BY <1>2, <1>4 DEF Types
  <2>5. QED
    BY <1>1, <1>2, <1>3, <2>1, <2>2, <2>3, <2>4 DEF Types, Added
<1>6. Alone(g)
  BY <1>1, <1>2, <1>3 DEF Alone, Same, Types
<1>7. ASSUME NEW h \in Goroutines \ {g} PROVE PlaceOf(h)'
  BY <1>1, <1>2, <1>6, <1>t, PlaceFrame DEF Alone, Places
<1>8. PlaceOf(g)'
  <2>1. advanceMu # g
    BY <1>2 DEF Places, PlaceOf
  <2>2. mine'[g] = window
    BY <1>2 DEF Types
  <2>3. QED
    BY <1>1, <1>2, <1>3, <1>t, <2>1, <2>2 DEF PlaceOf
<1>9. QED
  BY <1>1, <1>5, <1>6, <1>7, <1>8 DEF Places

LEMMA RollTypes ==
  ASSUME Types, Places, NEW g \in Goroutines,
         NEW method \in {"AddDuration", "SnapshotAt", "Reset"}, rollForward(g, method)
  PROVE  Types' /\ Places' /\ Added /\ Alone(g)
<1>t. /\ window \in Nat /\ window + 1 \in Nat /\ Len(samples) \in Nat
      /\ op \in [Goroutines -> {"none", "AddDuration", "SnapshotAt", "Reset"}]
  BY DEF Types
<1>1. /\ Added /\ sample' \in [Goroutines -> 0 .. Len(samples')]
      /\ \A h \in Goroutines \ {g} : sample'[h] = sample[h] /\ op'[h] = op[h]
      /\ op'[g] = method /\ DOMAIN op' = Goroutines
      /\ method = "AddDuration" => sample'[g] # 0 /\ samples'[sample'[g]].window = window + 1
  BY <1>t, EnterAdds DEF rollForward
<1>2. /\ pc[g] = "idle" /\ advanceMu = NoHolder /\ advanceMu' = g
      /\ op' = [op EXCEPT ![g] = method]
      /\ pc' = [pc EXCEPT ![g] = "clear"]
      /\ UNCHANGED <<durationsSomeInvalid, currentIndex, from, window, mine,
                     cursor, limit, seen>>
  BY DEF rollForward, Enter, Goto, bucket
<1>3. /\ pc'[g] = "clear" /\ pc' \in [Goroutines -> Locations]
      /\ \A h \in Goroutines \ {g} : pc'[h] = pc[h]
  BY <1>2 DEF Types, Locations
<1>4. 0 .. Len(samples) \subseteq 0 .. Len(samples')
  BY <1>1 DEF Added
<1>5. Types'
  <2>1. op' \in [Goroutines -> {"none", "AddDuration", "SnapshotAt", "Reset"}]
    BY <1>t, <1>2
  <2>3. from' \in [Slots -> 0 .. Len(samples')]
    BY <1>2, <1>4 DEF Types
  <2>4. seen' \in [Goroutines -> SUBSET (0 .. Len(samples'))]
    BY <1>2, <1>4 DEF Types
  <2>5. QED
    BY <1>1, <1>2, <1>3, <2>1, <2>3, <2>4 DEF Types, Added
<1>6. Alone(g)
  BY <1>1, <1>2, <1>3 DEF Alone, Same, Types
<1>7. ASSUME NEW h \in Goroutines \ {g} PROVE PlaceOf(h)'
  <2>1. NoHolder # h /\ g # h
    BY HolderAssumption
  <2>2. QED
    BY <1>1, <1>2, <1>6, <1>t, <2>1, PlaceFrame DEF Alone, Places
<1>8. PlaceOf(g)'
  BY <1>1, <1>2, <1>3, <1>t DEF PlaceOf, Places
<1>9. QED
  BY <1>1, <1>5, <1>6, <1>7, <1>8 DEF Places

LEMMA PublishTypes ==
  ASSUME Types, Places, NEW g \in Goroutines, Publish(g)
  PROVE  Types' /\ Places' /\ Added /\ Alone(g) /\ advanceMu = g
<1>t. /\ window \in Nat /\ window + 1 \in Nat /\ Len(samples) \in Nat
      /\ op[g] \in {"none", "AddDuration", "SnapshotAt", "Reset"}
      /\ sample[g] \in 0 .. Len(samples)
  BY DEF Types
<1>1. Added
  BY NothingAdded DEF Publish
<1>2. /\ pc[g] = "publish" /\ advanceMu' = NoHolder /\ window' = window + 1
      /\ mine' = [mine EXCEPT ![g] = window + 1]
      /\ pc' = [pc EXCEPT ![g] = CASE op[g] = "AddDuration" -> "reserve"
                                   [] op[g] = "SnapshotAt"  -> "size"
                                   [] op[g] = "Reset"       -> "clear"]
      /\ UNCHANGED <<durationsSomeInvalid, currentIndex, from, op, sample, samples,
                     cursor, limit, seen>>
  BY DEF Publish, Advanced, Goto, bucket
<1>3. advanceMu = g /\ op[g] # "none"
      /\ (op[g] = "AddDuration" => sample[g] # 0 /\ samples[sample[g]].window = window + 1)
  BY <1>2 DEF Places, PlaceOf
<1>4. /\ pc'[g] \in {"reserve", "size", "clear"} /\ pc' \in [Goroutines -> Locations]
      /\ pc'[g] = "reserve" => op[g] = "AddDuration"
      /\ \A h \in Goroutines \ {g} : pc'[h] = pc[h]
  BY <1>2, <1>3, <1>t DEF Types, Locations
<1>5. mine' \in [Goroutines -> Nat] /\ mine'[g] = window + 1
      /\ \A h \in Goroutines \ {g} : mine'[h] = mine[h]
  BY <1>2, <1>t DEF Types
<1>6. Types'
  BY <1>2, <1>4, <1>5, <1>t DEF Types
<1>7. Alone(g)
  BY <1>2, <1>4, <1>5 DEF Alone, Same
<1>8. ASSUME NEW h \in Goroutines \ {g} PROVE PlaceOf(h)'
  <2>1. NoHolder # h /\ g # h
    BY HolderAssumption
  <2>2. QED
    BY <1>1, <1>2, <1>3, <1>7, <1>t, <2>1, PlaceFrame DEF Alone, Places
<1>9. PlaceOf(g)'
  <2>1. NoHolder # g
    BY HolderAssumption
  <2>2. QED
    BY <1>2, <1>3, <1>4, <1>5, <1>t, <2>1 DEF PlaceOf
<1>10. QED
  BY <1>1, <1>3, <1>6, <1>7, <1>8, <1>9 DEF Places

(* A step within a call: no call begins and the ring does not turn.        *)
Within(g) ==
  \/ clear(g) \/ UnsetSlot(g) \/ ResetIndex(g) \/ Reserve(g) \/ Store(g)
  \/ ReadSize(g) \/ appendDurations(g) \/ Sort(g) \/ ReturnSnapshot(g)

LEMMA ReturnTypes ==
  ASSUME Types, NEW g \in Goroutines, Return(g)
  PROVE  /\ Alone(g) /\ pc'[g] = "idle" /\ mine'[g] = 0 /\ seen'[g] = {}
         /\ pc' \in [Goroutines -> Locations]
         /\ op' \in [Goroutines -> {"none", "AddDuration", "SnapshotAt", "Reset"}]
         /\ mine' \in [Goroutines -> Nat]
         /\ sample' \in [Goroutines -> 0 .. Len(samples)]
         /\ cursor' \in [Goroutines -> Nat] /\ limit' \in [Goroutines -> Nat]
         /\ seen' \in [Goroutines -> SUBSET (0 .. Len(samples))]
<1>1. Len(samples) \in Nat
  BY DEF Types
<1>2. pc' \in [Goroutines -> Locations] /\ pc'[g] = "idle" /\ mine'[g] = 0 /\ seen'[g] = {}
  BY DEF Types, Return, Goto, Locations
<1>3. Alone(g)
  BY DEF Types, Return, Goto, Alone, Same
<1>4. /\ op' \in [Goroutines -> {"none", "AddDuration", "SnapshotAt", "Reset"}]
      /\ mine' \in [Goroutines -> Nat]
      /\ cursor' \in [Goroutines -> Nat] /\ limit' \in [Goroutines -> Nat]
  BY DEF Types, Return
<1>5. sample' \in [Goroutines -> 0 .. Len(samples)]
  BY <1>1 DEF Types, Return
<1>6. seen' \in [Goroutines -> SUBSET (0 .. Len(samples))]
  BY DEF Types, Return
<1>7. QED
  BY <1>2, <1>3, <1>4, <1>5, <1>6

LEMMA WithinTypes ==
  ASSUME Types, Places, NEW g \in Goroutines, Within(g)
  PROVE  /\ Types' /\ Places' /\ Added /\ Alone(g)
         /\ UNCHANGED <<window, advanceMu, samples>>
<1>t. /\ window \in Nat /\ Len(samples) \in Nat /\ currentIndex \in Nat
      /\ sample[g] \in 0 .. Len(samples) /\ cursor[g] \in Nat /\ limit[g] \in Nat
      /\ Size \in Nat
  BY SizeAssumption DEF Types
<1>u. UNCHANGED <<window, advanceMu, samples>>
  BY DEF Within, clear, UnsetSlot, ResetIndex, Reserve, Store, ReadSize, appendDurations,
         Sort, ReturnSnapshot, ring
<1>a. Added
  BY <1>u, NothingAdded
<1>o. ASSUME Alone(g), NEW h \in Goroutines \ {g} PROVE PlaceOf(h)'
  BY <1>o, <1>u, <1>a, <1>t, PlaceFrame DEF Alone, Places
<1>p. PlaceOf(g)
  BY DEF Places
<1>1. CASE clear(g)
  <2>1. Alone(g) /\ pc'[g] = "unset" /\ cursor'[g] = 0 /\ limit'[g] = size
        /\ op'[g] = op[g] /\ mine'[g] = mine[g] /\ sample'[g] = sample[g] /\ pc[g] = "clear"
    BY <1>1 DEF clear, Goto, used, Alone, Same, Types
  <2>2. Types'
    BY <1>1, <1>t, SizeBound DEF Types, clear, Goto, used, bucket, ring, Locations
  <2>3. PlaceOf(g)'
    BY <1>p, <1>u, <1>t, <2>1, SizeBound DEF PlaceOf
  <2>4. QED
    BY <1>u, <1>a, <1>o, <2>1, <2>2, <2>3 DEF Places
<1>2. CASE UnsetSlot(g)
  <2>1. Alone(g) /\ pc'[g] = "unset" /\ cursor'[g] = cursor[g] + 1 /\ limit'[g] = limit[g]
        /\ op'[g] = op[g] /\ mine'[g] = mine[g] /\ sample'[g] = sample[g] /\ pc[g] = "unset"
        /\ cursor[g] < limit[g]
    BY <1>2 DEF UnsetSlot, Alone, Same, Types
  <2>a. cursor[g] \in Slots
    BY <1>p, <1>t, <2>1 DEF PlaceOf, Slots
  <2>b. DOMAIN durationsSomeInvalid' = Slots /\ cursor' \in [Goroutines -> Nat]
    BY <1>2, <1>t DEF UnsetSlot, Types
  <2>c. from' \in [Slots -> 0 .. Len(samples)]
    BY <1>2, <1>t, <2>a DEF UnsetSlot, Types
  <2>2. Types'
    BY <1>2, <2>b, <2>c DEF Types, UnsetSlot, ring
  <2>3. PlaceOf(g)'
    BY <1>p, <1>u, <1>t, <2>1 DEF PlaceOf
  <2>4. QED
    BY <1>u, <1>a, <1>o, <2>1, <2>2, <2>3 DEF Places
<1>3. CASE ResetIndex(g)
  <2>0. /\ pc[g] = "unset" /\ currentIndex' = 0 /\ UNCHANGED <<durationsSomeInvalid, from>>
    BY <1>3 DEF ResetIndex
  <2>1. CASE advanceMu = g
    <3>1. pc' = [pc EXCEPT ![g] = "publish"]
          /\ UNCHANGED <<op, mine, sample, cursor, limit, ret, seen>>
      BY <1>3, <2>1 DEF ResetIndex, Goto, locals
    <3>2. Alone(g) /\ pc'[g] = "publish"
      BY <3>1 DEF Alone, Same, Types
    <3>3. Types'
      BY <3>1, <2>0, <1>u DEF Types, Locations
    <3>4. PlaceOf(g)'
      BY <1>p, <1>u, <1>t, <2>1, <3>1, <3>2 DEF PlaceOf
    <3>5. QED
      BY <1>u, <1>a, <1>o, <3>2, <3>3, <3>4 DEF Places
  <2>2. CASE advanceMu # g
    <3>1. Return(g)
      BY <1>3, <2>2 DEF ResetIndex
    <3>2. Types'
      BY <2>0, <3>1, <1>u, ReturnTypes DEF Types
    <3>3. PlaceOf(g)'
      BY <1>u, <1>t, <2>2, <3>1, ReturnTypes DEF PlaceOf
    <3>4. QED
      BY <1>u, <1>a, <1>o, <3>1, <3>2, <3>3, ReturnTypes DEF Places
  <2>3. QED
    BY <2>1, <2>2
<1>4. CASE Reserve(g)
  <2>0. arrayIndex(currentIndex) \in Slots /\ arrayIndex(currentIndex) \in Nat
    BY <1>t, ArrayIndex
  <2>1. Alone(g) /\ pc'[g] = "store" /\ cursor'[g] = arrayIndex(currentIndex)
        /\ op'[g] = op[g] /\ mine'[g] = mine[g] /\ sample'[g] = sample[g] /\ pc[g] = "reserve"
    BY <1>4 DEF Reserve, Goto, Alone, Same, Types
  <2>2. Types'
    BY <1>4, <1>t, <2>0 DEF Types, Reserve, Goto, ring, Locations
  <2>3. PlaceOf(g)'
    BY <1>p, <1>u, <1>t, <2>0, <2>1 DEF PlaceOf
  <2>4. QED
    BY <1>u, <1>a, <1>o, <2>1, <2>2, <2>3 DEF Places
<1>5. CASE Store(g)
  <2>1. Return(g) /\ pc[g] = "store" /\ cursor[g] \in Slots
    BY <1>5, <1>p DEF Store, PlaceOf
  <2>2. DOMAIN durationsSomeInvalid' = Slots /\ currentIndex' = currentIndex
        /\ from' \in [Slots -> 0 .. Len(samples)]
    BY <1>5, <1>t, <2>1 DEF Store, Types
  <2>3. Types'
    BY <2>1, <2>2, <1>u, ReturnTypes DEF Types
  <2>4. PlaceOf(g)'
    BY <1>p, <1>u, <1>t, <2>1, ReturnTypes DEF PlaceOf
  <2>5. QED
    BY <1>u, <1>a, <1>o, <2>1, <2>3, <2>4, ReturnTypes DEF Places
<1>6. CASE ReadSize(g)
  <2>1. Alone(g) /\ pc'[g] = "append" /\ cursor'[g] = 0 /\ limit'[g] = size
        /\ op'[g] = op[g] /\ mine'[g] = mine[g] /\ sample'[g] = sample[g] /\ pc[g] = "size"
    BY <1>6 DEF ReadSize, Goto, Alone, Same, Types
  <2>2. Types'
    BY <1>6, <1>t, SizeBound DEF Types, ReadSize, Goto, bucket, ring, Locations
  <2>3. PlaceOf(g)'
    BY <1>p, <1>u, <1>t, <2>1, SizeBound DEF PlaceOf
  <2>4. QED
    BY <1>u, <1>a, <1>o, <2>1, <2>2, <2>3 DEF Places
<1>7. CASE appendDurations(g)
  <2>1. Alone(g) /\ pc'[g] = "append" /\ cursor'[g] = cursor[g] + 1 /\ limit'[g] = limit[g]
        /\ op'[g] = op[g] /\ mine'[g] = mine[g] /\ sample'[g] = sample[g] /\ pc[g] = "append"
        /\ cursor[g] < limit[g]
    BY <1>7 DEF appendDurations, Alone, Same, Types
  <2>2. cursor[g] \in Slots
    BY <1>p, <1>t, <2>1 DEF PlaceOf, Slots
  <2>3. from[cursor[g]] \in 0 .. Len(samples)
    BY <2>2 DEF Types
  <2>4. seen' \in [Goroutines -> SUBSET (0 .. Len(samples))]
    BY <1>7, <2>3 DEF appendDurations, Types
  <2>5. cursor' \in [Goroutines -> Nat]
    BY <1>7, <1>t DEF appendDurations, Types
  <2>6. Types'
    BY <1>7, <2>4, <2>5 DEF Types, appendDurations, bucket, ring
  <2>7. PlaceOf(g)'
    BY <1>p, <1>u, <1>t, <2>1 DEF PlaceOf
  <2>8. QED
    BY <1>u, <1>a, <1>o, <2>1, <2>6, <2>7 DEF Places
<1>8. CASE Sort(g)
  <2>1. Alone(g) /\ pc'[g] = "snapshot"
        /\ op'[g] = op[g] /\ mine'[g] = mine[g] /\ sample'[g] = sample[g] /\ pc[g] = "append"
    BY <1>8 DEF Sort, Goto, Alone, Same, Types
  <2>2. Types'
    BY <1>8, <1>t DEF Types, Sort, Goto, bucket, ring, Locations
  <2>3. PlaceOf(g)'
    BY <1>p, <1>u, <1>t, <2>1 DEF PlaceOf
  <2>4. QED
    BY <1>u, <1>a, <1>o, <2>1, <2>2, <2>3 DEF Places
<1>9. CASE ReturnSnapshot(g)
  <2>1. Return(g) /\ pc[g] = "snapshot" /\ UNCHANGED <<durationsSomeInvalid, currentIndex, from>>
    BY <1>9 DEF ReturnSnapshot, bucket
  <2>2. Types'
    BY <2>1, <1>u, ReturnTypes DEF Types
  <2>3. PlaceOf(g)'
    BY <1>p, <1>u, <1>t, <2>1, ReturnTypes DEF PlaceOf
  <2>4. QED
    BY <1>u, <1>a, <1>o, <2>1, <2>2, <2>3, ReturnTypes DEF Places
<1>10. QED
  BY <1>1, <1>2, <1>3, <1>4, <1>5, <1>6, <1>7, <1>8, <1>9 DEF Within

LEMMA NextCases ==
  ASSUME Next
  PROVE  \E g \in Goroutines :
           \/ \E method \in {"AddDuration", "SnapshotAt", "Reset"} :
                Advance(g, method) \/ rollForward(g, method)
           \/ Publish(g) \/ Within(g)
  BY DEF Next, Within

LEMMA TypePlaceStep ==
  ASSUME Types, Places, [Next]_vars
  PROVE  Types' /\ Places'
<1>1. CASE UNCHANGED vars
  BY <1>1 DEF Types, Places, PlaceOf, vars, bucket, ring, locals
<1>2. CASE Next
  BY <1>2, NextCases, AdvanceTypes, RollTypes, PublishTypes, WithinTypes
<1>3. QED
  BY <1>1, <1>2

-----------------------------------------------------------------------------
(* The slots.                                                              *)

SlotKept(i) ==
  /\ durationsSomeInvalid[i] # unsetDuration => from[i] # 0
  /\ Fresh(i) =>
       /\ i < currentIndex
       /\ samples[from[i]].window >= window
       /\ \A h \in Goroutines :
            /\ pc[h] = "unset" => cursor[h] <= i /\ i < limit[h]
            /\ pc[h] # "publish"

WriterKept(g) ==
  pc[g] = "store" /\ sample[g] \notin late =>
    /\ cursor[g] < currentIndex
    /\ samples[sample[g]].window >= window
    /\ Clearing = {}

LEMMA SlotsParts ==
  SlotsKept <=> (\A i \in Slots : SlotKept(i)) /\ (\A g \in Goroutines : WriterKept(g))
  BY DEF SlotsKept, SlotKept, WriterKept

(* A step that neither touches the bucket nor begins or ends a clear.      *)
LEMMA QuietSlots ==
  ASSUME Types, Places, SlotsKept, NEW g \in Goroutines, Added, Alone(g),
         UNCHANGED <<durationsSomeInvalid, currentIndex, from, window, late>>,
         pc[g] \notin {"unset", "publish", "store"}, pc'[g] \notin {"unset", "publish", "store"}
  PROVE  SlotsKept'
<1>t. /\ Len(samples) \in Nat /\ from \in [Slots -> 0 .. Len(samples)]
      /\ sample \in [Goroutines -> 0 .. Len(samples)]
  BY DEF Types
<1>c. Clearing' = Clearing
  BY DEF Alone, Same, Clearing
<1>1. ASSUME NEW i \in Slots PROVE SlotKept(i)'
  <2>1. SlotKept(i) /\ from[i] \in 0 .. Len(samples)
    BY <1>t, SlotsParts
  <2>2. from[i] # 0 => samples'[from[i]] = samples[from[i]]
    BY <1>t, <2>1 DEF Added
  <2>3. QED
    BY <2>1, <2>2 DEF SlotKept, Fresh, Alone, Same
<1>2. ASSUME NEW h \in Goroutines PROVE WriterKept(h)'
  <2>1. CASE h = g
    BY <2>1 DEF WriterKept
  <2>2. CASE h # g
    <3>1. Same(h) /\ WriterKept(h) /\ sample[h] \in 0 .. Len(samples) /\ PlaceOf(h)
      BY <2>2, <1>t, SlotsParts DEF Alone, Places
    <3>2. pc[h] = "store" => samples'[sample[h]] = samples[sample[h]]
      BY <1>t, <3>1 DEF Added, PlaceOf
    <3>3. QED
      BY <1>c, <3>1, <3>2 DEF WriterKept, Same
  <2>3. QED
    BY <2>1, <2>2
<1>3. QED
  BY <1>1, <1>2 DEF SlotsKept, SlotKept, WriterKept

LEMMA PublishSlots ==
  ASSUME Types, Places, SlotsKept, NEW g \in Goroutines, Publish(g)
  PROVE  SlotsKept'
<1>1. /\ pc[g] = "publish" /\ UNCHANGED <<durationsSomeInvalid, currentIndex, from, sample, late>>
      /\ pc'[g] \in {"reserve", "size", "clear"} /\ \A h \in Goroutines \ {g} : pc'[h] = pc[h]
  <2>1. pc[g] = "publish" /\ UNCHANGED <<durationsSomeInvalid, currentIndex, from, sample, late>>
    BY DEF Publish, bucket
  <2>2. op[g] \in {"AddDuration", "SnapshotAt", "Reset"}
    BY <2>1 DEF Types, Places, PlaceOf
  <2>3. QED
    BY <2>1, <2>2 DEF Publish, Advanced, Goto, Types
<1>2. g \in Clearing
  BY <1>1 DEF Clearing
<1>3. \A i \in Slots : ~Fresh(i)
  BY <1>1 DEF SlotsKept
<1>4. \A h \in Goroutines : pc[h] = "store" => sample[h] \in late
  BY <1>2 DEF SlotsKept
<1>5. \A i \in Slots : ~Fresh(i)' /\ (durationsSomeInvalid'[i] # unsetDuration => from'[i] # 0)
  BY <1>1, <1>3 DEF Fresh, SlotsKept
<1>6. \A h \in Goroutines : pc'[h] = "store" => sample'[h] \in late'
  BY <1>1, <1>4
<1>7. QED
  BY <1>5, <1>6 DEF SlotsKept

LEMMA ClearSlots ==
  ASSUME Types, Places, SlotsKept, NEW g \in Goroutines, clear(g)
  PROVE  SlotsKept'
<1>t. /\ currentIndex \in Nat /\ Size \in Nat /\ Slots \subseteq Nat
  BY SizeAssumption DEF Types, Slots
<1>1. /\ UNCHANGED <<durationsSomeInvalid, currentIndex, from, window, sample, samples>>
      /\ pc[g] = "clear" /\ pc'[g] = "unset" /\ \A h \in Goroutines \ {g} : pc'[h] = pc[h]
      /\ cursor'[g] = 0 /\ limit'[g] = size
      /\ \A h \in Goroutines \ {g} : cursor'[h] = cursor[h] /\ limit'[h] = limit[h]
  BY DEF clear, bucket, ring, used, Goto, Types
<1>2. late' = late \cup {sample[h] : h \in {w \in Goroutines : pc[w] = "store"}}
  BY DEF clear
<1>3. ASSUME NEW i \in Slots PROVE SlotKept(i)'
  <2>1. SlotKept(i)
    BY SlotsParts
  <2>2. Fresh(i)' => Fresh(i)
    BY <1>1, <1>2 DEF Fresh
  <2>3. i \in Nat /\ (i < currentIndex => i < size)
    BY <1>t, SizeBound
  <2>4. Fresh(i)' => 0 <= i /\ i < size
    BY <2>1, <2>2, <2>3 DEF SlotKept
  <2>5. QED
    BY <1>1, <2>1, <2>2, <2>4 DEF SlotKept
<1>4. \A h \in Goroutines : pc'[h] = "store" => sample'[h] \in late'
  BY <1>1, <1>2
<1>5. QED
  BY <1>3, <1>4 DEF SlotsKept, SlotKept

LEMMA UnsetSlots ==
  ASSUME Types, Places, SlotsKept, NEW g \in Goroutines, UnsetSlot(g)
  PROVE  SlotsKept'
<1>1. /\ UNCHANGED <<currentIndex, window, late, sample, samples, pc, limit>>
      /\ pc[g] = "unset" /\ cursor[g] < limit[g] /\ cursor[g] \in Nat
      /\ cursor'[g] = cursor[g] + 1
      /\ \A h \in Goroutines \ {g} : cursor'[h] = cursor[h]
  BY DEF UnsetSlot, ring, Types
<1>2. /\ durationsSomeInvalid' = [durationsSomeInvalid EXCEPT ![cursor[g]] = unsetDuration]
      /\ from' = [from EXCEPT ![cursor[g]] = 0]
      /\ DOMAIN durationsSomeInvalid = Slots /\ DOMAIN from = Slots
  BY DEF UnsetSlot, Types
<1>3. ASSUME NEW i \in Slots PROVE SlotKept(i)'
  <2>1. SlotKept(i) /\ i \in Int
    BY SizeAssumption, SlotsParts DEF Slots
  <2>2. CASE i = cursor[g]
    BY <1>2, <2>2 DEF SlotKept, Fresh
  <2>3. CASE i # cursor[g]
    <3>1. durationsSomeInvalid'[i] = durationsSomeInvalid[i] /\ from'[i] = from[i]
      BY <1>2, <2>3
    <3>2. Fresh(i)' <=> Fresh(i)
      BY <1>1, <3>1 DEF Fresh
    <3>3. Fresh(i) => cursor[g] + 1 <= i
      BY <1>1, <2>1, <2>3 DEF SlotKept
    <3>4. QED
      BY <1>1, <2>1, <3>1, <3>2, <3>3 DEF SlotKept
  <2>4. QED
    BY <2>2, <2>3
<1>4. g \in Clearing
  BY <1>1 DEF Clearing
<1>5. \A h \in Goroutines : pc'[h] = "store" => sample'[h] \in late'
  BY <1>1, <1>4 DEF SlotsKept
<1>6. QED
  BY <1>3, <1>5 DEF SlotsKept, SlotKept

LEMMA ResetSlots ==
  ASSUME Types, Places, SlotsKept, NEW g \in Goroutines, ResetIndex(g)
  PROVE  SlotsKept'
<1>1. /\ UNCHANGED <<durationsSomeInvalid, from, late>>
      /\ pc[g] = "unset" /\ cursor[g] = limit[g] /\ cursor[g] \in Nat
  BY DEF ResetIndex, Types
<1>2. /\ pc'[g] \in {"publish", "idle"}
      /\ \A h \in Goroutines \ {g} : pc'[h] = pc[h] /\ sample'[h] = sample[h]
  <2>1. CASE advanceMu = g
    BY <2>1 DEF ResetIndex, Goto, locals, Types
  <2>2. CASE advanceMu # g
    BY <2>2, ReturnTypes DEF ResetIndex, Alone, Same
  <2>3. QED
    BY <2>1, <2>2
<1>3. \A i \in Slots : i \in Int /\ ~Fresh(i)
  BY <1>1, SizeAssumption DEF SlotsKept, Slots
<1>4. \A i \in Slots : ~Fresh(i)' /\ (durationsSomeInvalid'[i] # unsetDuration => from'[i] # 0)
  BY <1>1, <1>3 DEF Fresh, SlotsKept
<1>5. g \in Clearing
  BY <1>1 DEF Clearing
<1>6. \A h \in Goroutines : pc'[h] = "store" => sample'[h] \in late'
  BY <1>1, <1>2, <1>5 DEF SlotsKept
<1>7. QED
  BY <1>4, <1>6 DEF SlotsKept

LEMMA ReserveSlots ==
  ASSUME Types, Places, SlotsKept, NEW g \in Goroutines, Reserve(g)
  PROVE  SlotsKept'
<1>t. currentIndex \in Nat /\ window \in Nat /\ Slots \subseteq Int /\ cursor \in [Goroutines -> Nat]
  BY SizeAssumption DEF Types, Slots
<1>1. /\ UNCHANGED <<durationsSomeInvalid, from, window, sample, samples, limit>>
      /\ currentIndex' = currentIndex + 1 /\ late \subseteq late'
      /\ pc[g] = "reserve" /\ pc'[g] = "store" /\ \A h \in Goroutines \ {g} : pc'[h] = pc[h]
      /\ cursor'[g] = arrayIndex(currentIndex)
      /\ \A h \in Goroutines \ {g} : cursor'[h] = cursor[h]
  BY DEF Reserve, Goto, ring, Types
<1>2. Clearing' = Clearing
  BY <1>1 DEF Clearing
<1>3. ASSUME NEW i \in Slots PROVE SlotKept(i)'
  <2>1. SlotKept(i)
    BY SlotsParts
  <2>2. Fresh(i)' => Fresh(i)
    BY <1>1 DEF Fresh
  <2>3. i < currentIndex => i < currentIndex'
    BY <1>1, <1>t
  <2>4. QED
    BY <1>1, <2>1, <2>2, <2>3 DEF SlotKept
<1>4. ASSUME NEW h \in Goroutines \ {g} PROVE WriterKept(h)'
  <2>1. WriterKept(h) /\ cursor[h] \in Nat
    BY <1>t, SlotsParts
  <2>2. QED
    BY <1>1, <1>2, <1>t, <2>1 DEF WriterKept
<1>5. WriterKept(g)'
  <2>1. SUFFICES ASSUME sample[g] \notin late'
                 PROVE  /\ cursor'[g] < currentIndex' /\ Clearing = {}
                        /\ samples[sample[g]].window >= window
    BY <1>1, <1>2 DEF WriterKept
  <2>2. Clearing = {} /\ mine[g] = window
    BY <2>1 DEF Reserve
  <2>3. samples[sample[g]].window = window
    BY <1>1, <2>2 DEF Places, PlaceOf
  <2>4. arrayIndex(currentIndex) \in Nat /\ arrayIndex(currentIndex) <= currentIndex
    BY <1>t, ArrayIndex
  <2>5. QED
    BY <1>1, <1>t, <2>2, <2>3, <2>4
<1>6. QED
  BY <1>3, <1>4, <1>5 DEF SlotsKept, SlotKept, WriterKept

LEMMA StoreSlots ==
  ASSUME Types, Places, SlotsKept, NEW g \in Goroutines, Store(g)
  PROVE  SlotsKept'
<1>1. /\ UNCHANGED <<currentIndex, window, samples, late>> /\ Return(g)
      /\ pc[g] = "store" /\ cursor[g] \in Slots /\ sample[g] # 0
  BY DEF Store, ring, Places, PlaceOf
<1>2. Alone(g) /\ pc'[g] = "idle"
  BY <1>1, ReturnTypes
<1>3. Clearing' = Clearing
  BY <1>1, <1>2 DEF Clearing, Alone, Same
<1>4. /\ durationsSomeInvalid' = [durationsSomeInvalid EXCEPT
           ![cursor[g]] = encodeDuration(samples[sample[g]].duration)]
      /\ from' = [from EXCEPT ![cursor[g]] = sample[g]]
      /\ DOMAIN durationsSomeInvalid = Slots /\ DOMAIN from = Slots
  BY DEF Store, Types
<1>5. ASSUME NEW i \in Slots PROVE SlotKept(i)'
  <2>1. SlotKept(i) /\ WriterKept(g)
    BY SlotsParts
  <2>2. CASE i = cursor[g]
    <3>1. from'[i] = sample[g]
      BY <1>4, <2>2
    <3>2. SUFFICES ASSUME sample[g] \notin late
                   PROVE  /\ i < currentIndex /\ samples[sample[g]].window >= window
                          /\ \A h \in Goroutines : pc'[h] \notin {"unset", "publish"}
      BY <1>1, <3>1 DEF SlotKept, Fresh
    <3>3. Clearing' = {} /\ i < currentIndex /\ samples[sample[g]].window >= window
      BY <1>1, <1>3, <2>1, <2>2, <3>2 DEF WriterKept
    <3>4. QED
      BY <3>3 DEF Clearing
  <2>3. CASE i # cursor[g]
    <3>1. durationsSomeInvalid'[i] = durationsSomeInvalid[i] /\ from'[i] = from[i]
      BY <1>4, <2>3
    <3>2. Fresh(i)' <=> Fresh(i)
      BY <1>1, <3>1 DEF Fresh
    <3>3. QED
      BY <1>1, <1>2, <2>1, <3>1, <3>2 DEF SlotKept, Alone, Same
  <2>4. QED
    BY <2>2, <2>3
<1>6. ASSUME NEW h \in Goroutines PROVE WriterKept(h)'
  <2>1. WriterKept(h)
    BY SlotsParts
  <2>2. QED
    BY <1>1, <1>2, <1>3, <2>1 DEF WriterKept, Alone, Same
<1>7. QED
  BY <1>5, <1>6 DEF SlotsKept, SlotKept, WriterKept

LEMMA SlotsStep ==
  ASSUME Types, Places, SlotsKept, [Next]_vars
  PROVE  SlotsKept'
<1>1. CASE UNCHANGED vars
  BY <1>1 DEF SlotsKept, Fresh, Clearing, vars, bucket, ring, locals
<1>2. CASE Next
  <2>1. PICK g \in Goroutines :
           \/ \E method \in {"AddDuration", "SnapshotAt", "Reset"} :
                Advance(g, method) \/ rollForward(g, method)
           \/ Publish(g) \/ Within(g)
    BY <1>2, NextCases
  <2>2. ASSUME NEW method \in {"AddDuration", "SnapshotAt", "Reset"}, Advance(g, method)
        PROVE  SlotsKept'
    <3>1. Added /\ Alone(g)
      BY <2>2, AdvanceTypes
    <3>2. UNCHANGED <<durationsSomeInvalid, currentIndex, from, window, late>> /\ pc[g] = "idle"
      BY <2>2 DEF Advance, Enter, bucket, ring
    <3>3. pc'[g] \in {"reserve", "size", "clear"}
      BY <2>2 DEF Advance, Advanced, Goto, Types
    <3>4. QED
      BY <3>1, <3>2, <3>3, QuietSlots
  <2>3. ASSUME NEW method \in {"AddDuration", "SnapshotAt", "Reset"}, rollForward(g, method)
        PROVE  SlotsKept'
    <3>1. Added /\ Alone(g)
      BY <2>3, RollTypes
    <3>2. UNCHANGED <<durationsSomeInvalid, currentIndex, from, window, late>> /\ pc[g] = "idle"
      BY <2>3 DEF rollForward, Enter, bucket
    <3>3. pc'[g] = "clear"
      BY <2>3 DEF rollForward, Goto, Types
    <3>4. QED
      BY <3>1, <3>2, <3>3, QuietSlots
  <2>4. ASSUME ReadSize(g) \/ appendDurations(g) \/ Sort(g) \/ ReturnSnapshot(g)
        PROVE  SlotsKept'
    <3>1. Added /\ Alone(g)
      BY <2>4, WithinTypes DEF Within
    <3>2. /\ UNCHANGED <<durationsSomeInvalid, currentIndex, from, window, late>>
          /\ pc[g] \in {"size", "append", "snapshot"}
      BY <2>4 DEF ReadSize, appendDurations, Sort, ReturnSnapshot, bucket, ring
    <3>3. pc'[g] \in {"append", "snapshot", "idle"}
      BY <2>4 DEF ReadSize, appendDurations, Sort, ReturnSnapshot, Return, Goto, Types
    <3>4. QED
      BY <3>1, <3>2, <3>3, QuietSlots
  <2>5. QED
    BY <2>1, <2>2, <2>3, <2>4, PublishSlots, ClearSlots, UnsetSlots, ResetSlots,
       ReserveSlots, StoreSlots DEF Within
<1>3. QED
  BY <1>1, <1>2

-----------------------------------------------------------------------------
(* What a snapshot has read.                                               *)

SeenOf(g) ==
  /\ \A s \in seen[g] : s # 0 /\ (s \in late \/ samples[s].window >= mine[g])
  /\ pc[g] \notin {"append", "snapshot"} => seen[g] = {}

LEMMA SeenFrame ==
  ASSUME Types, NEW h \in Goroutines, SeenOf(h), Added, late \subseteq late',
         pc'[h] = pc[h], mine'[h] = mine[h], seen'[h] = seen[h]
  PROVE  SeenOf(h)'
<1>1. seen[h] \subseteq 0 .. Len(samples) /\ Len(samples) \in Nat
  BY DEF Types
<1>2. \A s \in seen[h] : s # 0 => samples'[s] = samples[s]
  BY <1>1 DEF Added
<1>3. QED
  BY <1>2 DEF SeenOf

(* The acting goroutine: a call's list is empty until it appends, and it   *)
(* appends what a slot holds.                                              *)
LEMMA SeenActs ==
  ASSUME Types, Places, SlotsKept, SeenKept, NEW g \in Goroutines, Added,
         \/ \E method \in {"AddDuration", "SnapshotAt", "Reset"} :
              Advance(g, method) \/ rollForward(g, method)
         \/ Publish(g) \/ Within(g)
  PROVE  SeenOf(g)'
<1>0. SeenOf(g)
  BY DEF SeenKept, SeenOf
<1>1. CASE \/ \E method \in {"AddDuration", "SnapshotAt", "Reset"} :
                Advance(g, method) \/ rollForward(g, method)
           \/ Publish(g) \/ clear(g) \/ UnsetSlot(g) \/ Reserve(g) \/ ReadSize(g)
  <2>1. pc[g] \in {"idle", "publish", "clear", "unset", "reserve", "size"} /\ UNCHANGED seen
    BY <1>1 DEF Advance, rollForward, Enter, Publish, clear, UnsetSlot, Reserve, ReadSize
  <2>2. QED
    BY <1>0, <2>1 DEF SeenOf
<1>2. CASE ResetIndex(g) \/ Store(g) \/ ReturnSnapshot(g)
  <2>1. CASE Return(g)
    BY <2>1, ReturnTypes DEF SeenOf
  <2>2. CASE ~Return(g)
    <3>1. pc[g] = "unset" /\ UNCHANGED seen
      BY <1>2, <2>2 DEF ResetIndex, Store, ReturnSnapshot, locals
    <3>2. QED
      BY <1>0, <3>1 DEF SeenOf
  <2>3. QED
    BY <2>1, <2>2
<1>3. CASE appendDurations(g)
  <2>1. /\ pc[g] = "append" /\ cursor[g] < limit[g]
        /\ UNCHANGED <<pc, mine, samples, late>>
        /\ seen'[g] = IF durationsSomeInvalid[cursor[g]] = unsetDuration THEN seen[g]
                      ELSE seen[g] \cup {from[cursor[g]]}
    BY <1>3 DEF appendDurations, Types
  <2>2. cursor[g] \in Slots
    BY <2>1, SizeAssumption DEF Types, Places, PlaceOf, Slots
  <2>3. durationsSomeInvalid[cursor[g]] # unsetDuration => from[cursor[g]] # 0
    BY <2>2 DEF SlotsKept
  <2>4. Fresh(cursor[g]) => samples[from[cursor[g]]].window >= window
    BY <2>2 DEF SlotsKept
  <2>5. Fresh(cursor[g]) => samples[from[cursor[g]]].window >= mine[g]
    <3>1. SUFFICES ASSUME Fresh(cursor[g]) PROVE samples[from[cursor[g]]].window >= mine[g]
      OBVIOUS
    <3>2. from[cursor[g]] \in 1 .. Len(samples)
      BY <2>2, <2>3, <3>1 DEF Fresh, Types
    <3>3. samples[from[cursor[g]]].window \in Nat
      BY <3>2, WindowOf
    <3>4. mine[g] <= window /\ mine[g] \in Nat /\ window \in Nat
      BY DEF Types, Places, PlaceOf
    <3>5. QED
      BY <2>4, <3>1, <3>3, <3>4
  <2>6. QED
    BY <1>0, <2>1, <2>3, <2>5 DEF SeenOf, Fresh
<1>4. CASE Sort(g)
  BY <1>0, <1>4 DEF SeenOf, Sort, Goto, Types
<1>5. QED
  BY <1>1, <1>2, <1>3, <1>4 DEF Within

LEMMA SeenStep ==
  ASSUME Types, Places, SlotsKept, SeenKept, [Next]_vars
  PROVE  SeenKept'
<1>1. CASE UNCHANGED vars
  BY <1>1 DEF SeenKept, vars, bucket, ring, locals
<1>2. CASE Next
  <2>1. PICK g \in Goroutines :
           \/ \E method \in {"AddDuration", "SnapshotAt", "Reset"} :
                Advance(g, method) \/ rollForward(g, method)
           \/ Publish(g) \/ Within(g)
    BY <1>2, NextCases
  <2>2. Added /\ Alone(g)
    BY <2>1, AdvanceTypes, RollTypes, PublishTypes, WithinTypes
  <2>3. late \subseteq late'
    BY <2>1 DEF Advance, rollForward, Publish, Within, clear, UnsetSlot, ResetIndex, Reserve,
                Store, ReadSize, appendDurations, Sort, ReturnSnapshot
  <2>4. SeenOf(g)'
    BY <2>1, <2>2, SeenActs
  <2>5. ASSUME NEW h \in Goroutines \ {g} PROVE SeenOf(h)'
    <3>1. SeenOf(h) /\ Same(h)
      BY <2>2 DEF SeenKept, SeenOf, Alone
    <3>2. QED
      BY <2>2, <2>3, <3>1, SeenFrame DEF Same
  <2>6. QED
    BY <2>4, <2>5 DEF SeenKept, SeenOf
<1>3. QED
  BY <1>1, <1>2

-----------------------------------------------------------------------------
(* What a snapshot must not miss.                                          *)

(* A slot holds a sample only while its value is set.                      *)
SetKept == \A i \in Slots : from[i] # 0 => durationsSomeInvalid[i] # unsetDuration

(* A sample that a snapshot must read and that is not excused is in a slot *)
(* until the snapshot has read it, and the loop will reach that slot.      *)
OwedOf(g) ==
  \A s \in owed[g] :
    /\ s # 0
    /\ s \notin late =>
         /\ pc[g] = "size" => \E i \in Slots : from[i] = s
         /\ pc[g] = "append" =>
              s \in seen[g] \/ \E i \in Slots : from[i] = s /\ cursor[g] <= i /\ i < limit[g]
         /\ pc[g] = "snapshot" => s \in seen[g]

OwedKept == SetKept /\ DOMAIN owed = Goroutines /\ \A g \in Goroutines : OwedOf(g)

(* The sentinel: no duration is encoded as unsetDuration, the greatest     *)
(* one, whose code wraps around, included.                                 *)
LEMMA NeverSentinel ==
  ASSUME NEW d \in Durations
  PROVE  encodeDuration(d) # unsetDuration
<1> DEFINE half == 2^(Width - 1)
           x == (IF d < 0 THEN 0 ELSE d) + 1
<1>1. half \in Nat /\ half > 0 /\ 2^Width = 2 * half
  BY WidthAssumption
<1>2. d \in Int /\ d <= half - 1
  BY <1>1, DurationsAssumption
<1>3. x \in Nat /\ x > 0 /\ x <= half
  BY <1>1, <1>2
<1>4. encodeDuration(d) = ((x + half) % (2 * half)) - half
  BY <1>1 DEF encodeDuration, Wrap
<1> HIDE DEF half, x
<1>5. CASE x = half
  <2>1. (x + half) % (2 * half) = 0
    BY <1>1, <1>5
  <2>2. QED
    BY <1>1, <1>4, <2>1 DEF unsetDuration
<1>6. CASE x < half
  <2>1. x + half \in 0 .. 2 * half - 1
    BY <1>1, <1>3, <1>6
  <2>2. (x + half) % (2 * half) = x + half
    BY <1>1, <2>1
  <2>3. QED
    BY <1>1, <1>3, <1>4, <2>2 DEF unsetDuration
<1>7. QED
  BY <1>1, <1>3, <1>5, <1>6

LEMMA OwedFrame ==
  ASSUME NEW h \in Goroutines, OwedOf(h), Same(h), late \subseteq late',
         owed'[h] \subseteq owed[h],
         \A s \in owed'[h] : \A i \in Slots : from[i] = s => from'[i] = s
  PROVE  OwedOf(h)'
<1>1. SUFFICES ASSUME NEW s \in owed'[h]
               PROVE  /\ s # 0
                      /\ s \notin late' =>
                           /\ pc'[h] = "size" => \E i \in Slots : from'[i] = s
                           /\ pc'[h] = "append" =>
                                s \in seen'[h] \/ \E i \in Slots : from'[i] = s
                                                    /\ cursor'[h] <= i /\ i < limit'[h]
                           /\ pc'[h] = "snapshot" => s \in seen'[h]
  BY DEF OwedOf
<1>2. s \in owed[h] /\ s # 0 /\ (s \notin late' => s \notin late)
  BY <1>1 DEF OwedOf
<1>3. s \notin late /\ pc[h] = "size" => \E i \in Slots : from'[i] = s
  BY <1>1, <1>2 DEF OwedOf
<1>4. s \notin late /\ pc[h] = "append" =>
        s \in seen[h] \/ \E i \in Slots : from'[i] = s /\ cursor[h] <= i /\ i < limit[h]
  BY <1>1, <1>2 DEF OwedOf
<1>5. s \notin late /\ pc[h] = "snapshot" => s \in seen[h]
  BY <1>2 DEF OwedOf
<1>6. QED
  BY <1>2, <1>3, <1>4, <1>5 DEF Same

(* Calls begin: a snapshot is owed what the slots hold.                    *)
LEMMA OwedBegins ==
  ASSUME Types, OwedKept, NEW g \in Goroutines, NEW method, NEW w,
         method \in {"AddDuration", "SnapshotAt", "Reset"},
         Advanced(g, method, w), Alone(g),
         UNCHANGED <<durationsSomeInvalid, from, late>>
  PROVE  OwedKept'
<1>1. /\ DOMAIN owed' = Goroutines /\ \A h \in Goroutines \ {g} : owed'[h] = owed[h]
      /\ owed'[g] \subseteq {from[i] : i \in Slots} \ {0}
  BY DEF Advanced, OwedKept
<1>2. pc'[g] \in {"reserve", "size", "clear"}
  BY DEF Advanced, Goto, Types
<1>3. OwedOf(g)'
  BY <1>1, <1>2 DEF OwedOf
<1>4. ASSUME NEW h \in Goroutines \ {g} PROVE OwedOf(h)'
  BY <1>1, OwedFrame DEF Alone, OwedKept
<1>5. SetKept'
  BY DEF OwedKept, SetKept
<1>6. QED
  BY <1>1, <1>3, <1>4, <1>5 DEF OwedKept

(* Steps that are not a snapshot's own, and leave the slots alone.         *)
LEMMA OwedQuiet ==
  ASSUME Types, OwedKept, NEW g \in Goroutines, Alone(g), late \subseteq late',
         UNCHANGED <<durationsSomeInvalid, from, owed>>,
         pc'[g] \notin {"size", "append", "snapshot"}
  PROVE  OwedKept'
<1>1. OwedOf(g)'
  BY DEF OwedOf, OwedKept
<1>2. ASSUME NEW h \in Goroutines \ {g} PROVE OwedOf(h)'
  BY OwedFrame DEF Alone, OwedKept
<1>3. QED
  BY <1>1, <1>2 DEF OwedKept, SetKept

(* A slot changes hands: what it held is owed no more.                     *)
LEMMA OwedForgets ==
  ASSUME Types, OwedKept, NEW g \in Goroutines, Alone(g), UNCHANGED late,
         NEW i \in Slots, NEW id \in Nat, Forget(from[i]),
         from' = [from EXCEPT ![i] = id], SetKept',
         pc'[g] \notin {"size", "append", "snapshot"}
  PROVE  OwedKept'
<1>1. DOMAIN owed' = Goroutines /\ \A h \in Goroutines : owed'[h] = owed[h] \ {from[i]}
  BY DEF Forget
<1>2. \A j \in Slots : j # i => from'[j] = from[j]
  BY DEF Types
<1>3. OwedOf(g)'
  BY <1>1 DEF OwedOf, OwedKept
<1>4. ASSUME NEW h \in Goroutines \ {g} PROVE OwedOf(h)'
  <2>1. \A s \in owed'[h] : \A j \in Slots : from[j] = s => from'[j] = s
    BY <1>1, <1>2
  <2>2. QED
    BY <1>1, <2>1, OwedFrame DEF Alone, OwedKept
<1>5. QED
  BY <1>1, <1>3, <1>4 DEF OwedKept

LEMMA OwedStore ==
  ASSUME Types, Places, OwedKept, NEW g \in Goroutines, Store(g) \/ UnsetSlot(g)
  PROVE  OwedKept'
<1>0. Alone(g)
  BY WithinTypes DEF Within
<1>t. /\ DOMAIN durationsSomeInvalid = Slots /\ from \in [Slots -> 0 .. Len(samples)]
      /\ Len(samples) \in Nat
  BY DEF Types
<1>1. CASE Store(g)
  <2>1. /\ cursor[g] \in Slots /\ sample[g] \in 1 .. Len(samples) /\ pc'[g] = "idle"
    <3>1. pc[g] = "store" /\ Return(g)
      BY <1>1 DEF Store
    <3>2. QED
      BY <3>1, <1>t, ReturnTypes DEF Places, PlaceOf, Types
  <2>2. samples[sample[g]].duration \in Durations
    <3>1. samples \in Seq([duration : Durations, window : Nat])
      BY DEF Types
    <3>2. samples[sample[g]] \in [duration : Durations, window : Nat]
      BY <2>1, <3>1, ElementOfSeq
    <3>3. QED
      BY <3>2
  <2>3. encodeDuration(samples[sample[g]].duration) # unsetDuration
    BY <2>2, NeverSentinel
  <2>4. SetKept'
    <3>1. SUFFICES ASSUME NEW i \in Slots, from'[i] # 0
                   PROVE  durationsSomeInvalid'[i] # unsetDuration
      BY DEF SetKept
    <3>2. QED
      BY <1>1, <1>t, <2>1, <2>3, <3>1 DEF Store, OwedKept, SetKept
  <2>5. QED
    <3>1. /\ UNCHANGED late /\ Forget(from[cursor[g]])
          /\ from' = [from EXCEPT ![cursor[g]] = sample[g]]
      BY <1>1 DEF Store
    <3>2. sample[g] \in Nat /\ pc'[g] \notin {"size", "append", "snapshot"}
      BY <1>t, <2>1
    <3>3. QED
      BY <1>0, <2>1, <2>4, <3>1, <3>2, OwedForgets
<1>2. CASE UnsetSlot(g)
  <2>1. cursor[g] \in Slots /\ pc'[g] = "unset"
    BY <1>2, SizeAssumption DEF UnsetSlot, Places, PlaceOf, Slots, Types
  <2>2. SetKept'
    <3>1. SUFFICES ASSUME NEW i \in Slots, from'[i] # 0
                   PROVE  durationsSomeInvalid'[i] # unsetDuration
      BY DEF SetKept
    <3>2. QED
      BY <1>2, <1>t, <2>1, <3>1 DEF UnsetSlot, OwedKept, SetKept
  <2>3. QED
    BY <1>0, <1>2, <2>1, <2>2, OwedForgets DEF UnsetSlot
<1>3. QED
  BY <1>1, <1>2

(* The snapshot's own loop.                                                *)
LEMMA OwedReads ==
  ASSUME Types, Places, SlotsKept, OwedKept, NEW g \in Goroutines,
         ReadSize(g) \/ appendDurations(g) \/ Sort(g)
  PROVE  OwedOf(g)'
<1>0. OwedOf(g) /\ SetKept /\ UNCHANGED <<from, owed, late>> /\ cursor[g] \in Nat
  BY DEF OwedKept, ReadSize, appendDurations, Sort, bucket, Types
<1>s. Slots \subseteq Nat
  BY SizeAssumption DEF Slots
<1>1. CASE ReadSize(g)
  <2>1. pc[g] = "size" /\ pc'[g] = "append" /\ cursor'[g] = 0 /\ limit'[g] = size
    BY <1>1 DEF ReadSize, Goto, Types
  <2>2. ASSUME NEW s \in owed[g], s \notin late
        PROVE  \E i \in Slots : from[i] = s /\ 0 <= i /\ i < size
    <3>1. PICK i \in Slots : from[i] = s
      BY <1>0, <2>1, <2>2 DEF OwedOf
    <3>2. Fresh(i)
      BY <1>0, <2>2, <3>1 DEF OwedOf, SetKept, Fresh
    <3>3. i < currentIndex
      BY <3>2 DEF SlotsKept
    <3>4. 0 <= i /\ i < size
      BY <1>s, <3>3, SizeBound
    <3>5. QED
      BY <3>1, <3>4
  <2>3. QED
    BY <1>0, <2>1, <2>2 DEF OwedOf
<1>2. CASE appendDurations(g)
  <2>1. /\ pc[g] = "append" /\ pc'[g] = "append" /\ cursor'[g] = cursor[g] + 1
        /\ limit'[g] = limit[g]
        /\ seen'[g] = IF durationsSomeInvalid[cursor[g]] = unsetDuration THEN seen[g]
                      ELSE seen[g] \cup {from[cursor[g]]}
    BY <1>2 DEF appendDurations, Types
  <2>2. ASSUME NEW s \in owed[g], s \notin late
        PROVE  s \in seen'[g] \/ \E i \in Slots : from[i] = s /\ cursor[g] + 1 <= i /\ i < limit[g]
    <3>1. s # 0 /\ (s \in seen[g] \/ \E i \in Slots : from[i] = s /\ cursor[g] <= i /\ i < limit[g])
      BY <1>0, <2>1, <2>2 DEF OwedOf
    <3>2. CASE s \in seen[g]
      BY <2>1, <3>2
    <3>3. ASSUME NEW i \in Slots, from[i] = s, cursor[g] <= i, i < limit[g]
          PROVE  s \in seen'[g] \/ cursor[g] + 1 <= i
      <4>1. CASE i = cursor[g]
        BY <1>0, <2>1, <3>1, <3>3, <4>1 DEF SetKept
      <4>2. CASE i # cursor[g]
        BY <1>0, <1>s, <3>3, <4>2
      <4>3. QED
        BY <4>1, <4>2
    <3>4. QED
      BY <3>1, <3>2, <3>3
  <2>3. QED
    BY <1>0, <2>1, <2>2 DEF OwedOf
<1>3. CASE Sort(g)
  <2>1. /\ pc[g] = "append" /\ pc'[g] = "snapshot" /\ cursor[g] = limit[g]
        /\ seen'[g] = seen[g]
    BY <1>3 DEF Sort, Goto, Types
  <2>2. ASSUME NEW s \in owed[g], s \notin late
        PROVE  s \in seen[g]
    <3>1. s \in seen[g] \/ \E i \in Slots : from[i] = s /\ cursor[g] <= i /\ i < limit[g]
      BY <1>0, <2>1, <2>2 DEF OwedOf
    <3>2. \A i \in Slots : ~(cursor[g] <= i /\ i < limit[g])
      BY <1>0, <1>s, <2>1
    <3>3. QED
      BY <3>1, <3>2
  <2>3. QED
    BY <1>0, <2>1, <2>2 DEF OwedOf
<1>4. QED
  BY <1>1, <1>2, <1>3

LEMMA OwedStep ==
  ASSUME Types, Places, SlotsKept, OwedKept, [Next]_vars
  PROVE  OwedKept'
<1>1. CASE UNCHANGED vars
  BY <1>1 DEF OwedKept, SetKept, OwedOf, vars, bucket, ring, locals
<1>2. CASE Next
  <2>1. PICK g \in Goroutines :
           \/ \E method \in {"AddDuration", "SnapshotAt", "Reset"} :
                Advance(g, method) \/ rollForward(g, method)
           \/ Publish(g) \/ Within(g)
    BY <1>2, NextCases
  <2>2. Alone(g)
    BY <2>1, AdvanceTypes, RollTypes, PublishTypes, WithinTypes
  <2>3. ASSUME NEW method \in {"AddDuration", "SnapshotAt", "Reset"}, Advance(g, method)
        PROVE  OwedKept'
    BY <2>2, <2>3, OwedBegins DEF Advance, bucket
  <2>4. ASSUME NEW method \in {"AddDuration", "SnapshotAt", "Reset"}, rollForward(g, method)
        PROVE  OwedKept'
    <3>1. pc'[g] = "clear" /\ UNCHANGED <<durationsSomeInvalid, from, owed, late>>
      BY <2>4 DEF rollForward, Goto, Types, bucket
    <3>2. QED
      BY <2>2, <3>1, OwedQuiet
  <2>5. CASE Publish(g)
    <3>1. op[g] \in {"AddDuration", "SnapshotAt", "Reset"}
      BY <2>5 DEF Publish, Places, PlaceOf, Types
    <3>2. /\ Advanced(g, op[g], window + 1) /\ UNCHANGED <<durationsSomeInvalid, from, late>>
      BY <2>5 DEF Publish, bucket
    <3>3. QED
      BY <2>2, <3>1, <3>2, OwedBegins
  <2>6. CASE clear(g) \/ Reserve(g) \/ ResetIndex(g)
    <3>1. late \subseteq late' /\ UNCHANGED <<durationsSomeInvalid, from, owed>>
      BY <2>6 DEF clear, Reserve, ResetIndex, bucket
    <3>2. pc'[g] \in {"unset", "store", "publish", "idle"}
      BY <2>6 DEF clear, Reserve, ResetIndex, Return, Goto, Types
    <3>3. QED
      BY <2>2, <3>1, <3>2, OwedQuiet
  <2>7. CASE ReadSize(g) \/ appendDurations(g) \/ Sort(g)
    <3>1. UNCHANGED <<durationsSomeInvalid, from, owed, late>>
      BY <2>7 DEF ReadSize, appendDurations, Sort, bucket
    <3>2. OwedOf(g)'
      BY <2>7, OwedReads
    <3>3. ASSUME NEW h \in Goroutines \ {g} PROVE OwedOf(h)'
      BY <2>2, <3>1, OwedFrame DEF Alone, OwedKept
    <3>4. QED
      BY <3>1, <3>2, <3>3 DEF OwedKept, SetKept
  <2>8. CASE ReturnSnapshot(g)
    <3>1. UNCHANGED <<durationsSomeInvalid, from, late>> /\ owed' = [owed EXCEPT ![g] = {}]
      BY <2>8 DEF ReturnSnapshot, bucket
    <3>2. /\ DOMAIN owed' = Goroutines /\ owed'[g] = {}
          /\ \A h \in Goroutines \ {g} : owed'[h] = owed[h]
      BY <3>1 DEF OwedKept
    <3>3. OwedOf(g)'
      BY <3>2 DEF OwedOf
    <3>4. ASSUME NEW h \in Goroutines \ {g} PROVE OwedOf(h)'
      BY <2>2, <3>1, <3>2, OwedFrame DEF Alone, OwedKept
    <3>5. QED
      BY <3>1, <3>2, <3>3, <3>4 DEF OwedKept, SetKept
  <2>9. QED
    BY <2>1, <2>3, <2>4, <2>5, <2>6, <2>7, <2>8, OwedStore DEF Within
<1>3. QED
  BY <1>1, <1>2

-----------------------------------------------------------------------------
(* What a snapshot says: durations come back as they were added, and the   *)
(* percentiles of a sorted list are in order.                              *)

(* The duration that is kept of sample s.                                  *)
Clamped(s) == IF samples[s].duration < 0 THEN 0 ELSE samples[s].duration

(* Room for the sentinel is made by counting on by one, and the greatest   *)
(* duration wraps around: decodeDuration finds all of them again.          *)
LEMMA RoundTrip ==
  ASSUME NEW d \in Durations
  PROVE  decodeDuration(encodeDuration(d)) = IF d < 0 THEN 0 ELSE d
<1> DEFINE half == 2^(Width - 1)
           c == IF d < 0 THEN 0 ELSE d
           v == encodeDuration(d)
<1>1. half \in Nat /\ half > 0 /\ 2^Width = 2 * half
  BY WidthAssumption
<1>2. d \in Int /\ d <= half - 1
  BY <1>1, DurationsAssumption
<1>3. c \in Nat /\ c <= half - 1
  BY <1>1, <1>2
<1>4. v = ((c + 1 + half) % (2 * half)) - half
  BY <1>1 DEF encodeDuration, Wrap
<1>5. decodeDuration(v) = ((v - 1 + half) % (2 * half)) - half
  BY <1>1 DEF decodeDuration, Wrap
<1> HIDE DEF half, c, v
<1>6. CASE c = half - 1
  <2>1. (c + 1 + half) % (2 * half) = 0
    BY <1>1, <1>6
  <2>2. v = -half
    BY <1>1, <1>4, <2>1
  <2>3. v - 1 + half = -1
    BY <1>1, <2>2
  <2>4. (-1) % (2 * half) = 2 * half - 1
    BY <1>1
  <2>5. decodeDuration(v) = (2 * half - 1) - half
    BY <1>5, <2>3, <2>4
  <2>6. decodeDuration(v) = c
    BY <1>1, <1>6, <2>5
  <2>7. QED
    BY <2>6 DEF c, v
<1>7. CASE c < half - 1
  <2>1. c + 1 + half \in 0 .. 2 * half - 1
    BY <1>1, <1>3, <1>7
  <2>2. (c + 1 + half) % (2 * half) = c + 1 + half
    BY <1>1, <2>1
  <2>3. v = c + 1
    BY <1>1, <1>3, <1>4, <2>2
  <2>4. v - 1 + half = c + half /\ c + half \in 0 .. 2 * half - 1
    BY <1>1, <1>3, <1>7, <2>3
  <2>5. (c + half) % (2 * half) = c + half
    BY <1>1, <2>4
  <2>6. decodeDuration(v) = c
    BY <1>1, <1>3, <1>5, <2>4, <2>5
  <2>7. QED
    BY <2>6 DEF c, v
<1>8. QED
  BY <1>1, <1>3, <1>6, <1>7

InOrder(s) == \A i, j \in 1 .. Len(s) : i <= j => s[i] <= s[j]

(* The value at x hundredths of the way, as Percentile computes it.        *)
Between(first, second, r) == first + ((second - first) * r) \div 100
At(s, x) == Between(s[x \div 100 + 1], s[(x + 99) \div 100 + 1], x % 100)

LEMMA BetweenBounds ==
  ASSUME NEW a \in Int, NEW b \in Int, a <= b, NEW r \in 0 .. 99
  PROVE  /\ Between(a, b, r) \in Int /\ a <= Between(a, b, r) /\ Between(a, b, r) <= b
<1>1. PICK D \in Nat : D = b - a
  OBVIOUS
<1>2. PICK m \in Int : m = D * r
  OBVIOUS
<1>3. 0 <= m
  BY <1>2
<1>4. m <= 100 * D
  <2>1. D * (100 - r) >= 0
    OBVIOUS
  <2>2. D * (100 - r) = 100 * D - m
    BY <1>2
  <2>3. QED
    BY <1>2, <2>1, <2>2
<1>5. m \div 100 \in Int /\ 0 <= m \div 100 /\ m \div 100 <= D
  BY <1>2, <1>3, <1>4
<1>6. Between(a, b, r) = a + m \div 100
  BY <1>1, <1>2 DEF Between
<1>7. QED
  BY <1>1, <1>5, <1>6

LEMMA BetweenStarts ==
  ASSUME NEW a \in Int, NEW b \in Int
  PROVE  Between(a, b, 0) = a
<1>1. (b - a) * 0 = 0
  OBVIOUS
<1>2. 0 \div 100 = 0
  OBVIOUS
<1>3. QED
  BY <1>1, <1>2 DEF Between

LEMMA BetweenGrows ==
  ASSUME NEW a \in Int, NEW b \in Int, a <= b, NEW r \in 0 .. 99, NEW t \in 0 .. 99, r <= t
  PROVE  Between(a, b, r) <= Between(a, b, t)
<1>1. PICK D \in Nat : D = b - a
  OBVIOUS
<1>2. PICK m \in Int : m = D * r
  OBVIOUS
<1>3. PICK n \in Int : n = D * t
  OBVIOUS
<1>4. m <= n
  <2>1. D * (t - r) >= 0
    OBVIOUS
  <2>2. D * (t - r) = n - m
    BY <1>2, <1>3
  <2>3. QED
    BY <2>1, <2>2
<1>5. m \div 100 <= n \div 100 /\ m \div 100 \in Int /\ n \div 100 \in Int
  BY <1>4
<1>6. Between(a, b, r) = a + m \div 100 /\ Between(a, b, t) = a + n \div 100
  BY <1>1, <1>2, <1>3 DEF Between
<1>7. QED
  BY <1>5, <1>6

(* Hundredths of the way through a list of n + 1 elements.                 *)
LEMMA Hundredths ==
  ASSUME NEW n \in Nat, NEW x \in 0 .. 100 * n
  PROVE  /\ x \div 100 \in 0 .. n /\ (x + 99) \div 100 \in 0 .. n /\ x % 100 \in 0 .. 99
         /\ x \div 100 <= (x + 99) \div 100
         /\ (x + 99) \div 100 <= x \div 100 + 1
         /\ x % 100 = 0 => (x + 99) \div 100 = x \div 100
         /\ x % 100 # 0 => (x + 99) \div 100 = x \div 100 + 1
         /\ x = 100 * (x \div 100) + (x % 100)
<1>1. PICK a \in Int : a = x \div 100
  OBVIOUS
<1>2. PICK r \in 0 .. 99 : r = x % 100
  OBVIOUS
<1>3. PICK b \in Int : b = (x + 99) \div 100
  OBVIOUS
<1>4. x = 100 * a + r
  BY <1>1, <1>2
<1>5. 100 * b <= x + 99 /\ x + 99 < 100 * b + 100
  BY <1>3
<1>6. a >= 0 /\ a <= n
  BY <1>4
<1>7. a <= b /\ b <= a + 1
  BY <1>4, <1>5
<1>8. (r = 0 => b = a) /\ (r # 0 => b = a + 1)
  BY <1>4, <1>5, <1>7
<1>9. b >= 0 /\ b <= n
  BY <1>4, <1>6, <1>7, <1>8
<1>10. a \in 0 .. n /\ b \in 0 .. n
  BY <1>6, <1>9
<1>a. x \div 100 \in 0 .. n /\ (x + 99) \div 100 \in 0 .. n
  BY <1>1, <1>3, <1>10
<1>b. x % 100 \in 0 .. 99
  BY <1>2
<1>11. x = 100 * (x \div 100) + (x % 100)
  BY <1>1, <1>2, <1>4
<1>12. x \div 100 <= (x + 99) \div 100 /\ (x + 99) \div 100 <= x \div 100 + 1
  BY <1>1, <1>3, <1>7
<1>13. /\ x % 100 = 0 => (x + 99) \div 100 = x \div 100
       /\ x % 100 # 0 => (x + 99) \div 100 = x \div 100 + 1
  BY <1>1, <1>2, <1>3, <1>8
<1>14. QED
  BY <1>a, <1>b, <1>11, <1>12, <1>13

LEMMA AtGrows ==
  ASSUME NEW s \in Seq(Int), InOrder(s), NEW n \in Nat, Len(s) = n + 1,
         NEW x \in 0 .. 100 * n, NEW y \in 0 .. 100 * n, x <= y
  PROVE  At(s, x) <= At(s, y)
<1>1. PICK a \in 0 .. n : a = x \div 100
  BY Hundredths
<1>2. PICK b \in 0 .. n : b = (x + 99) \div 100
  BY Hundredths
<1>3. PICK c \in 0 .. n : c = y \div 100
  BY Hundredths
<1>4. PICK d \in 0 .. n : d = (y + 99) \div 100
  BY Hundredths
<1>5. PICK r \in 0 .. 99 : r = x % 100
  BY Hundredths
<1>6. PICK t \in 0 .. 99 : t = y % 100
  BY Hundredths
<1>7. /\ x = 100 * a + r /\ a <= b /\ b <= a + 1
      /\ (r = 0 => b = a) /\ (r # 0 => b = a + 1)
  BY <1>1, <1>2, <1>5, Hundredths
<1>8. /\ y = 100 * c + t /\ c <= d /\ d <= c + 1
      /\ (t = 0 => d = c) /\ (t # 0 => d = c + 1)
  BY <1>3, <1>4, <1>6, Hundredths
<1>9. /\ At(s, x) = Between(s[a + 1], s[b + 1], r)
      /\ At(s, y) = Between(s[c + 1], s[d + 1], t)
  BY <1>1, <1>2, <1>3, <1>4, <1>5, <1>6 DEF At
<1>10. a + 1 \in 1 .. Len(s) /\ b + 1 \in 1 .. Len(s) /\ c + 1 \in 1 .. Len(s) /\ d + 1 \in 1 .. Len(s)
  BY <1>1
<1>11. s[a + 1] \in Int /\ s[b + 1] \in Int /\ s[c + 1] \in Int /\ s[d + 1] \in Int
  BY <1>10, ElementOfSeq
<1>12. s[a + 1] <= s[b + 1] /\ s[c + 1] <= s[d + 1]
  BY <1>7, <1>8, <1>10 DEF InOrder
<1>13. a <= c
  BY <1>7, <1>8
<1>14. CASE a < c
  <2>1. b <= c
    BY <1>7, <1>14
  <2>2. s[b + 1] <= s[c + 1]
    BY <1>10, <2>1 DEF InOrder
  <2>3. At(s, x) \in Int /\ At(s, x) <= s[b + 1]
    BY <1>9, <1>11, <1>12, BetweenBounds
  <2>4. At(s, y) \in Int /\ s[c + 1] <= At(s, y)
    BY <1>9, <1>11, <1>12, BetweenBounds
  <2>5. QED
    BY <1>11, <2>2, <2>3, <2>4
<1>15. CASE a = c
  <2>1. r <= t
    BY <1>7, <1>8, <1>15
  <2>2. CASE r = 0
    <3>1. At(s, x) = s[a + 1]
      BY <1>9, <1>11, <2>2, BetweenStarts
    <3>2. s[c + 1] <= At(s, y)
      BY <1>9, <1>11, <1>12, BetweenBounds
    <3>3. QED
      BY <1>15, <3>1, <3>2
  <2>3. CASE r # 0
    <3>1. b = d
      BY <1>7, <1>8, <1>15, <2>1, <2>3
    <3>2. QED
      BY <1>9, <1>11, <1>12, <1>15, <2>1, <3>1, BetweenGrows
  <2>4. QED
    BY <2>2, <2>3
<1>16. QED
  BY <1>13, <1>14, <1>15

(* Percentile is At on the whole of its range, its ends included.          *)
LEMMA PercentileAt ==
  ASSUME NEW s \in Seq(Int), NEW n \in Nat, Len(s) = n + 1, NEW p \in 0 .. 100, InOrder(s)
  PROVE  p * n \in 0 .. 100 * n /\ Percentile(s, p) = At(s, p * n)
<1>0. s # <<>> /\ Len(s) - 1 = n
  BY EmptySeq
<1>1. PICK x \in Int : x = p * n
  OBVIOUS
<1>2. x \in 0 .. 100 * n
  <2>1. 0 <= x
    BY <1>1
  <2>2. n * (100 - p) >= 0
    OBVIOUS
  <2>3. n * (100 - p) = 100 * n - x
    BY <1>1
  <2>4. QED
    BY <2>1, <2>2, <2>3
<1>3. CASE p = 0
  <2>1. x = 0
    BY <1>1, <1>3
  <2>2. x \div 100 = 0 /\ (x + 99) \div 100 = 0 /\ x % 100 = 0
    BY <2>1
  <2>3. s[1] \in Int
    BY <1>0, ElementOfSeq
  <2>a. Between(s[1], s[1], 0) = s[1]
    BY <2>3, BetweenStarts
  <2>4. At(s, x) = s[1]
    <3>1. At(s, x) = Between(s[0 + 1], s[0 + 1], 0)
      BY <2>2, Zenon DEF At
    <3>2. QED
      BY <2>a, <3>1
  <2>5. Percentile(s, p) = s[1]
    BY <1>0, <1>3 DEF Percentile
  <2>6. QED
    BY <1>1, <1>2, <2>4, <2>5
<1>4. CASE p = 100
  <2>1. x = 100 * n
    BY <1>1, <1>4
  <2>2. x \div 100 = n /\ (x + 99) \div 100 = n /\ x % 100 = 0
    BY <2>1
  <2>3. s[n + 1] \in Int
    BY <1>0, ElementOfSeq
  <2>a. Between(s[n + 1], s[n + 1], 0) = s[n + 1]
    BY <2>3, BetweenStarts
  <2>4. At(s, x) = s[n + 1]
    BY <2>2, <2>a, Zenon DEF At
  <2>5. Percentile(s, p) = s[n + 1]
    BY <1>0, <1>4 DEF Percentile
  <2>6. QED
    BY <1>1, <1>2, <2>4, <2>5
<1>5. CASE p # 0 /\ p # 100
  <2>1. ~(p <= 0) /\ ~(p >= 100)
    BY <1>5
  <2>2. Percentile(s, p) = At(s, p * n)
    BY <1>0, <2>1 DEF Percentile, At, Between
  <2>3. QED
    BY <1>1, <1>2, <2>2
<1>6. QED
  BY <1>3, <1>4, <1>5

(* Min, Max and the percentiles between them, for every p.                 *)
LEMMA PercentilesGrow ==
  ASSUME NEW s \in Seq(Int), InOrder(s)
  PROVE  /\ Percentile(s, 0) = MinOf(s) /\ Percentile(s, 100) = MaxOf(s)
         /\ \A p, q \in 0 .. 100 : p <= q => Percentile(s, p) <= Percentile(s, q)
<1>1. CASE s = <<>>
  BY <1>1 DEF Percentile, MinOf, MaxOf
<1>2. CASE s # <<>>
  <2>1. Len(s) \in Nat /\ Len(s) # 0
    BY <1>2, EmptySeq
  <2>2. PICK n \in Nat : Len(s) = n + 1
    BY <2>1
  <2>3. Percentile(s, 0) = MinOf(s) /\ Percentile(s, 100) = MaxOf(s)
    BY <1>2 DEF Percentile, MinOf, MaxOf
  <2>4. ASSUME NEW p \in 0 .. 100, NEW q \in 0 .. 100, p <= q
        PROVE  Percentile(s, p) <= Percentile(s, q)
    <3>1. p * n \in 0 .. 100 * n /\ Percentile(s, p) = At(s, p * n)
      BY <2>2, PercentileAt
    <3>2. q * n \in 0 .. 100 * n /\ Percentile(s, q) = At(s, q * n)
      BY <2>2, PercentileAt
    <3>3. p * n <= q * n
      <4>1. n * (q - p) >= 0
        BY <2>4
      <4>2. n * (q - p) = q * n - p * n
        OBVIOUS
      <4>3. p * n \in Int /\ q * n \in Int
        OBVIOUS
      <4>4. QED
        BY <4>1, <4>2, <4>3
    <3>4. QED
      BY <2>2, <3>1, <3>2, <3>3, AtGrows
  <2>5. QED
    BY <2>3, <2>4
<1>3. QED
  BY <1>1, <1>2

(* The durations that a snapshot may hold.                                 *)
Given == {Clamped(s) : s \in Ids}

(* A set slot encodes the duration of the sample in it, a snapshot is made *)
(* of such durations, and it is in order once it is sorted.                *)
EncodedKept ==
  \A i \in Slots : durationsSomeInvalid[i] # unsetDuration =>
    durationsSomeInvalid[i] = encodeDuration(samples[from[i]].duration)

SnapshotOf(g) ==
  /\ ret[g] \in Seq(Given)
  /\ pc[g] = "snapshot" => InOrder(ret[g])

DataKept == EncodedKept /\ ret = [h \in Goroutines |-> ret[h]] /\ \A g \in Goroutines : SnapshotOf(g)

LEMMA SeqOfMore ==
  ASSUME NEW S, NEW T, S \subseteq T
  PROVE  Seq(S) \subseteq Seq(T)
  OBVIOUS

LEMMA DurationOf ==
  ASSUME Types, NEW s \in Ids
  PROVE  samples[s].duration \in Durations /\ Clamped(s) \in Int /\ Durations \subseteq Int
<1>1. samples \in Seq([duration : Durations, window : Nat])
  BY DEF Types
<1>2. samples[s] \in [duration : Durations, window : Nat]
  BY <1>1, ElementOfSeq DEF Ids
<1>3. samples[s].duration \in Durations
  BY <1>2
<1>4. 2^(Width - 1) \in Int
  BY WidthAssumption
<1>5. Durations \subseteq Int
  BY <1>4, DurationsAssumption
<1>6. PICK d \in Int : d = samples[s].duration
  BY <1>3, <1>5
<1>7. Clamped(s) \in Int
  BY <1>6 DEF Clamped
<1>8. QED
  BY <1>3, <1>5, <1>7

LEMMA GivenGrows ==
  ASSUME Types, Added
  PROVE  Given \subseteq Given' /\ Given \subseteq Int
<1>1. ASSUME NEW s \in Ids PROVE s \in Ids' /\ Clamped(s)' = Clamped(s)
  BY DEF Added, Ids, Clamped
<1>2. Given \subseteq Given'
  BY <1>1 DEF Given
<1>3. QED
  BY <1>2, DurationOf DEF Given

(* A snapshot that is left alone is still made of samples that were given. *)
LEMMA SnapshotFrame ==
  ASSUME Types, Added, NEW h \in Goroutines, SnapshotOf(h), ret'[h] = ret[h],
         pc'[h] = pc[h] \/ pc'[h] # "snapshot"
  PROVE  SnapshotOf(h)'
<1>1. Given \subseteq Given'
  BY GivenGrows
<1>2. Seq(Given) \subseteq Seq(Given')
  BY <1>1, SeqOfMore
<1>3. QED
  BY <1>2 DEF SnapshotOf

LEMMA SlotSample ==
  ASSUME Types, SlotsKept, NEW i \in Slots, durationsSomeInvalid[i] # unsetDuration
  PROVE  from[i] \in Ids
<1>1. from[i] \in 0 .. Len(samples) /\ from[i] # 0 /\ Len(samples) \in Nat
  BY DEF Types, SlotsKept
<1>2. QED
  BY <1>1 DEF Ids

LEMMA EncodedFrame ==
  ASSUME Types, SlotsKept, EncodedKept, Added, UNCHANGED <<durationsSomeInvalid, from>>
  PROVE  EncodedKept'
<1>1. SUFFICES ASSUME NEW i \in Slots, durationsSomeInvalid[i] # unsetDuration
               PROVE  durationsSomeInvalid[i] = encodeDuration(samples'[from[i]].duration)
  BY DEF EncodedKept
<1>2. from[i] \in Ids
  BY <1>1, SlotSample
<1>3. samples'[from[i]] = samples[from[i]]
  BY <1>2 DEF Added, Ids
<1>4. QED
  BY <1>1, <1>3 DEF EncodedKept

LEMMA EncodedStore ==
  ASSUME Types, Places, SlotsKept, EncodedKept, NEW g \in Goroutines, Store(g) \/ UnsetSlot(g)
  PROVE  EncodedKept'
<1>t. /\ DOMAIN durationsSomeInvalid = Slots /\ from \in [Slots -> 0 .. Len(samples)]
      /\ samples' = samples
  BY DEF Types, Store, UnsetSlot
<1>1. CASE Store(g)
  <2>1. cursor[g] \in Slots
    BY <1>1 DEF Store, Places, PlaceOf
  <2>2. SUFFICES ASSUME NEW i \in Slots, durationsSomeInvalid'[i] # unsetDuration
                 PROVE  durationsSomeInvalid'[i] = encodeDuration(samples[from'[i]].duration)
    BY <1>t DEF EncodedKept, encodeDuration, Wrap
  <2>3. CASE i = cursor[g]
    BY <1>1, <1>t, <2>1, <2>3 DEF Store
  <2>4. CASE i # cursor[g]
    BY <1>1, <1>t, <2>1, <2>2, <2>4 DEF Store, EncodedKept
  <2>5. QED
    BY <2>3, <2>4
<1>2. CASE UnsetSlot(g)
  <2>1. cursor[g] \in Slots
    BY <1>2, SizeAssumption DEF UnsetSlot, Places, PlaceOf, Slots, Types
  <2>2. SUFFICES ASSUME NEW i \in Slots, durationsSomeInvalid'[i] # unsetDuration
                 PROVE  durationsSomeInvalid'[i] = encodeDuration(samples[from'[i]].duration)
    BY <1>t DEF EncodedKept, encodeDuration, Wrap
  <2>3. i # cursor[g]
    BY <1>2, <1>t, <2>1, <2>2 DEF UnsetSlot
  <2>4. QED
    BY <1>2, <1>t, <2>1, <2>2, <2>3 DEF UnsetSlot, EncodedKept
<1>3. QED
  BY <1>1, <1>2

(* A sorted list has the elements of the list, in order.                   *)
LEMMA SortedInOrder ==
  ASSUME NEW S, S \subseteq Int, NEW s \in Seq(S), NEW t \in SortedDurations(s)
  PROVE  t \in Seq(S) /\ InOrder(t)
<1>1. /\ Len(s) \in Nat /\ DOMAIN s = 1 .. Len(s)
      /\ \A i \in 1 .. Len(s) : s[i] \in S
  BY ElementOfSeq, LenProperties
<1>2. PICK f \in Bijection(DOMAIN s, DOMAIN s) : t = [i \in DOMAIN s |-> s[f[i]]]
  BY DEF SortedDurations
<1>3. \A i, j \in DOMAIN s : i < j => t[i] <= t[j]
  BY DEF SortedDurations
<1>4. f \in [DOMAIN s -> DOMAIN s]
  BY <1>2 DEF Bijection, Injection
<1>5. t \in [1 .. Len(s) -> S]
  BY <1>1, <1>2, <1>4
<1>6. t \in Seq(S) /\ Len(t) = Len(s)
  BY <1>1, <1>5, SeqDef
<1>7. ASSUME NEW i \in 1 .. Len(t), NEW j \in 1 .. Len(t), i <= j PROVE t[i] <= t[j]
  <2>1. t[i] \in Int
    BY <1>5, <1>6
  <2>2. CASE i = j
    BY <2>1, <2>2
  <2>3. CASE i < j
    BY <1>1, <1>3, <1>6, <2>3
  <2>4. QED
    BY <1>1, <1>6, <1>7, <2>2, <2>3
<1>8. QED
  BY <1>6, <1>7 DEF InOrder

(* The snapshot's own loop, its sort and its return.                       *)
LEMMA SnapshotReads ==
  ASSUME Types, Places, SlotsKept, DataKept, NEW g \in Goroutines,
         appendDurations(g) \/ Sort(g)
  PROVE  SnapshotOf(g)' /\ ret' = [h \in Goroutines |-> ret'[h]]
         /\ \A h \in Goroutines \ {g} : ret'[h] = ret[h]
<1>0. /\ ret = [h \in Goroutines |-> ret[h]] /\ ret[g] \in Seq(Given) /\ Given \subseteq Int
      /\ samples' = samples /\ Given' = Given
  <2>1. samples' = samples
    BY DEF appendDurations, Sort
  <2>2. Given \subseteq Int
    BY <2>1, NothingAdded, GivenGrows
  <2>3. Given' = Given
    BY <2>1 DEF Given, Ids, Clamped
  <2>4. QED
    BY <2>1, <2>2, <2>3 DEF DataKept, SnapshotOf
<1>1. CASE appendDurations(g)
  <2> DEFINE i == cursor[g]
             v == durationsSomeInvalid[i]
             r == IF v = unsetDuration THEN ret[g] ELSE Append(ret[g], decodeDuration(v))
  <2>1. /\ ret' = [ret EXCEPT ![g] = r] /\ pc[g] = "append" /\ i < limit[g] /\ pc' = pc
    BY <1>1 DEF appendDurations
  <2>2. i \in Slots
    BY <2>1, SizeAssumption DEF Places, PlaceOf, Slots, Types
  <2>3. ASSUME v # unsetDuration PROVE decodeDuration(v) \in Given
    <3>1. from[i] \in Ids
      BY <2>2, <2>3, SlotSample
    <3>2. v = encodeDuration(samples[from[i]].duration)
      BY <2>2, <2>3 DEF DataKept, EncodedKept
    <3>3. samples[from[i]].duration \in Durations
      BY <3>1, DurationOf
    <3>4. decodeDuration(v) = Clamped(from[i])
      BY <3>2, <3>3, RoundTrip DEF Clamped
    <3>5. QED
      BY <3>1, <3>4 DEF Given
  <2>4. r \in Seq(Given)
    <3>1. CASE v = unsetDuration
      BY <1>0, <3>1
    <3>2. CASE v # unsetDuration
      BY <1>0, <2>3, <3>2, AppendProperties
    <3>3. QED
      BY <3>1, <3>2
  <2> HIDE DEF r
  <2>5. QED
    BY <1>0, <2>1, <2>4 DEF SnapshotOf
<1>2. CASE Sort(g)
  <2>1. PICK t \in SortedDurations(ret[g]) : ret' = [ret EXCEPT ![g] = t]
    BY <1>2 DEF Sort
  <2>2. t \in Seq(Given) /\ InOrder(t)
    BY <1>0, <2>1, SortedInOrder
  <2>3. QED
    BY <1>0, <2>1, <2>2 DEF SnapshotOf
<1>3. QED
  BY <1>1, <1>2

LEMMA DataStep ==
  ASSUME Types, Places, SlotsKept, DataKept, [Next]_vars
  PROVE  DataKept'
<1>1. CASE UNCHANGED vars
  BY <1>1 DEF DataKept, EncodedKept, SnapshotOf, Given, Ids, Clamped, vars, bucket, ring, locals
<1>2. CASE Next
  <2>1. PICK g \in Goroutines :
           \/ \E method \in {"AddDuration", "SnapshotAt", "Reset"} :
                Advance(g, method) \/ rollForward(g, method)
           \/ Publish(g) \/ Within(g)
    BY <1>2, NextCases
  <2>2. Types' /\ Alone(g) /\ Added
    BY <2>1, AdvanceTypes, RollTypes, PublishTypes, WithinTypes
  <2>3. EncodedKept /\ ret = [h \in Goroutines |-> ret[h]] /\ \A h \in Goroutines : SnapshotOf(h)
    BY DEF DataKept
  <2>4. EncodedKept'
    <3>1. CASE Store(g) \/ UnsetSlot(g)
      BY <2>3, <3>1, EncodedStore
    <3>2. CASE ~(Store(g) \/ UnsetSlot(g))
      <4>1. UNCHANGED <<durationsSomeInvalid, from>>
        BY <2>1, <3>2 DEF Within, Advance, rollForward, Publish, clear, ResetIndex, Reserve,
           ReadSize, appendDurations, Sort, ReturnSnapshot, bucket
      <4>2. QED
        BY <2>2, <2>3, <4>1, EncodedFrame
    <3>3. QED
      BY <3>1, <3>2
  <2>5. ASSUME NEW h \in Goroutines \ {g}, ret'[h] = ret[h] PROVE SnapshotOf(h)'
    BY <2>2, <2>3, <2>5, SnapshotFrame DEF Alone, Same
  <2>6. CASE appendDurations(g) \/ Sort(g)
    BY <2>4, <2>5, <2>6, SnapshotReads DEF DataKept
  <2>7. CASE Return(g)
    <3>1. /\ ret' = [h \in Goroutines |-> ret'[h]] /\ ret'[g] = <<>> /\ pc'[g] = "idle"
          /\ \A h \in Goroutines \ {g} : ret'[h] = ret[h]
      BY <2>3, <2>7, ReturnTypes DEF Return
    <3>2. SnapshotOf(g)'
      BY <3>1, EmptySeq DEF SnapshotOf
    <3>3. QED
      BY <2>4, <2>5, <3>1, <3>2 DEF DataKept
  <2>8. CASE ret' = ret /\ pc'[g] # "snapshot"
    <3>1. SnapshotOf(g)'
      BY <2>2, <2>3, <2>8, SnapshotFrame
    <3>2. QED
      BY <2>3, <2>4, <2>5, <2>8, <3>1 DEF DataKept
  <2>9. ASSUME NEW method \in {"AddDuration", "SnapshotAt", "Reset"},
               Advance(g, method) \/ rollForward(g, method)
        PROVE  ret' = ret /\ pc'[g] # "snapshot"
    BY <2>9 DEF Advance, rollForward, Advanced, Goto, Types
  <2>10. ASSUME Publish(g) PROVE ret' = ret /\ pc'[g] # "snapshot"
    <3>1. op[g] \in {"AddDuration", "SnapshotAt", "Reset"}
      BY <2>10 DEF Publish, Places, PlaceOf, Types
    <3>2. QED
      BY <2>10, <3>1 DEF Publish, Advanced, Goto, Types
  <2>11. ASSUME Within(g), ~(appendDurations(g) \/ Sort(g))
         PROVE  Return(g) \/ (ret' = ret /\ pc'[g] # "snapshot")
    BY <2>11 DEF Within, clear, UnsetSlot, ResetIndex, Reserve, Store, ReadSize, ReturnSnapshot,
       Goto, locals, Types
  <2>12. QED
    BY <2>1, <2>6, <2>7, <2>8, <2>9, <2>10, <2>11
<1>3. QED
  BY <1>1, <1>2

-----------------------------------------------------------------------------
(* Types and bounds.  A slot is handed out for a sample at most once: what *)
(* was handed out and what still waits for a slot are samples.             *)

Waiting(g) == sample[g] # 0 /\ pc[g] \in {"clear", "unset", "publish", "reserve"}
Pending == {sample[g] : g \in {h \in Goroutines : Waiting(h)}}

Counted ==
  /\ \A g \in Goroutines : pc[g] = "idle" => sample[g] = 0
  /\ \A g, h \in Goroutines : sample[g] = sample[h] /\ sample[g] # 0 => g = h
  /\ currentIndex + Cardinality(Pending) <= Len(samples)
  /\ Len(samples) <= MaxSamples

(* The rest of TypeOK, beyond Types, DataKept and Counted.                 *)
Bounded ==
  /\ window \in 0 .. MaxWindow
  /\ advanceMu # NoHolder => window < MaxWindow
  /\ samples \in Seq([duration : Durations, window : 0 .. MaxWindow])
  /\ cursor \in [Goroutines -> 0 .. Size] /\ limit \in [Goroutines -> 0 .. Size]
  /\ durationsSomeInvalid \in [Slots -> Ints]
  /\ owed \in [Goroutines -> SUBSET Ids]
  /\ late \subseteq Ids


LEMMA PendingFinite ==
  ASSUME Types
  PROVE  /\ Pending \subseteq Ids /\ IsFiniteSet(Pending) /\ Cardinality(Pending) \in Nat
         /\ Len(samples) \in Nat
<1>1. Len(samples) \in Nat
  BY DEF Types
<1>2. ASSUME NEW s \in Pending PROVE s \in Ids
  <2>1. PICK g \in Goroutines : s = sample[g] /\ sample[g] # 0
    BY <1>2 DEF Pending, Waiting
  <2>2. sample[g] \in 0 .. Len(samples)
    BY DEF Types
  <2>3. QED
    BY <1>1, <2>1, <2>2 DEF Ids
<1>3. IsFiniteSet(Ids)
  BY <1>1, FS_Interval DEF Ids
<1>4. Pending \subseteq Ids
  BY <1>2
<1>5. IsFiniteSet(Pending)
  BY <1>3, <1>4, FS_Subset
<1>6. QED
  BY <1>1, <1>4, <1>5, FS_CardinalityType

(* No sample begins to wait and no slot is handed out.                     *)
LEMMA CountFewer ==
  ASSUME Types, Types', Counted, UNCHANGED samples, currentIndex' <= currentIndex,
         \A h \in Goroutines : Waiting(h)' => Waiting(h),
         \A h \in Goroutines : sample'[h] = sample[h] \/ sample'[h] = 0,
         \A h \in Goroutines : pc'[h] = "idle" => sample'[h] = 0
  PROVE  Counted'
<1>1. Pending' \subseteq Pending
  <2>1. SUFFICES ASSUME NEW h \in Goroutines, Waiting(h)' PROVE sample'[h] \in Pending
    BY DEF Pending
  <2>2. Waiting(h) /\ sample'[h] = sample[h]
    BY <2>1 DEF Waiting
  <2>3. QED
    BY <2>2 DEF Pending
<1>2. IsFiniteSet(Pending) /\ Cardinality(Pending) \in Nat /\ Len(samples) \in Nat
  BY PendingFinite
<1>3. IsFiniteSet(Pending') /\ Cardinality(Pending') <= Cardinality(Pending)
  BY <1>1, <1>2, FS_Subset
<1>4. Cardinality(Pending') \in Nat
  BY <1>3, FS_CardinalityType
<1>5. currentIndex \in Nat /\ currentIndex' \in Nat
  BY DEF Types
<1>6. PICK c \in Nat : c = Cardinality(Pending)
  BY <1>2
<1>7. PICK d \in Nat : d = Cardinality(Pending')
  BY <1>4
<1>8. currentIndex + c <= Len(samples) /\ Len(samples) <= MaxSamples /\ d <= c
  BY <1>3, <1>6, <1>7 DEF Counted
<1>9. currentIndex' + d <= Len(samples)
  BY <1>2, <1>5, <1>8
<1>10. \A g, h \in Goroutines : sample'[g] = sample'[h] /\ sample'[g] # 0 => g = h
  BY DEF Counted
<1>11. QED
  BY <1>7, <1>8, <1>9, <1>10 DEF Counted

(* A call begins.                                                          *)
LEMMA CountBegins ==
  ASSUME Types, Types', Counted, NEW g \in Goroutines, NEW method, NEW w, Enter(g, method, w),
         currentIndex' = currentIndex, pc'[g] \in {"reserve", "size", "clear"}, Alone(g)
  PROVE  Counted'
<1>t. /\ sample \in [Goroutines -> 0 .. Len(samples)] /\ Len(samples) \in Nat
      /\ samples \in Seq([duration : Durations, window : Nat]) /\ currentIndex \in Nat
      /\ pc[g] = "idle" /\ sample[g] = 0
  BY DEF Types, Counted, Enter
<1>1. CASE method # "AddDuration"
  <2>1. UNCHANGED <<samples, sample>>
    BY <1>1 DEF Enter
  <2>2. \A h \in Goroutines : Waiting(h)' => Waiting(h)
    BY <1>t, <2>1 DEF Waiting, Alone, Same
  <2>3. \A h \in Goroutines : pc'[h] = "idle" => sample'[h] = 0
    BY <1>t, <2>1 DEF Counted, Alone, Same
  <2>4. QED
    BY <1>t, <2>1, <2>2, <2>3, CountFewer
<1>2. CASE method = "AddDuration"
  <2> DEFINE n == Len(samples)
  <2>1. n < MaxSamples /\ sample' = [sample EXCEPT ![g] = n + 1]
    BY <1>2 DEF Enter
  <2>2. Len(samples') = n + 1
    <3>1. PICK d \in Durations : samples' = Append(samples, [duration |-> d, window |-> w])
      BY <1>2 DEF Enter
    <3>2. QED
      BY <1>t, <3>1
  <2>3. sample'[g] = n + 1 /\ \A h \in Goroutines \ {g} : sample'[h] = sample[h] /\ pc'[h] = pc[h]
    BY <1>t, <2>1 DEF Alone, Same
  <2>4. Pending' \subseteq Pending \cup {n + 1}
    <3>1. SUFFICES ASSUME NEW h \in Goroutines, Waiting(h)', h # g PROVE sample'[h] \in Pending
      BY <2>3 DEF Pending
    <3>2. Waiting(h) /\ sample'[h] = sample[h]
      BY <2>3, <3>1 DEF Waiting
    <3>3. QED
      BY <3>2 DEF Pending
  <2>5. Pending \subseteq Ids /\ IsFiniteSet(Pending) /\ Cardinality(Pending) \in Nat
    BY PendingFinite
  <2>6. n + 1 \notin Pending
    BY <1>t, <2>5 DEF Ids
  <2>7. IsFiniteSet(Pending \cup {n + 1}) /\ Cardinality(Pending \cup {n + 1}) = Cardinality(Pending) + 1
    BY <2>5, <2>6, FS_AddElement
  <2>8. IsFiniteSet(Pending') /\ Cardinality(Pending') <= Cardinality(Pending \cup {n + 1})
    BY <2>4, <2>7, FS_Subset
  <2>9. Cardinality(Pending') \in Nat
    BY <2>8, FS_CardinalityType
  <2>10. PICK c \in Nat : c = Cardinality(Pending)
    BY <2>5
  <2>11. PICK d \in Nat : d = Cardinality(Pending')
    BY <2>9
  <2>12. currentIndex + c <= n /\ d <= c + 1
    BY <2>7, <2>8, <2>10, <2>11 DEF Counted
  <2>13. currentIndex + d <= n + 1 /\ n + 1 <= MaxSamples
    BY <1>t, <2>1, <2>12, BoundsAssumption
  <2>14. \A h, k \in Goroutines : sample'[h] = sample'[k] /\ sample'[h] # 0 => h = k
    <3>1. \A h \in Goroutines \ {g} : sample'[h] # n + 1
      BY <1>t, <2>3
    <3>2. QED
      BY <2>3, <3>1 DEF Counted
  <2>15. \A h \in Goroutines : pc'[h] = "idle" => sample'[h] = 0
    BY <2>3 DEF Counted
  <2>16. QED
    BY <2>2, <2>11, <2>13, <2>14, <2>15 DEF Counted
<1>3. QED
  BY <1>1, <1>2

(* A slot is handed out: its sample waits no more.                         *)
LEMMA CountReserve ==
  ASSUME Types, Types', Places, Counted, NEW g \in Goroutines, Reserve(g)
  PROVE  Counted'
<1>1. /\ pc[g] = "reserve" /\ pc'[g] = "store" /\ UNCHANGED <<samples, sample>>
      /\ \A h \in Goroutines \ {g} : pc'[h] = pc[h]
      /\ currentIndex' = currentIndex + 1
  BY DEF Types, Reserve, Goto
<1>2. sample[g] # 0 /\ Waiting(g) /\ sample[g] \in Pending
  BY <1>1 DEF Places, PlaceOf, Waiting, Pending
<1>3. Pending' \subseteq Pending \ {sample[g]}
  <2>1. SUFFICES ASSUME NEW h \in Goroutines, Waiting(h)' PROVE sample[h] \in Pending \ {sample[g]}
    BY <1>1 DEF Pending
  <2>2. h # g /\ Waiting(h)
    BY <1>1, <2>1 DEF Waiting
  <2>3. sample[h] # sample[g]
    BY <1>2, <2>2 DEF Counted
  <2>4. QED
    BY <2>2, <2>3 DEF Pending
<1>4. IsFiniteSet(Pending) /\ Cardinality(Pending) \in Nat /\ Len(samples) \in Nat
  BY PendingFinite
<1>5. IsFiniteSet(Pending \ {sample[g]}) /\ Cardinality(Pending \ {sample[g]}) = Cardinality(Pending) - 1
  BY <1>2, <1>4, FS_RemoveElement
<1>6. IsFiniteSet(Pending') /\ Cardinality(Pending') <= Cardinality(Pending \ {sample[g]})
  BY <1>3, <1>5, FS_Subset
<1>7. Cardinality(Pending') \in Nat
  BY <1>6, FS_CardinalityType
<1>8. PICK c \in Nat : c = Cardinality(Pending)
  BY <1>4
<1>9. PICK d \in Nat : d = Cardinality(Pending')
  BY <1>7
<1>10. currentIndex + c <= Len(samples) /\ d <= c - 1 /\ Len(samples) <= MaxSamples
  BY <1>5, <1>6, <1>8, <1>9 DEF Counted
<1>11. currentIndex \in Nat
  BY DEF Types
<1>12. currentIndex' + d <= Len(samples)
  BY <1>1, <1>4, <1>10, <1>11
<1>13. QED
  BY <1>1, <1>9, <1>10, <1>12 DEF Counted

LEMMA CountedStep ==
  ASSUME Types, Types', Places, Counted, [Next]_vars
  PROVE  Counted'
<1>1. CASE UNCHANGED vars
  BY <1>1 DEF Counted, Pending, Waiting, vars, bucket, ring, locals
<1>2. CASE Next
  <2>1. PICK g \in Goroutines :
           \/ \E method \in {"AddDuration", "SnapshotAt", "Reset"} :
                Advance(g, method) \/ rollForward(g, method)
           \/ Publish(g) \/ Within(g)
    BY <1>2, NextCases
  <2>2. Alone(g)
    BY <2>1, AdvanceTypes, RollTypes, PublishTypes, WithinTypes
  <2>3. ASSUME NEW method \in {"AddDuration", "SnapshotAt", "Reset"}, Advance(g, method)
        PROVE  Counted'
    <3>1. Enter(g, method, window) /\ currentIndex' = currentIndex
      BY <2>3 DEF Advance, bucket
    <3>2. pc'[g] \in {"reserve", "size", "clear"}
      BY <2>3 DEF Types, Advance, Advanced, Goto
    <3>3. QED
      BY <2>2, <3>1, <3>2, CountBegins
  <2>4. ASSUME NEW method \in {"AddDuration", "SnapshotAt", "Reset"}, rollForward(g, method)
        PROVE  Counted'
    <3>1. Enter(g, method, window + 1) /\ currentIndex' = currentIndex
      BY <2>4 DEF rollForward, bucket
    <3>2. pc'[g] \in {"reserve", "size", "clear"}
      BY <2>4 DEF Types, rollForward, Goto
    <3>3. QED
      BY <2>2, <3>1, <3>2, CountBegins
  <2>5. ASSUME UNCHANGED <<samples, sample>>, currentIndex' = currentIndex, pc'[g] # "idle",
               pc'[g] \in {"clear", "unset", "publish", "reserve"}
                 => pc[g] \in {"clear", "unset", "publish", "reserve"}
        PROVE  Counted'
    <3>1. \A h \in Goroutines : Waiting(h)' => Waiting(h)
      BY <2>2, <2>5 DEF Waiting, Alone, Same
    <3>2. \A h \in Goroutines : pc'[h] = "idle" => sample'[h] = 0
      BY <2>2, <2>5 DEF Counted, Alone, Same
    <3>3. currentIndex' <= currentIndex
      BY <2>5 DEF Types
    <3>4. QED
      BY <2>5, <3>1, <3>2, <3>3, CountFewer
  <2>6. ASSUME Return(g), UNCHANGED samples, currentIndex' = currentIndex \/ currentIndex' = 0
        PROVE  Counted'
    <3>1. pc'[g] = "idle" /\ sample'[g] = 0
      BY <2>6 DEF Types, Return, Goto
    <3>2. \A h \in Goroutines : Waiting(h)' => Waiting(h)
      BY <2>2, <3>1 DEF Waiting, Alone, Same
    <3>3. \A h \in Goroutines : pc'[h] = "idle" => sample'[h] = 0
      BY <2>2, <3>1 DEF Counted, Alone, Same
    <3>4. currentIndex' <= currentIndex
      BY <2>6 DEF Types
    <3>5. \A h \in Goroutines : sample'[h] = sample[h] \/ sample'[h] = 0
      BY <2>2, <3>1 DEF Alone, Same
    <3>6. QED
      BY <2>6, <3>2, <3>3, <3>4, <3>5, CountFewer
  <2>7. CASE Publish(g)
    <3>1. op[g] \in {"AddDuration", "SnapshotAt", "Reset"}
      BY <2>7 DEF Publish, Places, PlaceOf, Types
    <3>2. /\ UNCHANGED <<samples, sample, currentIndex>> /\ pc[g] = "publish"
          /\ pc'[g] \in {"reserve", "size", "clear"}
      BY <2>7, <3>1 DEF Types, Publish, Advanced, Goto, bucket
    <3>3. QED
      BY <2>5, <3>2
  <2>8. CASE clear(g) \/ UnsetSlot(g) \/ ReadSize(g) \/ appendDurations(g) \/ Sort(g)
    <3>1. UNCHANGED <<samples, sample, currentIndex>>
      BY <2>8 DEF clear, UnsetSlot, ReadSize, appendDurations, Sort, bucket
    <3>2. \/ pc[g] \in {"clear", "unset"} /\ pc'[g] = "unset"
          \/ pc'[g] \in {"append", "snapshot"}
      BY <2>8 DEF Types, clear, UnsetSlot, ReadSize, appendDurations, Sort, Goto
    <3>3. QED
      BY <2>5, <3>1, <3>2
  <2>9. CASE ResetIndex(g)
    <3>1. CASE advanceMu = g
      <4>1. /\ UNCHANGED <<samples, sample>> /\ currentIndex' = 0 /\ pc[g] = "unset"
            /\ pc'[g] = "publish"
        BY <2>9, <3>1 DEF Types, ResetIndex, Goto, locals
      <4>2. \A h \in Goroutines : Waiting(h)' => Waiting(h)
        BY <2>2, <4>1 DEF Waiting, Alone, Same
      <4>3. \A h \in Goroutines : pc'[h] = "idle" => sample'[h] = 0
        BY <2>2, <4>1 DEF Counted, Alone, Same
      <4>4. currentIndex' <= currentIndex
        BY <4>1 DEF Types
      <4>5. QED
        BY <4>1, <4>2, <4>3, <4>4, CountFewer
    <3>2. CASE advanceMu # g
      BY <2>6, <2>9, <3>2 DEF ResetIndex
    <3>3. QED
      BY <3>1, <3>2
  <2>10. CASE Store(g) \/ ReturnSnapshot(g)
    BY <2>6, <2>10 DEF Store, ReturnSnapshot, bucket
  <2>11. QED
    BY <2>1, <2>3, <2>4, <2>7, <2>8, <2>9, <2>10, CountReserve DEF Within
<1>3. QED
  BY <1>1, <1>2

LEMMA WrapType ==
  ASSUME NEW n \in Int PROVE Wrap(n) \in Ints /\ 0 \in Ints
<1> DEFINE half == 2^(Width - 1)
<1>1. half \in Nat /\ half > 0 /\ 2^Width = 2 * half
  BY WidthAssumption
<1>2. Wrap(n) = ((n + half) % (2 * half)) - half /\ Ints = -half .. half - 1
  BY <1>1 DEF Wrap, Ints
<1> HIDE DEF half
<1>3. (n + half) % (2 * half) \in 0 .. 2 * half - 1
  BY <1>1
<1>4. QED
  BY <1>1, <1>2, <1>3

LEMMA EncodedType ==
  ASSUME NEW d \in Durations
  PROVE  encodeDuration(d) \in Ints /\ (IF d < 0 THEN 0 ELSE d) \in Ints
<1>0. 2^(Width - 1) \in Nat \ {0}
  BY WidthAssumption
<1>1. d \in Ints /\ Ints \subseteq Int
  BY <1>0, DurationsAssumption DEF Ints
<1>2. 0 \in Ints
  BY WrapType
<1>3. (IF d < 0 THEN 0 ELSE d) + 1 \in Int
  BY <1>1
<1>4. QED
  BY <1>1, <1>2, <1>3, WrapType DEF encodeDuration

(* A sample whose window is in bounds is added, or none.                   *)
LEMMA EnterBounded ==
  ASSUME Bounded, NEW g \in Goroutines, NEW method, NEW w \in 0 .. MaxWindow, Enter(g, method, w)
  PROVE  samples' \in Seq([duration : Durations, window : 0 .. MaxWindow])
<1>1. CASE method # "AddDuration"
  BY <1>1 DEF Enter, Bounded
<1>2. CASE method = "AddDuration"
  <2>1. PICK d \in Durations : samples' = Append(samples, [duration |-> d, window |-> w])
    BY <1>2 DEF Enter
  <2>2. [duration |-> d, window |-> w] \in [duration : Durations, window : 0 .. MaxWindow]
    OBVIOUS
  <2>3. QED
    BY <2>1, <2>2, AppendProperties DEF Bounded
<1>3. QED
  BY <1>1, <1>2

LEMMA AdvancedOwes ==
  ASSUME Types, Bounded, Added, NEW g \in Goroutines, NEW method, NEW w, Advanced(g, method, w)
  PROVE  owed' \in [Goroutines -> SUBSET Ids']
<1>1. Ids \subseteq Ids'
  BY DEF Added, Ids
<1>2. {from[i] : i \in Slots} \ {0} \subseteq Ids
  <2>1. ASSUME NEW i \in Slots, from[i] # 0 PROVE from[i] \in Ids
    <3>1. from[i] \in 0 .. Len(samples) /\ Len(samples) \in Nat
      BY DEF Types
    <3>2. QED
      BY <2>1, <3>1 DEF Ids
  <2>2. QED
    BY <2>1
<1>3. owed \in [Goroutines -> SUBSET Ids]
  BY DEF Bounded
<1>4. QED
  BY <1>1, <1>2, <1>3 DEF Advanced

LEMMA BoundedStep ==
  ASSUME Types, Types', Places, Bounded, [Next]_vars
  PROVE  Bounded'
<1>t. /\ window \in 0 .. MaxWindow /\ MaxWindow \in Nat /\ Len(samples) \in Nat /\ Size \in Nat
      /\ advanceMu # NoHolder => window < MaxWindow
      /\ samples \in Seq([duration : Durations, window : 0 .. MaxWindow])
      /\ cursor \in [Goroutines -> 0 .. Size] /\ limit \in [Goroutines -> 0 .. Size]
      /\ durationsSomeInvalid \in [Slots -> Ints]
      /\ owed \in [Goroutines -> SUBSET Ids] /\ late \subseteq Ids
  BY BoundsAssumption, SizeAssumption DEF Bounded, Types
<1>1. CASE UNCHANGED vars
  BY <1>1 DEF Bounded, Ids, vars, bucket, ring, locals
<1>2. CASE Next
  <2>1. PICK g \in Goroutines :
           \/ \E method \in {"AddDuration", "SnapshotAt", "Reset"} :
                Advance(g, method) \/ rollForward(g, method)
           \/ Publish(g) \/ Within(g)
    BY <1>2, NextCases
  <2>2. Added /\ Ids \subseteq Ids'
    <3>1. Added
      BY <2>1, AdvanceTypes, RollTypes, PublishTypes, WithinTypes
    <3>2. QED
      BY <3>1 DEF Added, Ids
  <2>3. ASSUME NEW method \in {"AddDuration", "SnapshotAt", "Reset"}, Advance(g, method)
        PROVE  Bounded'
    <3>1. /\ UNCHANGED <<window, advanceMu, cursor, limit, durationsSomeInvalid, late>>
          /\ Enter(g, method, window) /\ Advanced(g, method, window)
      BY <2>3 DEF Advance, bucket, ring
    <3>2. samples' \in Seq([duration : Durations, window : 0 .. MaxWindow])
      BY <1>t, <3>1, EnterBounded
    <3>3. owed' \in [Goroutines -> SUBSET Ids']
      BY <2>2, <3>1, AdvancedOwes
    <3>4. QED
      BY <1>t, <2>2, <3>1, <3>2, <3>3 DEF Bounded
  <2>4. ASSUME NEW method \in {"AddDuration", "SnapshotAt", "Reset"}, rollForward(g, method)
        PROVE  Bounded'
    <3>1. /\ UNCHANGED <<window, cursor, limit, durationsSomeInvalid, owed, late>>
          /\ Enter(g, method, window + 1) /\ window < MaxWindow
      BY <2>4 DEF rollForward, bucket
    <3>2. window + 1 \in 0 .. MaxWindow
      BY <1>t, <3>1
    <3>3. samples' \in Seq([duration : Durations, window : 0 .. MaxWindow])
      BY <3>1, <3>2, EnterBounded
    <3>4. owed' \in [Goroutines -> SUBSET Ids']
      BY <1>t, <2>2, <3>1
    <3>5. QED
      BY <1>t, <2>2, <3>1, <3>3, <3>4 DEF Bounded
  <2>5. CASE Publish(g)
    <3>1. /\ UNCHANGED <<samples, cursor, limit, durationsSomeInvalid, late>>
          /\ window' = window + 1 /\ advanceMu' = NoHolder /\ Advanced(g, op[g], window + 1)
      BY <2>5 DEF Publish, bucket
    <3>2. window < MaxWindow
      BY <1>t, <2>5, PublishTypes, HolderAssumption
    <3>3. window' \in 0 .. MaxWindow
      BY <1>t, <3>1, <3>2
    <3>4. owed' \in [Goroutines -> SUBSET Ids']
      BY <2>2, <3>1, AdvancedOwes
    <3>5. QED
      BY <1>t, <2>2, <3>1, <3>3, <3>4 DEF Bounded
  <2>6. CASE Within(g)
    <3>1. UNCHANGED <<window, advanceMu, samples>> /\ Ids' = Ids
      BY <2>6, WithinTypes DEF Ids
    <3> DEFINE Loops == cursor' \in [Goroutines -> 0 .. Size] /\ limit' \in [Goroutines -> 0 .. Size]
    <3>2. Loops
      <4>1. ASSUME clear(g) \/ ReadSize(g) PROVE Loops
        <5>1. size \in 0 .. Size /\ 0 \in 0 .. Size
          BY <1>t, SizeBound
        <5>2. cursor' = [cursor EXCEPT ![g] = 0] /\ limit' = [limit EXCEPT ![g] = size]
          BY <4>1 DEF clear, ReadSize, used
        <5>3. QED
          BY <1>t, <5>1, <5>2
      <4>2. ASSUME UnsetSlot(g) \/ appendDurations(g) PROVE Loops
        <5>1. cursor[g] \in 0 .. Size /\ limit[g] \in 0 .. Size /\ cursor[g] < limit[g]
          BY <1>t, <4>2 DEF UnsetSlot, appendDurations
        <5>2. cursor[g] + 1 \in 0 .. Size
          BY <1>t, <5>1
        <5>3. cursor' = [cursor EXCEPT ![g] = cursor[g] + 1] /\ limit' = limit
          BY <4>2 DEF UnsetSlot, appendDurations
        <5>4. QED
          BY <1>t, <5>2, <5>3
      <4>3. ASSUME Reserve(g) PROVE Loops
        <5>1. arrayIndex(currentIndex) \in Slots
          BY ArrayIndex DEF Types
        <5>2. arrayIndex(currentIndex) \in 0 .. Size
          BY <1>t, <5>1 DEF Slots
        <5>3. QED
          BY <1>t, <4>3, <5>2 DEF Reserve
      <4>4. ASSUME Return(g) PROVE Loops
        BY <1>t, <4>4 DEF Return
      <4>5. ASSUME UNCHANGED <<cursor, limit>> PROVE Loops
        BY <1>t, <4>5
      <4>6. QED
        BY <2>6, <4>1, <4>2, <4>3, <4>4, <4>5
        DEF Within, ResetIndex, Store, Sort, ReturnSnapshot, locals
    <3>3. durationsSomeInvalid' \in [Slots -> Ints]
      <4>1. CASE Store(g)
        <5>1. sample[g] \in Ids
          BY <4>1 DEF Store, Places, PlaceOf, Types, Ids
        <5>2. encodeDuration(samples[sample[g]].duration) \in Ints
          BY <5>1, DurationOf, EncodedType
        <5>3. QED
          BY <1>t, <4>1, <5>2 DEF Store
      <4>2. CASE UnsetSlot(g)
        <5>1. 0 \in Ints
          BY WrapType
        <5>2. QED
          BY <1>t, <4>2, <5>1 DEF UnsetSlot, unsetDuration
      <4>3. CASE ~Store(g) /\ ~UnsetSlot(g)
        BY <1>t, <2>6, <4>3 DEF Within, clear, ResetIndex, Reserve, ReadSize, appendDurations,
           Sort, ReturnSnapshot, bucket
      <4>4. QED
        BY <4>1, <4>2, <4>3
    <3>4. owed' \in [Goroutines -> SUBSET Ids]
      BY <1>t, <2>6 DEF Within, clear, UnsetSlot, Store, Forget, ResetIndex, Reserve, ReadSize,
         appendDurations, Sort, ReturnSnapshot
    <3>5. late' \subseteq Ids
      <4>1. ASSUME NEW h \in Goroutines, pc[h] \in {"store", "reserve"} PROVE sample[h] \in Ids
        <5>1. sample[h] # 0 /\ sample[h] \in 0 .. Len(samples)
          BY <4>1 DEF Places, PlaceOf, Types
        <5>2. QED
          BY <1>t, <5>1 DEF Ids
      <4>2. CASE clear(g)
        BY <1>t, <4>1, <4>2 DEF clear
      <4>3. CASE Reserve(g)
        BY <1>t, <4>1, <4>3 DEF Reserve
      <4>4. CASE ~clear(g) /\ ~Reserve(g)
        BY <1>t, <2>6, <4>4 DEF Within, UnsetSlot, Store, ResetIndex, ReadSize,
           appendDurations, Sort, ReturnSnapshot
      <4>5. QED
        BY <4>2, <4>3, <4>4
    <3>6. QED
      BY <1>t, <3>1, <3>2, <3>3, <3>4, <3>5 DEF Bounded
  <2>7. QED
    BY <2>1, <2>3, <2>4, <2>5, <2>6
<1>3. QED
  BY <1>1, <1>2

-----------------------------------------------------------------------------
(* The theorems.                                                           *)

LEMMA Start ==
  ASSUME Init
  PROVE  Types /\ Places /\ SlotsKept /\ SeenKept
<1>s. <<>> \in Seq([duration : Durations, window : Nat]) /\ Len(<<>>) = 0
  BY EmptySeq
<1>1. Types
  BY <1>s DEF Init, Types, Locations
<1>2. Places
  BY HolderAssumption DEF Init, Places, PlaceOf
<1>3. SlotsKept
  BY DEF Init, SlotsKept, Fresh, unsetDuration
<1>4. SeenKept
  BY DEF Init, SeenKept
<1>5. QED
  BY <1>1, <1>2, <1>3, <1>4

LEMMA DataStart == Init => DataKept
<1>1. ASSUME Init PROVE EncodedKept
  BY <1>1 DEF Init, EncodedKept
<1>2. ASSUME Init PROVE ret = [h \in Goroutines |-> ret[h]] /\ \A g \in Goroutines : SnapshotOf(g)
  BY <1>2, EmptySeq DEF Init, SnapshotOf
<1>3. QED
  BY <1>1, <1>2 DEF DataKept

LEMMA SlotsInvariant == Spec => [](Types /\ Places /\ SlotsKept /\ SeenKept)
<1>1. Init => Types /\ Places /\ SlotsKept /\ SeenKept
  BY Start
<1>2. Types /\ Places /\ SlotsKept /\ SeenKept /\ [Next]_vars
      => (Types /\ Places /\ SlotsKept /\ SeenKept)'
  BY TypePlaceStep, SlotsStep, SeenStep
<1>3. QED
  BY <1>1, <1>2, PTL DEF Spec

(* durationsBucket.clear's comment, for every bucket and interleaving of   *)
(* AddDuration, SnapshotAt and Reset: a slot at or beyond currentIndex is  *)
(* unset, or holds a sample whose AddDuration overlapped a clear.          *)
THEOREM BeyondSafe == Spec => []BeyondIndexUnset
<1>1. Types /\ SlotsKept => BeyondIndexUnset
  BY SizeAssumption DEF Types, SlotsKept, Fresh, BeyondIndexUnset, Slots
<1>2. QED
  BY <1>1, SlotsInvariant, PTL

(* SnapshotAt never returns a sample of a window that was over when it was *)
(* called, save one whose AddDuration overlapped a clear.                  *)
THEOREM StaleSafe == Spec => []NoStaleSample
<1>1. Types /\ SeenKept => NoStaleSample
  <2>1. SUFFICES ASSUME Types, SeenKept, NEW g \in Goroutines, NEW s \in seen[g],
                        samples[s].window < mine[g]
                 PROVE  s \in late
    BY DEF NoStaleSample
  <2>2. s \in 1 .. Len(samples)
    BY <2>1 DEF Types, SeenKept
  <2>3. samples[s].window \in Nat /\ mine[g] \in Nat
    BY <2>1, <2>2, WindowOf DEF Types
  <2>4. QED
    BY <2>1, <2>3 DEF SeenKept
<1>2. QED
  BY <1>1, SlotsInvariant, PTL

(* A snapshot misses nothing: it holds every sample that was stored when   *)
(* SnapshotAt was called and has been neither overwritten nor cleared      *)
(* since, save one whose AddDuration overlapped a clear.                   *)
THEOREM MissedSafe == Spec => []NoSampleMissed
<1>1. Init => OwedKept
  BY DEF Init, OwedKept, SetKept, OwedOf
<1>2. Types /\ Places /\ SlotsKept /\ OwedKept /\ [Next]_vars => OwedKept'
  BY OwedStep
<1>3. OwedKept => NoSampleMissed
  BY DEF OwedKept, OwedOf, NoSampleMissed
<1>4. QED
  BY <1>1, <1>2, <1>3, SlotsInvariant, PTL DEF Spec
(* SortedDurations of every snapshot: Percentile grows with p, from Min at *)
(* 0 to Max at 100, and every duration is one that was added, a negative   *)
(* one as 0, the greatest one whose encoding wraps around included.        *)
THEOREM PercentilesSafe == Spec => []PercentilesOrdered
<1>1. Init => DataKept
  BY DataStart
<1>2. Types /\ Places /\ SlotsKept /\ DataKept /\ [Next]_vars => DataKept'
  BY DataStep
<1>3. Types /\ DataKept => PercentilesOrdered
  <2>1. SUFFICES ASSUME Types, DataKept, NEW g \in Goroutines, pc[g] = "snapshot"
                 PROVE  /\ Percentile(ret[g], 0) = MinOf(ret[g])
                        /\ Percentile(ret[g], 100) = MaxOf(ret[g])
                        /\ \A p, q \in {0, 25, 50, 90, 99, 100} :
                             p <= q => Percentile(ret[g], p) <= Percentile(ret[g], q)
                        /\ \A i \in DOMAIN ret[g] : \E s \in Ids : ret[g][i] = Clamped(s)
    BY DEF PercentilesOrdered, Clamped
  <2>2. ret[g] \in Seq(Given) /\ InOrder(ret[g])
    BY <2>1 DEF DataKept, SnapshotOf
  <2>3. Given \subseteq Int
    BY <2>1, DurationOf DEF Given
  <2>4. ret[g] \in Seq(Int)
    BY <2>2, <2>3, SeqOfMore
  <2>5. \A i \in DOMAIN ret[g] : ret[g][i] \in Given
    BY <2>2, ElementOfSeq, LenProperties
  <2>6. \A i \in DOMAIN ret[g] : \E s \in Ids : ret[g][i] = Clamped(s)
    BY <2>5 DEF Given
  <2>7. {0, 25, 50, 90, 99, 100} \subseteq 0 .. 100
    OBVIOUS
  <2>8. \A p, q \in 0 .. 100 : p <= q => Percentile(ret[g], p) <= Percentile(ret[g], q)
    BY <2>2, <2>4, PercentilesGrow
  <2>9. Percentile(ret[g], 0) = MinOf(ret[g]) /\ Percentile(ret[g], 100) = MaxOf(ret[g])
    BY <2>2, <2>4, PercentilesGrow
  <2>10. \A p, q \in {0, 25, 50, 90, 99, 100} :
           p <= q => Percentile(ret[g], p) <= Percentile(ret[g], q)
    BY <2>7, <2>8, Zenon
  <2>11. QED
    BY <2>6, <2>9, <2>10, Zenon
<1>4. QED
  BY <1>1, <1>2, <1>3, SlotsInvariant, PTL DEF Spec

(* Every variable has its type: a slot holds an int64, a loop stays within *)
(* the bucket, and currentIndex counts no more slots than there were calls *)
(* of AddDuration.                                                         *)
THEOREM PercentileTypeCorrect == Spec => []TypeOK
<1>1. Init => DataKept /\ Counted /\ Bounded
  <2>1. SUFFICES ASSUME Init PROVE Counted /\ Bounded
    BY DataStart
  <2>2. Len(samples) = 0 /\ samples \in Seq([duration : Durations, window : 0 .. MaxWindow])
    BY <2>1, EmptySeq DEF Init
  <2>3. Pending = {} /\ \A g \in Goroutines : sample[g] = 0
    BY <2>1 DEF Init, Pending, Waiting
  <2>4. Counted
    BY <2>1, <2>2, <2>3, FS_EmptySet, BoundsAssumption DEF Init, Counted
  <2>5. Bounded
    BY <2>1, <2>2, BoundsAssumption, SizeAssumption, WrapType DEF Init, Bounded, unsetDuration
  <2>6. QED
    BY <2>4, <2>5
<1>2. Types /\ Types' /\ Places /\ SlotsKept /\ DataKept /\ Counted /\ Bounded /\ [Next]_vars
        => (DataKept /\ Counted /\ Bounded)'
  BY DataStep, CountedStep, BoundedStep
<1>3. Types /\ Places /\ SeenKept /\ DataKept /\ Counted /\ Bounded => TypeOK
  <2>1. SUFFICES ASSUME Types, Places, SeenKept, DataKept, Counted, Bounded PROVE TypeOK
    OBVIOUS
  <2>2. currentIndex \in 0 .. MaxSamples
    <3>1. PICK c \in Nat : c = Cardinality(Pending)
      BY <2>1, PendingFinite
    <3>2. currentIndex + c <= Len(samples) /\ Len(samples) <= MaxSamples
      BY <2>1, <3>1 DEF Counted
    <3>3. QED
      BY <2>1, <3>2, BoundsAssumption DEF Types
  <2>3. mine \in [Goroutines -> 0 .. MaxWindow]
    BY <2>1, BoundsAssumption DEF Types, Places, PlaceOf, Bounded
  <2>4. ret \in [Goroutines -> Seq(Ints)]
    <3>1. Given \subseteq Ints
      BY <2>1, DurationOf, EncodedType DEF Given, Clamped
    <3>2. \A g \in Goroutines : ret[g] \in Seq(Ints)
      BY <2>1, <3>1, SeqOfMore DEF DataKept, SnapshotOf
    <3>3. QED
      BY <2>1, <3>2 DEF DataKept
  <2>5. seen \in [Goroutines -> SUBSET Ids]
    BY <2>1 DEF Types, SeenKept, Ids
  <2>6. \A g \in Goroutines : pc[g] = "store" => cursor[g] \in Slots
    BY <2>1 DEF Places, PlaceOf
  <2>7. QED
    BY <2>1, <2>2, <2>3, <2>4, <2>5, <2>6 DEF Types, Bounded, TypeOK, Locations
<1>4. QED
  BY <1>1, <1>2, <1>3, SlotsInvariant, PTL DEF Spec
=============================================================================
