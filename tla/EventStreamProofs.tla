-------------------------- MODULE EventStreamProofs -------------------------
(* Proofs about the Manager, alone or under a MetricEventStream, for any   *)
(* goroutines, names, configurations and constructors.                     *)
EXTENDS EventStream, SequenceTheorems, TLAPS

Configs == [field : Int, run : Seq(Int)]

Calls == [name : Names \cup {Idle.name}, given : Seq(Configs), finalConfig : Configs,
          next : Int, constructed : Seq(Configs)]

Types ==
  /\ circuitMap \in [Names -> Int] /\ statsByCircuit \in [Names -> Int]
  /\ at \in [Creators -> {"idle", "lock", "check", "merge", "construct", "insert"}]
  /\ create \in Calls /\ creates \in Nat

(* No rolling.RunStats among the collectors, or exactly one.               *)
NoStats(run) == \A i \in 1 .. Len(run) : run[i] >= 0
OneStats(run, stats) ==
  /\ stats < 0
  /\ \E i \in 1 .. Len(run) :
       run[i] = stats /\ \A j \in 1 .. Len(run) : j # i => run[j] >= 0

(* The call under createMu is for a name without a circuit.  Before        *)
(* StatFactory's constructor its collectors hold no stats, and afterwards  *)
(* those that are filed under its name.                                    *)
CallOf(g) ==
  /\ at[g] \notin {"idle", "lock"} => createMu = g /\ create.name \in Names
  /\ at[g] = "check" => create.finalConfig = EmptyConfig
  /\ at[g] \in {"merge", "construct", "insert"} => circuitMap[create.name] = NoCircuit
  /\ at[g] = "merge" => NoStats(create.finalConfig.run)
  /\ at[g] = "construct" =>
       IF create.next = NumConstructors THEN NoStats(create.finalConfig.run)
       ELSE OneStats(create.finalConfig.run, statsByCircuit[create.name])
  /\ at[g] = "insert" =>
       OneStats(create.finalConfig.run, statsByCircuit[create.name])

CallsKept == \A g \in Creators : CallOf(g)

-----------------------------------------------------------------------------
(* Collectors of merged configurations.                                    *)

LEMMA MergeKeepsTypes ==
  ASSUME NEW c \in Configs, NEW other \in Configs
  PROVE  /\ Merge(c, other) \in Configs /\ Merge(c, other).run = c.run \o other.run
  BY ConcatProperties DEF Configs, Merge

LEMMA MergeWithoutStats ==
  ASSUME NEW r \in Seq(Int), NEW s \in Seq(Int), NoStats(s)
  PROVE  /\ NoStats(r) => NoStats(r \o s)
         /\ \A stats \in Int : OneStats(r, stats) => OneStats(r \o s, stats)
<1>1. /\ Len(r \o s) = Len(r) + Len(s) /\ Len(r) \in Nat /\ Len(s) \in Nat
      /\ \A i \in 1 .. Len(r) + Len(s) :
           (r \o s)[i] = IF i <= Len(r) THEN r[i] ELSE s[i - Len(r)]
  BY ConcatProperties
<1>2. \A i \in 1 .. Len(r) + Len(s) : i > Len(r) => (r \o s)[i] >= 0
  <2>1. SUFFICES ASSUME NEW i \in 1 .. Len(r) + Len(s), i > Len(r) PROVE (r \o s)[i] >= 0
    OBVIOUS
  <2>2. i - Len(r) \in 1 .. Len(s) /\ (r \o s)[i] = s[i - Len(r)]
    BY <1>1, <2>1
  <2>3. QED
    BY <2>2 DEF NoStats
<1>3. \A i \in 1 .. Len(r) : i \in 1 .. Len(r) + Len(s) /\ (r \o s)[i] = r[i]
  BY <1>1
<1>4. \A i \in 1 .. Len(r) + Len(s) : i > Len(r) \/ i \in 1 .. Len(r)
  BY <1>1
<1>5. NoStats(r) => NoStats(r \o s)
  BY <1>1, <1>2, <1>3, <1>4 DEF NoStats
<1>6. ASSUME NEW stats \in Int, OneStats(r, stats) PROVE OneStats(r \o s, stats)
  <2>1. PICK i \in 1 .. Len(r) : r[i] = stats /\ \A j \in 1 .. Len(r) : j # i => r[j] >= 0
    BY <1>6 DEF OneStats
  <2>2. i \in 1 .. Len(r \o s) /\ (r \o s)[i] = stats
    BY <1>1, <1>3, <2>1
  <2>3. \A j \in 1 .. Len(r \o s) : j # i => (r \o s)[j] >= 0
    BY <1>1, <1>2, <1>3, <1>4, <2>1
  <2>4. QED
    BY <1>6, <2>2, <2>3 DEF OneStats
<1>7. QED
  BY <1>5, <1>6

LEMMA MergeStats ==
  ASSUME NEW r \in Seq(Int), NoStats(r), NEW stats \in Int, stats < 0
  PROVE  OneStats(r \o <<stats>>, stats)
<1> DEFINE s == <<stats>>
<1>0. s \in Seq(Int) /\ Len(s) = 1 /\ s[1] = stats
  OBVIOUS
<1> HIDE DEF s
<1>1. /\ Len(r \o s) = Len(r) + 1 /\ Len(r) \in Nat
      /\ \A i \in 1 .. Len(r) + 1 :
           (r \o s)[i] = IF i <= Len(r) THEN r[i] ELSE s[i - Len(r)]
  <2>1. /\ Len(r \o s) = Len(r) + Len(s)
        /\ \A i \in 1 .. Len(r) + Len(s) :
             (r \o s)[i] = IF i <= Len(r) THEN r[i] ELSE s[i - Len(r)]
    BY <1>0, ConcatProperties
  <2>2. QED
    BY <1>0, <2>1
<1>2. Len(r) + 1 \in 1 .. Len(r \o s) /\ (r \o s)[Len(r) + 1] = stats
  <2>1. (Len(r) + 1) - Len(r) = 1 /\ Len(r) + 1 \in 1 .. Len(r) + 1 /\ ~(Len(r) + 1 <= Len(r))
    BY <1>1
  <2>2. QED
    BY <1>0, <1>1, <2>1
<1>3. \A j \in 1 .. Len(r \o s) : j # Len(r) + 1 => j \in 1 .. Len(r) /\ (r \o s)[j] = r[j]
  BY <1>1
<1>4. OneStats(r \o s, stats)
  BY <1>2, <1>3 DEF OneStats, NoStats
<1>5. QED
  BY <1>4 DEF s

(* FindCommandMetrics finds the only stats there are.                      *)
LEMMA FindsStats ==
  ASSUME NEW config \in Configs, NEW stats \in Int, OneStats(config.run, stats)
  PROVE  FindCommandMetrics(config) = stats
<1> DEFINE run == config.run
           First(i) == run[i] < 0 /\ \A j \in 1 .. i - 1 : run[j] >= 0
<1>0. run \in Seq(Int) /\ Len(run) \in Nat /\ DOMAIN run = 1 .. Len(run)
      /\ \A i \in 1 .. Len(run) : run[i] \in Int
  BY DEF Configs
<1>1. PICK i \in 1 .. Len(run) : run[i] = stats /\ \A j \in 1 .. Len(run) : j # i => run[j] >= 0
  BY DEF OneStats
<1>2. stats < 0
  BY DEF OneStats
<1>3. First(i)
  BY <1>0, <1>1, <1>2
<1>4. \A k \in DOMAIN run : First(k) => k = i
  BY <1>0, <1>1, <1>2
<1> HIDE DEF First
<1>5. (CHOOSE k \in DOMAIN run : First(k)) = i
  BY <1>0, <1>1, <1>3, <1>4
<1>6. FindCommandMetrics(config) = run[CHOOSE k \in DOMAIN run : First(k)]
  BY DEF FindCommandMetrics, First
<1>7. QED
  BY <1>1, <1>5, <1>6

-----------------------------------------------------------------------------
(* The steps.                                                              *)

Kept == Types /\ CallsKept /\ StatsMatchCircuit

LEMMA KeptInit == Init => Kept
<1>1. SUFFICES ASSUME Init PROVE Kept
  OBVIOUS
<1>2. Idle \in Calls /\ Idle.finalConfig = EmptyConfig
  BY DEF Idle, Calls, Configs, EmptyConfig
<1>3. PICK existing \in {{}, Names} :
        circuitMap = [n \in Names |-> IF n \in existing THEN -1 ELSE NoCircuit]
  BY <1>1 DEF Init, ManagerInit
<1>4. Types
  BY <1>1, <1>2, <1>3 DEF Init, ManagerInit, Types, NoCircuit
<1>5. CallsKept
  BY <1>1 DEF Init, ManagerInit, CallsKept, CallOf
<1>6. StatsMatchCircuit
  BY <1>1 DEF Init, ManagerInit, StatsMatchCircuit
<1>7. QED
  BY <1>4, <1>5, <1>6 DEF Kept

(* While g creates, the others wait for createMu or do nothing.            *)
LEMMA OneCreator ==
  ASSUME Kept, NEW g \in Creators, createMu = g
  PROVE  \A h \in Creators : h # g => at[h] \in {"idle", "lock"}
BY DEF Kept, CallsKept, CallOf

(* So only its own part of CallsKept is left to show after its step.       *)
LEMMA OthersKept ==
  ASSUME Kept, NEW g \in Creators, createMu = g,
         \A h \in Creators : h # g => at'[h] = at[h],
         CallOf(g)'
  PROVE  CallsKept'
<1>1. SUFFICES ASSUME NEW h \in Creators, h # g PROVE CallOf(h)'
  BY DEF CallsKept
<1>2. at'[h] \in {"idle", "lock"}
  BY <1>1, OneCreator
<1>3. QED
  BY <1>2 DEF CallOf

(* What a given configuration or a user's constructor holds.               *)
LEMMA FromKept ==
  ASSUME NEW k \in Nat, NEW config \in From(k)
  PROVE  config \in Configs /\ NoStats(config.run)
<1>1. CASE config = EmptyConfig
  BY <1>1 DEF EmptyConfig, Configs, NoStats
<1>2. CASE config = [field |-> k, run |-> <<k>>]
  BY <1>2 DEF Configs, NoStats
<1>3. QED
  BY <1>1, <1>2 DEF From

LEMMA CreateCircuitKeeps ==
  ASSUME Kept, NEW g \in Creators, CreateCircuit(g) PROVE Kept'
<1> USE DEF Kept, CreateCircuit, Goto
<1>1. Types'
  BY DEF Types
<1>2. CallsKept'
  BY DEF CallsKept, CallOf, Types
<1>3. StatsMatchCircuit'
  BY DEF StatsMatchCircuit
<1>4. QED
  BY <1>1, <1>2, <1>3

LEMMA LockKeeps ==
  ASSUME Kept, NEW g \in Creators, NEW n \in Names, Lock(g, n) PROVE Kept'
<1>1. create' \in Calls /\ create'.name = n /\ create'.finalConfig = EmptyConfig
  <2>1. Idle \in Calls /\ Idle.finalConfig = EmptyConfig
    BY DEF Idle, Calls, Configs, EmptyConfig
  <2>2. create' = [Idle EXCEPT !.name = n]
    BY DEF Lock
  <2>3. QED
    BY <2>1, <2>2 DEF Calls
<1>2. Types'
  BY <1>1 DEF Kept, Types, Lock, Goto
<1>3. \A h \in Creators : at[h] \in {"idle", "lock"}
  BY CreatorsAssumption DEF Kept, CallsKept, CallOf, Lock
<1>4. at'[g] = "check" /\ createMu' = g /\ \A h \in Creators : h # g => at'[h] = at[h]
  BY DEF Kept, Types, Lock, Goto
<1>5. CallsKept'
  BY <1>1, <1>3, <1>4 DEF CallsKept, CallOf
<1>6. StatsMatchCircuit'
  BY DEF Kept, StatsMatchCircuit, Lock
<1>7. QED
  BY <1>2, <1>5, <1>6 DEF Kept

(* A call that returns or unwinds leaves nothing to show of calls.         *)
LEMMA LeaveKeeps ==
  ASSUME Kept, NEW g \in Creators, at[g] \notin {"idle", "lock"}, Leave(g)
  PROVE  CallsKept' /\ at' \in [Creators -> {"idle", "lock", "check", "merge", "construct", "insert"}]
         /\ create' \in Calls
<1>1. createMu = g
  BY DEF Kept, CallsKept, CallOf
<1>2. at'[g] = "idle" /\ \A h \in Creators : h # g => at'[h] = at[h]
  BY DEF Kept, Types, Leave, Goto
<1>3. CallOf(g)'
  BY <1>2 DEF CallOf
<1>4. CallsKept'
  BY <1>1, <1>2, <1>3, OthersKept
<1>5. Idle \in Calls
  BY DEF Idle, Calls, Configs, EmptyConfig
<1>6. QED
  BY <1>4, <1>5 DEF Kept, Types, Leave, Goto

LEMMA CheckNameKeeps ==
  ASSUME Kept, NEW g \in Creators, CheckName(g) PROVE Kept'
<1>1. at[g] = "check" /\ createMu = g /\ create.name \in Names
      /\ create.finalConfig = EmptyConfig
  BY DEF Kept, CallsKept, CallOf, CheckName
<1>2. StatsMatchCircuit'
  BY DEF Kept, StatsMatchCircuit, CheckName
<1>3. CASE Exists
  <2>1. Leave(g)
    BY <1>3 DEF CheckName
  <2>2. QED
    BY <1>1, <1>2, <2>1, LeaveKeeps DEF Kept, Types, CheckName
<1>4. CASE ~Exists
  <2>1. Goto(g, "merge") /\ UNCHANGED <<createMu, create, circuitMap, statsByCircuit, creates>>
    BY <1>4 DEF CheckName
  <2>2. at'[g] = "merge" /\ \A h \in Creators : h # g => at'[h] = at[h]
    BY <2>1 DEF Kept, Types, Goto
  <2>3. circuitMap[create.name] = NoCircuit
    BY <1>4 DEF Exists
  <2>4. NoStats(create.finalConfig.run)
    BY <1>1 DEF EmptyConfig, NoStats
  <2>5. CallOf(g)'
    BY <1>1, <2>1, <2>2, <2>3, <2>4 DEF CallOf, NoStats
  <2>6. CallsKept'
    BY <1>1, <2>2, <2>5, OthersKept
  <2>7. Types'
    BY <2>1 DEF Kept, Types, Goto
  <2>8. QED
    BY <1>2, <2>6, <2>7 DEF Kept
<1>5. QED
  BY <1>3, <1>4

LEMMA MergeGivenKeeps ==
  ASSUME Kept, NEW g \in Creators, MergeGiven(g) PROVE Kept'
<1>1. /\ at[g] = "merge" /\ createMu = g /\ create.name \in Names
      /\ circuitMap[create.name] = NoCircuit /\ NoStats(create.finalConfig.run)
  BY DEF Kept, CallsKept, CallOf, MergeGiven
<1>2. StatsMatchCircuit'
  BY DEF Kept, StatsMatchCircuit, MergeGiven
<1>3. UNCHANGED <<circuitMap, statsByCircuit, createMu, creates>>
  BY DEF MergeGiven
<1>4. create \in Calls
  BY DEF Kept, Types
<1>5. CASE Len(create.given) < NumConfigs
  <2>1. PICK config \in From(Len(create.given) + 1) :
          create' = [create EXCEPT !.given = Append(@, config),
                                   !.finalConfig = Merge(@, config)]
    BY <1>5 DEF MergeGiven
  <2>2. Len(create.given) + 1 \in Nat
    BY <1>4 DEF Calls
  <2>3. config \in Configs /\ NoStats(config.run)
    BY <2>2, FromKept
  <2>4. /\ Merge(create.finalConfig, config) \in Configs
        /\ Merge(create.finalConfig, config).run = create.finalConfig.run \o config.run
    BY <1>4, <2>3, MergeKeepsTypes DEF Calls
  <2>5. create' \in Calls /\ create'.name = create.name
        /\ create'.finalConfig = Merge(create.finalConfig, config)
    <3>1. Append(create.given, config) \in Seq(Configs)
      BY <1>4, <2>3 DEF Calls
    <3>2. create' = [create EXCEPT !.given = Append(create.given, config),
                                   !.finalConfig = Merge(create.finalConfig, config)]
      BY <2>1
    <3>3. QED
      BY <1>4, <2>4, <3>1, <3>2 DEF Calls
  <2>6. create.finalConfig.run \in Seq(Int) /\ config.run \in Seq(Int)
    BY <1>4, <2>3 DEF Calls, Configs
  <2>7. NoStats(create'.finalConfig.run)
    BY <1>1, <2>3, <2>4, <2>5, <2>6, MergeWithoutStats
  <2>8. UNCHANGED at
    BY <1>5 DEF MergeGiven
  <2>9. CallOf(g)'
    BY <1>1, <1>3, <2>5, <2>7, <2>8 DEF CallOf, NoStats
  <2>10. CallsKept'
    BY <1>1, <2>8, <2>9, OthersKept
  <2>11. QED
    BY <1>2, <1>3, <2>5, <2>8, <2>10 DEF Kept, Types
<1>6. CASE ~(Len(create.given) < NumConfigs)
  <2>1. Goto(g, "construct") /\ create' = [create EXCEPT !.next = NumConstructors]
    BY <1>6 DEF MergeGiven
  <2>2. /\ create' \in Calls /\ create'.name = create.name
        /\ create'.finalConfig = create.finalConfig /\ create'.next = NumConstructors
    BY <1>4, <2>1, ConstructorsAssumption DEF Calls
  <2>3. at'[g] = "construct" /\ \A h \in Creators : h # g => at'[h] = at[h]
    BY <2>1 DEF Kept, Types, Goto
  <2>4. CallOf(g)'
    BY <1>1, <1>3, <2>2, <2>3 DEF CallOf, NoStats
  <2>5. CallsKept'
    BY <1>1, <2>3, <2>4, OthersKept
  <2>6. Types'
    BY <1>3, <2>1, <2>2 DEF Kept, Types, Goto
  <2>7. QED
    BY <1>2, <2>5, <2>6 DEF Kept
<1>7. QED
  BY <1>5, <1>6

(* A constructor's configuration is merged; then its stats are filed.      *)
LEMMA ConstructKeeps ==
  ASSUME Kept, NEW g \in Creators, NEW config \in Configs, Construct(g, config),
         statsByCircuit' \in [Names -> Int],
         OneStats(create.finalConfig.run \o config.run, statsByCircuit'[create.name]),
         \A n \in Names : n # create.name => statsByCircuit'[n] = statsByCircuit[n],
         create.next \in 1 .. NumConstructors
  PROVE  Kept'
<1>1. /\ at[g] = "construct" /\ createMu = g /\ create.name \in Names
      /\ circuitMap[create.name] = NoCircuit
  BY DEF Kept, CallsKept, CallOf, Construct
<1>2. create \in Calls /\ UNCHANGED <<circuitMap, createMu, creates>>
  BY DEF Kept, Types, Construct
<1>3. /\ Merge(create.finalConfig, config) \in Configs
      /\ Merge(create.finalConfig, config).run = create.finalConfig.run \o config.run
  BY <1>2, MergeKeepsTypes DEF Calls
<1>4. <<config>> \o create.constructed \in Seq(Configs)
  BY <1>2, ConcatProperties DEF Calls
<1>5. /\ create' \in Calls /\ create'.name = create.name /\ create'.next = create.next - 1
      /\ create'.finalConfig = Merge(create.finalConfig, config)
  <2>1. create' = [create EXCEPT !.next = create.next - 1,
                                 !.finalConfig = Merge(create.finalConfig, config),
                                 !.constructed = <<config>> \o create.constructed]
    BY DEF Construct
  <2>2. create.next - 1 \in Int
    BY <1>2 DEF Calls
  <2>3. QED
    BY <1>2, <1>3, <1>4, <2>1, <2>2 DEF Calls
<1>6. create'.next # NumConstructors
  BY <1>5, ConstructorsAssumption
<1>7. /\ at' \in [Creators -> {"idle", "lock", "check", "merge", "construct", "insert"}]
      /\ at'[g] \in {"construct", "insert"} /\ \A h \in Creators : h # g => at'[h] = at[h]
  BY <1>1 DEF Kept, Types, Construct, Goto
<1>8. OneStats(create'.finalConfig.run, statsByCircuit'[create'.name])
  BY <1>3, <1>5
<1>9. CallOf(g)'
  BY <1>1, <1>2, <1>5, <1>6, <1>7, <1>8 DEF CallOf, OneStats
<1>10. CallsKept'
  BY <1>1, <1>7, <1>9, OthersKept
<1>11. StatsMatchCircuit'
  BY <1>1, <1>2 DEF Kept, StatsMatchCircuit
<1>12. QED
  BY <1>2, <1>5, <1>7, <1>10, <1>11 DEF Kept, Types

LEMMA CreateConfigKeeps ==
  ASSUME Kept, NEW g \in Creators, CreateConfig(g) PROVE Kept'
<1> DEFINE config == [field |-> 0, run |-> <<-1 - creates>>]
<1>1. /\ create.name \in Names /\ NoStats(create.finalConfig.run)
      /\ create.next = NumConstructors
  BY DEF Kept, CallsKept, CallOf, CreateConfig, Construct
<1>2. -1 - creates \in Int /\ -1 - creates < 0
  BY DEF Kept, Types
<1>3. config \in Configs /\ config.run = <<-1 - creates>>
  BY <1>2 DEF Configs
<1>4. create.finalConfig.run \in Seq(Int)
  BY DEF Kept, Types, Calls, Configs
<1>5. OneStats(create.finalConfig.run \o config.run, -1 - creates)
  BY <1>1, <1>2, <1>3, <1>4, MergeStats
<1>6. statsByCircuit' = [statsByCircuit EXCEPT ![create.name] = -1 - creates]
  BY DEF CreateConfig
<1>7. /\ statsByCircuit' \in [Names -> Int] /\ statsByCircuit'[create.name] = -1 - creates
      /\ \A n \in Names : n # create.name => statsByCircuit'[n] = statsByCircuit[n]
  BY <1>1, <1>2, <1>6 DEF Kept, Types
<1>8. create.next \in 1 .. NumConstructors
  BY <1>1, ConstructorsAssumption
<1>9. Construct(g, config)
  BY DEF CreateConfig
<1> HIDE DEF config
<1>10. QED
  BY <1>3, <1>5, <1>7, <1>8, <1>9, ConstructKeeps

LEMMA UserConstructorKeeps ==
  ASSUME Kept, NEW g \in Creators, UserConstructor(g) PROVE Kept'
<1>1. PICK config \in From(10 + create.next) : Construct(g, config)
  BY DEF UserConstructor
<1>2. create.next \in 1 .. NumConstructors - 1 /\ UNCHANGED statsByCircuit
  BY DEF UserConstructor
<1>3. 10 + create.next \in Nat /\ create.next # NumConstructors
      /\ create.next \in 1 .. NumConstructors
  BY <1>2, ConstructorsAssumption
<1>4. config \in Configs /\ NoStats(config.run)
  BY <1>3, FromKept
<1>5. /\ create.name \in Names
      /\ OneStats(create.finalConfig.run, statsByCircuit[create.name])
  BY <1>1, <1>3 DEF Kept, CallsKept, CallOf, Construct
<1>6. create.finalConfig.run \in Seq(Int) /\ config.run \in Seq(Int)
      /\ statsByCircuit[create.name] \in Int /\ statsByCircuit' \in [Names -> Int]
  BY <1>2, <1>4, <1>5 DEF Kept, Types, Calls, Configs
<1>7. OneStats(create.finalConfig.run \o config.run, statsByCircuit[create.name])
  BY <1>4, <1>5, <1>6, MergeWithoutStats
<1>8. statsByCircuit'[create.name] = statsByCircuit[create.name]
      /\ \A n \in Names : n # create.name => statsByCircuit'[n] = statsByCircuit[n]
  BY <1>2
<1>9. OneStats(create.finalConfig.run \o config.run, statsByCircuit'[create.name])
  BY <1>7, <1>8
<1>10. QED
  BY <1>1, <1>3, <1>4, <1>6, <1>8, <1>9, ConstructKeeps

LEMMA ConstructorPanicsKeeps ==
  ASSUME Kept, NEW g \in Creators, ConstructorPanics(g) PROVE Kept'
<1>1. StatsMatchCircuit'
  BY DEF Kept, StatsMatchCircuit, ConstructorPanics
<1>2. at[g] = "construct" /\ Leave(g)
  BY DEF ConstructorPanics
<1>3. QED
  BY <1>1, <1>2, LeaveKeeps DEF Kept, Types, ConstructorPanics

(* The circuit reports to the stats that its collectors hold: those filed. *)
LEMMA InsertKeeps ==
  ASSUME Kept, NEW g \in Creators, Insert(g) PROVE Kept'
<1>1. /\ at[g] = "insert" /\ create.name \in Names
      /\ OneStats(create.finalConfig.run, statsByCircuit[create.name])
  BY DEF Kept, CallsKept, CallOf, Insert
<1>2. create.finalConfig \in Configs /\ create.finalConfig.run \in Seq(Int)
      /\ statsByCircuit[create.name] \in Int
  BY <1>1 DEF Kept, Types, Calls, Configs
<1>3. /\ defaultCommandProperties \in Configs /\ defaultCommandProperties.run \in Seq(Int)
      /\ NoStats(defaultCommandProperties.run)
  BY DEF defaultCommandProperties, Configs, NoStats
<1>4. Built \in Configs
      /\ Built.run = create.finalConfig.run \o defaultCommandProperties.run
  BY <1>2, <1>3, MergeKeepsTypes DEF Built
<1>5. OneStats(Built.run, statsByCircuit[create.name])
  BY <1>1, <1>2, <1>3, <1>4, MergeWithoutStats
<1>6. FindCommandMetrics(Built) = statsByCircuit[create.name]
  BY <1>2, <1>4, <1>5, FindsStats
<1>7. circuitMap' = [circuitMap EXCEPT ![create.name] = statsByCircuit[create.name]]
      /\ UNCHANGED <<statsByCircuit, creates>> /\ Leave(g)
  BY <1>6 DEF Insert
<1>8. StatsMatchCircuit' /\ circuitMap' \in [Names -> Int]
  BY <1>1, <1>2, <1>7 DEF Kept, Types, StatsMatchCircuit
<1>9. CallsKept' /\ create' \in Calls
      /\ at' \in [Creators -> {"idle", "lock", "check", "merge", "construct", "insert"}]
  BY <1>1, <1>7, LeaveKeeps
<1>10. QED
  BY <1>7, <1>8, <1>9 DEF Kept, Types

LEMMA KeptStep == Kept /\ [Next]_vars => Kept'
<1>1. SUFFICES ASSUME Kept, [Next]_vars PROVE Kept'
  OBVIOUS
<1>2. ASSUME UNCHANGED <<circuitMap, statsByCircuit, createMu, at, create, creates>> PROVE Kept'
  BY <1>1, <1>2 DEF Kept, Types, CallsKept, CallOf, NoStats, OneStats, StatsMatchCircuit
<1>3. CASE ManagerNext
  <2>1. ASSUME NEW g \in Creators, CreateCircuit(g) \/ Create(g) \/ ConstructorPanics(g)
        PROVE  Kept'
    BY <1>1, <2>1, CreateCircuitKeeps, LockKeeps, CheckNameKeeps, MergeGivenKeeps,
       CreateConfigKeeps, UserConstructorKeeps, InsertKeeps, ConstructorPanicsKeeps DEF Create
  <2>2. ASSUME NEW r \in Exporters, Var(r) \/ VarDone(r) PROVE Kept'
    BY <1>2, <2>2 DEF Var, VarDone
  <2>3. QED
    BY <1>3, <2>1, <2>2 DEF ManagerNext
<1>4. CASE UNCHANGED managerVars
  BY <1>2, <1>4 DEF managerVars
<1>5. QED
  BY <1>1, <1>3, <1>4 DEF Next, vars

(* The stats filed under a name are the ones its circuit reports to, for   *)
(* any number of concurrent CreateCircuit calls, configurations, names and *)
(* constructors: a duplicate ends before StatFactory's constructor, and    *)
(* createMu keeps every other call from filing stats under the name before *)
(* the circuit that holds them is in the map.                              *)
THEOREM StatsSafe == Spec => []StatsMatchCircuit
<1>1. Init => Kept
  BY KeptInit
<1>2. Kept /\ [Next]_vars => Kept'
  BY KeptStep
<1>3. Kept => StatsMatchCircuit
  BY DEF Kept
<1>4. QED
  BY <1>1, <1>2, <1>3, PTL DEF Spec

-----------------------------------------------------------------------------
(* The precedence of the sources of a configuration.                       *)

(* A configuration is what Merge makes of its sources: each field that of  *)
(* the first source that sets it, the collectors those of all.             *)
Merged(c, sources) ==
  /\ \/ c.field = 0 /\ \A j \in 1 .. Len(sources) : sources[j].field = 0
     \/ \E i \in 1 .. Len(sources) :
          /\ c.field = sources[i].field /\ sources[i].field # 0
          /\ \A j \in 1 .. i - 1 : sources[j].field = 0
  /\ Joins(c.run, sources)

Sources == create.given \o Reverse(create.constructed)

(* A call has merged the configurations it was given and the constructors' *)
(* so far, in this order.                                                  *)
SourcesOf(g) ==
  /\ at[g] = "check" => create.given = <<>> /\ create.finalConfig = EmptyConfig
  /\ at[g] \in {"check", "merge"} => create.constructed = <<>>
  /\ at[g] \in {"merge", "construct", "insert"} => Merged(create.finalConfig, Sources)

SourcesKept == \A g \in Creators : SourcesOf(g)

LEMMA JoinsAppend ==
  ASSUME NEW r \in Seq(Int), NEW s \in Seq(Configs), NEW c \in Configs, Joins(r, s)
  PROVE  Joins(r \o c.run, Append(s, c))
<1> DEFINE n == Len(s)
           t == Append(s, c)
           q == r \o c.run
           m == Len(r)
           d == c.run
<1>1. /\ n \in Nat /\ m \in Nat /\ Len(d) \in Nat /\ d \in Seq(Int)
      /\ \A i \in 1 .. n : s[i] \in Configs /\ Len(s[i].run) \in Nat
  <2>1. d \in Seq(Int)
    BY DEF Configs
  <2>2. \A i \in 1 .. n : s[i] \in Configs
    BY ElementOfSeq
  <2>3. \A i \in 1 .. n : s[i].run \in Seq(Int)
    BY <2>2 DEF Configs
  <2>4. QED
    BY <2>1, <2>2, <2>3, LenProperties
<1>2. /\ Len(t) = n + 1 /\ t[n + 1] = c /\ \A i \in 1 .. n : t[i] = s[i]
  BY AppendProperties
<1>3. /\ Len(q) = m + Len(d)
      /\ \A i \in 1 .. m + Len(d) : q[i] = IF i <= m THEN r[i] ELSE d[i - m]
  BY <1>1, ConcatProperties
<1>4. PICK cut \in [0 .. n -> 0 .. m] :
        /\ cut[0] = 0 /\ cut[n] = m
        /\ \A i \in 1 .. n :
             /\ cut[i] = cut[i - 1] + Len(s[i].run)
             /\ \A k \in 1 .. Len(s[i].run) : r[cut[i - 1] + k] = s[i].run[k]
  BY DEF Joins
<1> DEFINE new == [i \in 0 .. n + 1 |-> IF i <= n THEN cut[i] ELSE m + Len(d)]
<1> HIDE DEF n, t, q, m, d
<1>5. /\ new \in [0 .. n + 1 -> 0 .. m + Len(d)]
      /\ new[n + 1] = m + Len(d) /\ \A i \in 0 .. n : new[i] = cut[i] /\ cut[i] \in 0 .. m
  BY <1>1, <1>4
<1> HIDE DEF new
<1>6. new[0] = 0
  BY <1>1, <1>4, <1>5
<1>7. ASSUME NEW i \in 1 .. n + 1
      PROVE  /\ new[i] = new[i - 1] + Len(t[i].run)
             /\ \A k \in 1 .. Len(t[i].run) : q[new[i - 1] + k] = t[i].run[k]
  <2>1. CASE i <= n
    <3>1. i \in 1 .. n /\ i \in 0 .. n /\ i - 1 \in 0 .. n
      BY <1>1, <2>1
    <3>2. t[i] = s[i] /\ new[i] = cut[i] /\ new[i - 1] = cut[i - 1]
      BY <1>2, <1>5, <3>1
    <3>3. cut[i] = cut[i - 1] + Len(s[i].run) /\ cut[i] \in 0 .. m /\ cut[i - 1] \in 0 .. m
      BY <1>4, <1>5, <3>1
    <3>4. ASSUME NEW k \in 1 .. Len(s[i].run) PROVE q[cut[i - 1] + k] = s[i].run[k]
      <4>1. PICK a \in 0 .. m : a = cut[i - 1]
        BY <3>3
      <4>2. PICK l \in Nat : l = Len(s[i].run)
        BY <1>1, <3>1
      <4>3. a + l \in 0 .. m /\ k \in 1 .. l
        BY <3>3, <3>4, <4>1, <4>2
      <4>4. a + k \in 1 .. m /\ a + k \in 1 .. m + Len(d) /\ a + k <= m
        BY <1>1, <4>3
      <4>5. q[a + k] = r[a + k]
        BY <1>3, <4>4
      <4>6. r[cut[i - 1] + k] = s[i].run[k]
        BY <1>4, <3>1, <3>4
      <4>7. QED
        BY <4>1, <4>5, <4>6
    <3>5. QED
      BY <3>2, <3>3, <3>4
  <2>2. CASE i = n + 1
    <3>1. /\ i - 1 = n /\ n \in 0 .. n
      BY <1>1, <2>2
    <3>2. t[i].run = d /\ new[i] = m + Len(d) /\ new[i - 1] = m
      BY <1>2, <1>4, <1>5, <2>2, <3>1 DEF d
    <3>3. ASSUME NEW k \in 1 .. Len(d) PROVE q[m + k] = d[k]
      <4>1. m + k \in 1 .. m + Len(d) /\ ~(m + k <= m) /\ (m + k) - m = k
        BY <1>1
      <4>2. QED
        BY <1>3, <4>1
    <3>4. QED
      BY <3>2, <3>3
  <2>3. i <= n \/ i = n + 1
    BY <1>1
  <2>4. QED
    BY <2>1, <2>2, <2>3
<1>8. Joins(q, t)
  <2>1. new \in [0 .. Len(t) -> 0 .. Len(q)] /\ new[Len(t)] = Len(q)
    BY <1>2, <1>3, <1>5
  <2>2. \A i \in 1 .. Len(t) :
          /\ new[i] = new[i - 1] + Len(t[i].run)
          /\ \A k \in 1 .. Len(t[i].run) : q[new[i - 1] + k] = t[i].run[k]
    BY <1>2, <1>7
  <2>3. QED
    BY <1>6, <2>1, <2>2 DEF Joins
<1>9. QED
  BY <1>8 DEF q, t, d

(* Merging one more source.                                                *)
LEMMA MergedAppend ==
  ASSUME NEW b \in Configs, NEW s \in Seq(Configs), NEW c \in Configs, Merged(b, s)
  PROVE  Merged(Merge(b, c), Append(s, c))
<1> DEFINE n == Len(s)
           t == Append(s, c)
<1>1. n \in Nat /\ Len(t) = n + 1 /\ t[n + 1] = c /\ \A i \in 1 .. n : t[i] = s[i]
  BY AppendProperties, LenProperties
<1>2. Joins(Merge(b, c).run, t)
  <2>1. Merge(b, c).run = b.run \o c.run /\ b.run \in Seq(Int)
    BY MergeKeepsTypes DEF Configs
  <2>2. QED
    BY <2>1, JoinsAppend DEF Merged
<1>3. Merge(b, c).field = IF b.field = 0 THEN c.field ELSE b.field
  BY DEF Merge
<1> HIDE DEF n, t
<1>4. CASE b.field = 0 /\ \A j \in 1 .. n : s[j].field = 0
  <2>1. Merge(b, c).field = c.field
    BY <1>3, <1>4
  <2>2. CASE c.field = 0
    <3>1. \A j \in 1 .. n + 1 : j = n + 1 \/ j \in 1 .. n
      BY <1>1
    <3>2. \A j \in 1 .. n + 1 : t[j].field = 0
      BY <1>1, <1>4, <2>2, <3>1
    <3>3. QED
      BY <1>1, <1>2, <2>1, <2>2, <3>2 DEF Merged, t
  <2>3. CASE c.field # 0
    <3>1. /\ n + 1 \in 1 .. Len(t) /\ t[n + 1].field # 0 /\ Merge(b, c).field = t[n + 1].field
      BY <1>1, <2>1, <2>3
    <3>2. \A j \in 1 .. (n + 1) - 1 : t[j].field = 0
      BY <1>1, <1>4
    <3>3. QED
      BY <1>2, <3>1, <3>2 DEF Merged, t
  <2>4. QED
    BY <2>2, <2>3
<1>5. ASSUME NEW i \in 1 .. n, b.field = s[i].field, s[i].field # 0,
             \A j \in 1 .. i - 1 : s[j].field = 0
      PROVE  Merged(Merge(b, c), t)
  <2>1. /\ i \in 1 .. Len(t) /\ t[i].field # 0 /\ Merge(b, c).field = t[i].field
    BY <1>1, <1>3, <1>5
  <2>2. \A j \in 1 .. i - 1 : j \in 1 .. n
    BY <1>1
  <2>3. \A j \in 1 .. i - 1 : t[j].field = 0
    BY <1>1, <1>5, <2>2
  <2>4. QED
    BY <1>2, <2>1, <2>3 DEF Merged
<1>6. QED
  BY <1>4, <1>5 DEF Merged, n, t

(* The last constructor to run becomes the first of them.                  *)
LEMMA ReverseFirst ==
  ASSUME NEW s \in Seq(Configs), NEW c \in Configs
  PROVE  /\ Reverse(s) \in Seq(Configs)
         /\ Reverse(<<c>> \o s) = Append(Reverse(s), c)
<1> DEFINE n == Len(s)
           o == <<c>>
           t == o \o s
<1>0. o \in Seq(Configs) /\ Len(o) = 1 /\ o[1] = c
  OBVIOUS
<1>1. n \in Nat /\ \A i \in 1 .. n : s[i] \in Configs
  BY LenProperties, ElementOfSeq
<1> HIDE DEF o
<1>2. /\ t \in Seq(Configs) /\ Len(t) = 1 + n
      /\ \A i \in 1 .. 1 + n : t[i] = IF i <= 1 THEN c ELSE s[i - 1]
  <2>1. /\ t \in Seq(Configs) /\ Len(t) = Len(o) + Len(s)
        /\ \A i \in 1 .. Len(o) + Len(s) : t[i] = IF i <= Len(o) THEN o[i] ELSE s[i - Len(o)]
    BY <1>0, ConcatProperties
  <2> HIDE DEF t
  <2>2. \A i \in 1 .. 1 + n : i <= 1 => i = 1
    OBVIOUS
  <2>3. QED
    BY <1>0, <2>1, <2>2
<1> HIDE DEF t
<1>3. /\ Reverse(s) \in Seq(Configs) /\ Len(Reverse(s)) = n
      /\ \A i \in 1 .. n : Reverse(s)[i] = s[(n - i) + 1]
  <2>1. \A i \in 1 .. n : (n - i) + 1 \in 1 .. n
    BY <1>1
  <2>2. Reverse(s) \in [1 .. n -> Configs]
    BY <1>1, <2>1 DEF Reverse
  <2>3. Reverse(s) \in Seq(Configs) /\ Len(Reverse(s)) = n
    BY <1>1, <2>2
  <2>4. QED
    BY <2>3 DEF Reverse
<1>4. /\ Reverse(t) \in Seq(Configs) /\ Len(Reverse(t)) = n + 1
      /\ \A i \in 1 .. n + 1 : Reverse(t)[i] = t[((n + 1) - i) + 1]
  <2>1. \A i \in 1 .. n + 1 : ((n + 1) - i) + 1 \in 1 .. n + 1
    BY <1>1
  <2>2. \A i \in 1 .. n + 1 : t[i] \in Configs
    BY <1>1, <1>2, ElementOfSeq
  <2>3. 1 + n = n + 1
    BY <1>1
  <2>4. Reverse(t) \in [1 .. n + 1 -> Configs]
    BY <1>1, <1>2, <2>1, <2>2, <2>3 DEF Reverse
  <2>5. Reverse(t) \in Seq(Configs) /\ Len(Reverse(t)) = n + 1
    BY <1>1, <2>4
  <2>6. QED
    BY <1>2, <2>3, <2>5 DEF Reverse
<1> DEFINE a == Append(Reverse(s), c)
<1>5. /\ a \in Seq(Configs) /\ Len(a) = n + 1 /\ a[n + 1] = c
      /\ \A i \in 1 .. n : a[i] = s[(n - i) + 1]
  BY <1>3, AppendProperties
<1> HIDE DEF a
<1>6. ASSUME NEW i \in 1 .. n + 1 PROVE Reverse(t)[i] = a[i]
  <2>1. CASE i = n + 1
    <3>1. ((n + 1) - i) + 1 = 1 /\ 1 \in 1 .. 1 + n
      BY <1>1, <2>1
    <3>2. t[1] = c
      BY <1>2, <3>1
    <3>3. QED
      BY <1>4, <1>5, <2>1, <3>1, <3>2
  <2>2. CASE i # n + 1
    <3>1. /\ i \in 1 .. n /\ ((n + 1) - i) + 1 \in 1 .. 1 + n /\ ~(((n + 1) - i) + 1 <= 1)
          /\ (((n + 1) - i) + 1) - 1 = (n - i) + 1
      BY <1>1, <2>2
    <3>2. t[((n + 1) - i) + 1] = s[(n - i) + 1]
      BY <1>2, <3>1
    <3>3. QED
      BY <1>4, <1>5, <3>1, <3>2
  <2>3. QED
    BY <2>1, <2>2
<1>7. Reverse(t) = a
  BY <1>4, <1>5, <1>6, SeqEqual
<1>8. QED
  BY <1>3, <1>7 DEF t, o, a

(* Appending to the second part appends to the whole.                      *)
LEMMA ConcatAppend ==
  ASSUME NEW S, NEW a \in Seq(S), NEW b \in Seq(S), NEW c \in S
  PROVE  a \o Append(b, c) = Append(a \o b, c)
  OBVIOUS

(* A source joins the others: one more that the caller gives before there  *)
(* are any of constructors, or one more of a constructor.                  *)
LEMMA SourcesAppend ==
  ASSUME NEW given \in Seq(Configs), NEW constructed \in Seq(Configs), NEW c \in Configs
  PROVE  /\ given \o Reverse(constructed) \in Seq(Configs)
         /\ given \o Reverse(<<c>> \o constructed) = Append(given \o Reverse(constructed), c)
         /\ Append(given, c) \o Reverse(<<>>) = Append(given \o Reverse(<<>>), c)
         /\ Reverse(<<>>) = <<>>
<1>1. /\ Reverse(constructed) \in Seq(Configs)
      /\ Reverse(<<c>> \o constructed) = Append(Reverse(constructed), c)
  BY ReverseFirst
<1> DEFINE r == Reverse(constructed)
<1> HIDE DEF r
<1>2. r \in Seq(Configs)
  BY <1>1 DEF r
<1>3. given \o r \in Seq(Configs)
  BY <1>2, ConcatProperties
<1>4. given \o Append(r, c) = Append(given \o r, c)
  BY <1>2, ConcatAppend
<1>5. Reverse(<<>>) = <<>>
  <2>1. \A i \in 1 .. 0 : FALSE
    OBVIOUS
  <2>2. <<>> \in Seq(Configs) /\ Len(<<>>) = 0
    OBVIOUS
  <2>3. Reverse(<<>>) \in Seq(Configs)
    BY <2>2, ReverseFirst
  <2>4. DOMAIN Reverse(<<>>) = 1 .. 0
    BY DEF Reverse
  <2>5. Len(Reverse(<<>>)) = 0
    BY <2>3, <2>4, LenProperties
  <2>6. QED
    BY <2>3, <2>5, EmptySeq
<1>6. Append(given, c) \o <<>> = Append(given, c) /\ given \o <<>> = given
  BY AppendProperties, ConcatEmptySeq
<1>7. QED
  BY <1>1, <1>3, <1>4, <1>5, <1>6 DEF r

LEMMA NothingMerged == Merged(EmptyConfig, <<>>)
<1>1. Len(<<>>) = 0 /\ EmptyConfig.field = 0 /\ EmptyConfig.run = <<>>
  BY DEF EmptyConfig
<1>2. Joins(<<>>, <<>>)
  <2> DEFINE cut == [i \in 0 .. 0 |-> 0]
  <2>1. cut \in [0 .. 0 -> 0 .. 0] /\ cut[0] = 0
    OBVIOUS
  <2> HIDE DEF cut
  <2>2. \A i \in 1 .. 0 : FALSE
    OBVIOUS
  <2>3. QED
    BY <1>1, <2>1, <2>2 DEF Joins
<1>3. QED
  BY <1>1, <1>2 DEF Merged

(* Only the sources of the goroutine that creates are left to show.        *)
LEMMA OthersSources ==
  ASSUME Kept, NEW g \in Creators, createMu = g,
         \A h \in Creators : h # g => at'[h] = at[h], SourcesOf(g)'
  PROVE  SourcesKept'
<1>1. ASSUME NEW h \in Creators, h # g PROVE SourcesOf(h)'
  <2>1. at'[h] \in {"idle", "lock"}
    BY <1>1, OneCreator
  <2>2. QED
    BY <2>1 DEF SourcesOf
<1>2. QED
  BY <1>1 DEF SourcesKept

LEMMA LockSources ==
  ASSUME Kept, NEW g \in Creators, NEW n \in Names, Lock(g, n) PROVE SourcesKept'
<1>1. /\ create'.given = <<>> /\ create'.constructed = <<>> /\ create'.finalConfig = EmptyConfig
  BY DEF Lock, Idle
<1>2. \A h \in Creators : at[h] \in {"idle", "lock"}
  BY CreatorsAssumption DEF Kept, CallsKept, CallOf, Lock
<1>3. at'[g] = "check" /\ \A h \in Creators : h # g => at'[h] = at[h]
  BY DEF Kept, Types, Lock, Goto
<1>4. QED
  BY <1>1, <1>2, <1>3 DEF SourcesKept, SourcesOf

LEMMA LeaveSources ==
  ASSUME Kept, NEW g \in Creators, at[g] \notin {"idle", "lock"}, Leave(g) PROVE SourcesKept'
<1>1. createMu = g
  BY DEF Kept, CallsKept, CallOf
<1>2. at'[g] = "idle" /\ \A h \in Creators : h # g => at'[h] = at[h]
  BY DEF Kept, Types, Leave, Goto
<1>3. SourcesOf(g)'
  BY <1>2 DEF SourcesOf
<1>4. QED
  BY <1>1, <1>2, <1>3, OthersSources

LEMMA CheckNameSources ==
  ASSUME Kept, SourcesKept, NEW g \in Creators, CheckName(g) PROVE SourcesKept'
<1>1. /\ at[g] = "check" /\ createMu = g /\ create.given = <<>> /\ create.constructed = <<>>
      /\ create.finalConfig = EmptyConfig
  BY DEF Kept, CallsKept, CallOf, CheckName, SourcesKept, SourcesOf
<1>2. CASE Leave(g)
  BY <1>1, <1>2, LeaveSources
<1>3. CASE Goto(g, "merge") /\ create' = create
  <2>1. at'[g] = "merge" /\ \A h \in Creators : h # g => at'[h] = at[h]
    BY <1>3 DEF Kept, Types, Goto
  <2>2. Sources' = <<>>
    <3>1. <<>> \in Seq(Configs) /\ EmptyConfig \in Configs
      BY DEF EmptyConfig, Configs
    <3>2. Reverse(<<>>) = <<>>
      BY <3>1, SourcesAppend
    <3>3. <<>> \o <<>> = <<>>
      BY <3>1, ConcatEmptySeq
    <3>4. Sources' = <<>> \o Reverse(<<>>)
      BY <1>1, <1>3 DEF Sources
    <3>5. QED
      BY <3>2, <3>3, <3>4
  <2>3. Merged(create'.finalConfig, Sources')
    BY <1>1, <1>3, <2>2, NothingMerged
  <2>4. SourcesOf(g)'
    BY <1>1, <1>3, <2>1, <2>3 DEF SourcesOf, Merged, Joins
  <2>5. QED
    BY <1>1, <2>1, <2>4, OthersSources
<1>4. QED
  BY <1>2, <1>3 DEF CheckName

LEMMA MergeGivenSources ==
  ASSUME Kept, SourcesKept, NEW g \in Creators, MergeGiven(g) PROVE SourcesKept'
<1>1. /\ at[g] = "merge" /\ createMu = g /\ create \in Calls /\ create.constructed = <<>>
      /\ Merged(create.finalConfig, Sources)
  <2>1. at[g] = "merge"
    BY DEF MergeGiven
  <2>2. createMu = g /\ create \in Calls
    BY <2>1 DEF Kept, CallsKept, CallOf, Types
  <2>3. create.constructed = <<>> /\ Merged(create.finalConfig, Sources)
    BY <2>1 DEF SourcesKept, SourcesOf
  <2>4. QED
    BY <2>1, <2>2, <2>3
<1>2. /\ create.given \in Seq(Configs) /\ create.finalConfig \in Configs
      /\ create.constructed \in Seq(Configs)
  BY <1>1 DEF Calls
<1>3. CASE Len(create.given) < NumConfigs
  <2>1. PICK config \in From(Len(create.given) + 1) :
          create' = [create EXCEPT !.given = Append(@, config),
                                   !.finalConfig = Merge(@, config)]
    BY ONLY <1>3, MergeGiven(g) DEF MergeGiven
  <2>2. Len(create.given) + 1 \in Nat
    BY <1>2
  <2>3. config \in Configs
    BY <2>2, FromKept
  <2>4. /\ create'.given = Append(create.given, config) /\ create'.constructed = <<>>
        /\ create'.finalConfig = Merge(create.finalConfig, config)
    BY <1>1, <2>1 DEF Calls
  <2>5. Sources' = Append(Sources, config) /\ Sources \in Seq(Configs)
    <3>1. /\ Append(create.given, config) \o Reverse(<<>>)
               = Append(create.given \o Reverse(<<>>), config)
          /\ create.given \o Reverse(create.constructed) \in Seq(Configs)
      BY <1>2, <2>3, SourcesAppend
    <3>2. Sources' = Append(create.given, config) \o Reverse(<<>>)
      BY <2>4 DEF Sources
    <3>3. QED
      BY <1>1, <3>1, <3>2 DEF Sources
  <2>6. Merged(create'.finalConfig, Sources')
    BY <1>1, <1>2, <2>3, <2>4, <2>5, MergedAppend
  <2>7. UNCHANGED at
    BY ONLY <1>3, MergeGiven(g) DEF MergeGiven
  <2>8. SourcesOf(g)'
    BY <1>1, <2>4, <2>6, <2>7 DEF SourcesOf, Merged, Joins
  <2>9. QED
    BY <1>1, <2>7, <2>8, OthersSources
<1>4. CASE ~(Len(create.given) < NumConfigs)
  <2>1. Goto(g, "construct") /\ create' = [create EXCEPT !.next = NumConstructors]
    BY <1>4 DEF MergeGiven
  <2>2. /\ create'.given = create.given /\ create'.constructed = create.constructed
        /\ create'.finalConfig = create.finalConfig
    BY <1>1, <2>1 DEF Calls
  <2>3. at'[g] = "construct" /\ \A h \in Creators : h # g => at'[h] = at[h]
    BY <2>1 DEF Kept, Types, Goto
  <2>4. Merged(create'.finalConfig, Sources')
    BY <1>1, <2>2 DEF Sources
  <2>5. SourcesOf(g)'
    BY <2>3, <2>4 DEF SourcesOf, Merged, Joins
  <2>6. QED
    BY <1>1, <2>3, <2>5, OthersSources
<1>5. QED
  BY <1>3, <1>4

LEMMA ConstructSources ==
  ASSUME Kept, SourcesKept, NEW g \in Creators, NEW config \in Configs, Construct(g, config)
  PROVE  SourcesKept'
<1>1. /\ at[g] = "construct" /\ createMu = g /\ create \in Calls
      /\ Merged(create.finalConfig, Sources)
  BY DEF Kept, CallsKept, CallOf, Construct, SourcesKept, SourcesOf, Types
<1>2. /\ create.given \in Seq(Configs) /\ create.finalConfig \in Configs
      /\ create.constructed \in Seq(Configs)
  BY <1>1 DEF Calls
<1>3. /\ create'.given = create.given /\ create'.constructed = <<config>> \o create.constructed
      /\ create'.finalConfig = Merge(create.finalConfig, config)
  <2>1. create' = [create EXCEPT !.next = create.next - 1,
                                 !.finalConfig = Merge(create.finalConfig, config),
                                 !.constructed = <<config>> \o create.constructed]
    BY DEF Construct
  <2>2. QED
    BY <1>1, <2>1 DEF Calls
<1>4. Sources' = Append(Sources, config) /\ Sources \in Seq(Configs)
  <2>1. Sources' = create.given \o Reverse(<<config>> \o create.constructed)
    BY <1>3 DEF Sources
  <2>2. QED
    BY <1>2, <2>1, SourcesAppend DEF Sources
<1>5. Merged(create'.finalConfig, Sources')
  BY <1>1, <1>2, <1>3, <1>4, MergedAppend
<1>6. at'[g] \in {"construct", "insert"} /\ \A h \in Creators : h # g => at'[h] = at[h]
  BY <1>1 DEF Kept, Types, Construct, Goto
<1>7. SourcesOf(g)'
  BY <1>5, <1>6 DEF SourcesOf, Merged, Joins
<1>8. QED
  BY <1>1, <1>6, <1>7, OthersSources

LEMMA SourcesStep == Kept /\ SourcesKept /\ [Next]_vars => SourcesKept'
<1>1. SUFFICES ASSUME Kept, SourcesKept, [Next]_vars PROVE SourcesKept'
  OBVIOUS
<1>2. ASSUME UNCHANGED <<at, create>> PROVE SourcesKept'
  BY <1>1, <1>2 DEF SourcesKept, SourcesOf, Sources, Merged, Joins
<1>3. ASSUME NEW g \in Creators, CreateCircuit(g) PROVE SourcesKept'
  <2>1. at'[g] = "lock" /\ create' = create /\ \A h \in Creators : h # g => at'[h] = at[h]
    BY <1>1, <1>3 DEF Kept, Types, CreateCircuit, Goto
  <2>2. QED
    BY <1>1, <2>1 DEF SourcesKept, SourcesOf, Sources, Merged, Joins
<1>4. ASSUME NEW g \in Creators, CreateConfig(g) PROVE SourcesKept'
  <2>1. [field |-> 0, run |-> <<-1 - creates>>] \in Configs
    BY <1>1 DEF Kept, Types, Configs
  <2>2. QED
    BY <1>1, <1>4, <2>1, ConstructSources DEF CreateConfig
<1>5. ASSUME NEW g \in Creators, UserConstructor(g) PROVE SourcesKept'
  <2>1. PICK config \in From(10 + create.next) : Construct(g, config)
    BY <1>5 DEF UserConstructor
  <2>2. 10 + create.next \in Nat
    BY <1>5, ConstructorsAssumption DEF UserConstructor
  <2>3. config \in Configs
    BY <2>2, FromKept
  <2>4. QED
    BY <1>1, <2>1, <2>3, ConstructSources
<1>6. ASSUME NEW g \in Creators, ConstructorPanics(g) \/ Insert(g) PROVE SourcesKept'
  <2>1. at[g] \notin {"idle", "lock"} /\ Leave(g)
    BY <1>6 DEF ConstructorPanics, Insert
  <2>2. QED
    BY <1>1, <2>1, LeaveSources
<1>7. CASE ManagerNext
  <2>1. ASSUME NEW g \in Creators, Create(g) PROVE SourcesKept'
    BY <1>1, <1>4, <1>5, <1>6, <2>1, LockSources, CheckNameSources, MergeGivenSources DEF Create
  <2>2. ASSUME NEW r \in Exporters, Var(r) \/ VarDone(r) PROVE SourcesKept'
    BY <1>2, <2>2 DEF Var, VarDone
  <2>3. QED
    BY <1>3, <1>6, <1>7, <2>1, <2>2 DEF ManagerNext
<1>8. CASE UNCHANGED managerVars
  BY <1>2, <1>8 DEF managerVars
<1>9. QED
  BY <1>1, <1>7, <1>8 DEF Next, vars

(* The circuit that is about to be filed has the configuration the manager *)
(* promises: what the caller gave first, then the constructors' from the   *)
(* last to the first, then the defaults, however many there are and        *)
(* whoever else creates circuits meanwhile.                                *)
THEOREM PrecedenceSafe == Spec => []ConfigPrecedence
<1>1. Init => SourcesKept
  BY DEF Init, ManagerInit, SourcesKept, SourcesOf
<1>2. Kept /\ SourcesKept /\ [Next]_vars => SourcesKept'
  BY SourcesStep
<1>3. Kept /\ SourcesKept => ConfigPrecedence
  <2>1. SUFFICES ASSUME Kept, SourcesKept, NEW g \in Creators, at[g] = "insert"
                 PROVE  ConfigPrecedence
    BY DEF ConfigPrecedence
  <2>2. /\ Merged(create.finalConfig, Sources) /\ create \in Calls
    BY <2>1 DEF SourcesKept, SourcesOf, Kept, Types
  <2>3. create.finalConfig \in Configs /\ defaultCommandProperties \in Configs
    BY <2>2 DEF Calls, Configs, defaultCommandProperties
  <2>4. Sources \in Seq(Configs)
    BY <2>2, <2>3, SourcesAppend DEF Calls, Sources
  <2> DEFINE all == Sources \o <<defaultCommandProperties>>
  <2>5. all = Append(Sources, defaultCommandProperties)
    BY <2>3, <2>4, AppendIsConcat
  <2>6. Merged(Built, all)
    BY <2>2, <2>3, <2>4, <2>5, MergedAppend DEF Built
  <2>7. Len(all) = Len(Sources) + 1 /\ all[Len(Sources) + 1] = defaultCommandProperties
        /\ Len(Sources) \in Nat
    BY <2>3, <2>4, <2>5, AppendProperties, LenProperties
  <2> HIDE DEF all
  <2>8. ~\A j \in 1 .. Len(all) : all[j].field = 0
    <3>1. Len(Sources) + 1 \in 1 .. Len(all) /\ all[Len(Sources) + 1].field # 0
      BY <2>7 DEF defaultCommandProperties
    <3>2. QED
      BY <3>1
  <2>9. /\ \E i \in 1 .. Len(all) :
             /\ Built.field = all[i].field /\ all[i].field # 0
             /\ \A j \in 1 .. i - 1 : all[j].field = 0
        /\ Joins(Built.run, all)
    BY <2>6, <2>8 DEF Merged
  <2>10. all = create.given \o Reverse(create.constructed) \o <<defaultCommandProperties>>
    BY DEF all, Sources
  <2>11. QED
    BY <2>9, <2>10 DEF ConfigPrecedence
<1>4. QED
  BY <1>1, <1>2, <1>3, KeptInit, KeptStep, PTL DEF Spec
=============================================================================
