------------------------------ MODULE Manager -------------------------------
(***************************************************************************)
(* circuit.Manager: circuits by name.  CreateCircuit runs under createMu,  *)
(* reads the map under mu, merges the given configurations and then those  *)
(* of the DefaultCircuitProperties constructors (user code that may read   *)
(* the manager, and may panic), and takes mu again for the insertion.  The *)
(* last constructor is rolling.StatFactory.CreateConfig, which files the   *)
(* stats it makes under the circuit's name.                                *)
(*                                                                         *)
(* A configuration is one field for all those that Merge treats alike (0   *)
(* is unset) and one list of collectors: negative numbers are              *)
(* rolling.RunStats, the others are of other types.                        *)
(***************************************************************************)
EXTENDS Integers, FiniteSets, SequencesExt

CONSTANTS
  Creators,         \* goroutines that create circuits
  Exporters,        \* goroutines that export the manager's Var
  NoHolder,         \* createMu while it is free
  Names,
  NumConstructors,  \* the length of DefaultCircuitProperties
  NumConfigs,       \* how many configurations a call of CreateCircuit gives
  MaxCreates        \* bound: calls of CreateCircuit

ASSUME CreatorsAssumption == NoHolder \notin Creators
ASSUME ConstructorsAssumption == NumConstructors \in Nat \ {0} /\ NumConfigs \in Nat

VARIABLES
  circuitMap,      \* name -> the stats of its circuit, NoCircuit while there is none
  statsByCircuit,  \* StatFactory: name -> the stats filed under it
  createMu,        \* the goroutine that creates
  rlocked,         \* the exporters that hold mu
  at,              \* creator -> where it is in CreateCircuit
  create,          \* its locals and, as history, what its constructors gave
  creates          \* how many calls of CreateCircuit have got createMu

managerVars == <<circuitMap, statsByCircuit, createMu, rlocked, at, create, creates>>

NoCircuit == 0

(* What a source of configuration may give: nothing, or k for everything.  *)
EmptyConfig == [field |-> 0, run |-> <<>>]
From(k) == {EmptyConfig, [field |-> k, run |-> <<k>>]}
defaultCommandProperties == [field |-> -1, run |-> <<>>]

(* Mutant of Merge: what comes later wins.                                 *)
MergeLater(c, other) ==
  [field |-> IF other.field = 0 THEN c.field ELSE other.field, run |-> c.run \o other.run]

Merge(c, other) ==
  [field |-> IF c.field = 0 THEN other.field ELSE c.field, run |-> c.run \o other.run]

Idle == [name |-> CHOOSE n \in Names : TRUE, given |-> <<>>,
         finalConfig |-> EmptyConfig, next |-> 0, constructed |-> <<>>]

(* Circuits may have been created before.                                  *)
ManagerInit ==
  /\ \E existing \in {{}, Names} :
       circuitMap = [n \in Names |-> IF n \in existing THEN -1 ELSE NoCircuit]
  /\ statsByCircuit = circuitMap
  /\ createMu = NoHolder
  /\ rlocked = {}
  /\ at = [g \in Creators |-> "idle"]
  /\ create = Idle
  /\ creates = 0

(* Mutant of CanRLock: mu is held while the constructors run.              *)
CanRLockBetweenCreates == \A g \in Creators : at[g] \notin {"merge", "construct", "insert"}

(* A writer that waits for mu keeps new readers out.                       *)
CanRLock == \A g \in Creators : at[g] # "insert"

Goto(g, location) == at' = [at EXCEPT ![g] = location]

(* createMu is released and the call returns or unwinds.                   *)
Leave(g) == Goto(g, "idle") /\ createMu' = NoHolder /\ create' = Idle

(* The calls of CreateCircuit so far: the model bounds them.               *)
Called == creates + Cardinality({g \in Creators : at[g] = "lock"})

CreateCircuit(g) ==
  /\ at[g] = "idle" /\ Called < MaxCreates
  /\ Goto(g, "lock")
  /\ UNCHANGED <<circuitMap, statsByCircuit, createMu, rlocked, create, creates>>

Lock(g, n) ==
  /\ at[g] = "lock" /\ createMu = NoHolder
  /\ createMu' = g
  /\ create' = [Idle EXCEPT !.name = n]
  /\ creates' = creates + 1
  /\ Goto(g, "check")
  /\ UNCHANGED <<circuitMap, statsByCircuit, rlocked>>

(* Mutant of Exists: a duplicate replaces the circuit.                     *)
NeverExists == FALSE

Exists == circuitMap[create.name] # NoCircuit

(* A duplicate ends the call before any constructor runs.                  *)
CheckName(g) ==
  /\ at[g] = "check" /\ CanRLock
  /\ IF Exists THEN Leave(g) ELSE Goto(g, "merge") /\ UNCHANGED <<createMu, create>>
  /\ UNCHANGED <<circuitMap, statsByCircuit, rlocked, creates>>

(* The configurations that the call gives are merged in their order ...    *)
MergeGiven(g) ==
  /\ at[g] = "merge"
  /\ IF Len(create.given) < NumConfigs
       THEN /\ \E config \in From(Len(create.given) + 1) :
                 create' = [create EXCEPT !.given = Append(@, config),
                                          !.finalConfig = Merge(@, config)]
            /\ UNCHANGED at
       ELSE Goto(g, "construct") /\ create' = [create EXCEPT !.next = NumConstructors]
  /\ UNCHANGED <<circuitMap, statsByCircuit, createMu, rlocked, creates>>

(* ... and then a constructor runs, from the last one to the first.        *)
Construct(g, config) ==
  /\ at[g] = "construct"
  /\ create' = [create EXCEPT !.next = @ - 1, !.finalConfig = Merge(@, config),
                              !.constructed = <<config>> \o @]
  /\ IF create.next = 1 THEN Goto(g, "insert") ELSE UNCHANGED at
  /\ UNCHANGED <<circuitMap, createMu, rlocked, creates>>

(* StatFactory.CreateConfig makes new stats: their number is that of the   *)
(* call, of which createMu lets in one after the other, and no other call  *)
(* has it (-1 stands for the stats of the circuits created before).        *)
CreateConfig(g) ==
  /\ create.next = NumConstructors
  /\ Construct(g, [field |-> 0, run |-> <<-1 - creates>>])
  /\ statsByCircuit' = [statsByCircuit EXCEPT ![create.name] = -1 - creates]

(* The others are user code, which looks up circuits, or panics.           *)
UserConstructor(g) ==
  /\ create.next \in 1 .. NumConstructors - 1
  /\ CanRLock
  /\ \E config \in From(10 + create.next) : Construct(g, config)
  /\ UNCHANGED statsByCircuit

ConstructorPanics(g) ==
  /\ at[g] = "construct" /\ create.next < NumConstructors
  /\ Leave(g)
  /\ UNCHANGED <<circuitMap, statsByCircuit, rlocked, creates>>

(* FindCommandMetrics: the first stats among the collectors of a circuit.  *)
FindCommandMetrics(config) ==
  config.run[CHOOSE i \in DOMAIN config.run :
               config.run[i] < 0 /\ \A j \in 1 .. i - 1 : config.run[j] >= 0]

(* NewCircuitFromConfig adds the defaults; the circuit is filed under mu.  *)
Built == Merge(create.finalConfig, defaultCommandProperties)
Insert(g) ==
  /\ at[g] = "insert" /\ rlocked = {}
  /\ circuitMap' = [circuitMap EXCEPT ![create.name] = FindCommandMetrics(Built)]
  /\ Leave(g)
  /\ UNCHANGED <<statsByCircuit, rlocked, creates>>

(* Manager.Var renders every circuit with mu held for reading.             *)
Var(r) ==
  /\ r \notin rlocked /\ CanRLock
  /\ rlocked' = rlocked \cup {r}
  /\ UNCHANGED <<circuitMap, statsByCircuit, createMu, at, create, creates>>

VarDone(r) ==
  /\ r \in rlocked
  /\ rlocked' = rlocked \ {r}
  /\ UNCHANGED <<circuitMap, statsByCircuit, createMu, at, create, creates>>

(* What a call of CreateCircuit goes through unless it panics.             *)
Create(g) ==
  \/ \E n \in Names : Lock(g, n)
  \/ CheckName(g) \/ MergeGiven(g) \/ CreateConfig(g) \/ UserConstructor(g) \/ Insert(g)

-----------------------------------------------------------------------------
(* Properties.                                                             *)

(* A circuit and StatFactory agree: the stats filed under a name are the   *)
(* ones its circuit reports to, although constructors run before the       *)
(* circuit is in the map, and calls may be duplicates or panic halfway.    *)
StatsMatchCircuit ==
  \A n \in Names :
    circuitMap[n] # NoCircuit => statsByCircuit[n] = circuitMap[n]

(* A list of collectors is those of the sources, one after the other: the  *)
(* first cut[i] of them come from the first i sources.                     *)
Joins(run, sources) ==
  \E cut \in [0 .. Len(sources) -> 0 .. Len(run)] :
    /\ cut[0] = 0 /\ cut[Len(sources)] = Len(run)
    /\ \A i \in 1 .. Len(sources) :
         /\ cut[i] = cut[i - 1] + Len(sources[i].run)
         /\ \A k \in 1 .. Len(sources[i].run) : run[cut[i - 1] + k] = sources[i].run[k]

(* "The most recently appending constructor is more important": what the   *)
(* caller gives comes first, in its order, then the constructors from the  *)
(* last to the first, then the defaults; a field is the first of them that *)
(* sets it, and no collector is left out.                                  *)
ConfigPrecedence ==
  (\E g \in Creators : at[g] = "insert") =>
    LET sources == create.given \o Reverse(create.constructed) \o <<defaultCommandProperties>>
    IN
    /\ \E i \in 1 .. Len(sources) :
         /\ Built.field = sources[i].field /\ sources[i].field # 0
         /\ \A j \in 1 .. i - 1 : sources[j].field = 0
    /\ Joins(Built.run, sources)

(* CreateCircuit returns, whatever its constructors look up meanwhile:     *)
(* nobody waits for a lock that waits for it.                              *)
CreateReturns == \A g \in Creators : at[g] # "idle" ~> at[g] = "idle"
=============================================================================
