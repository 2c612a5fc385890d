---------------------------- MODULE EventStream -----------------------------
(***************************************************************************)
(* metriceventstream.MetricEventStream over a Manager that still gets      *)
(* circuits: Start ticks, collects an event per circuit and offers it to   *)
(* the channel of every registered client; ServeHTTP registers a client    *)
(* and writes what its channel holds until the request ends, a write fails *)
(* or the stream is closed.  An event is not looked into.                  *)
(***************************************************************************)
EXTENDS Manager, FiniteSets

CONSTANTS
  Clients,        \* HTTP requests
  Capacity,       \* of a client's channel
  StreamCreators  \* bound: these creators create a circuit each while there is a stream

ASSUME StreamAssumption == Capacity \in Nat \ {0} /\ StreamCreators \subseteq Creators

VARIABLES
  loop,      \* Start: where it is
  batch,     \* the circuits it has yet to collect
  places,    \* placesToSend: the clients its event is yet to be offered to
  streams,   \* eventStreams: the registered clients
  queue,     \* client -> how many events its channel holds
  handler,   \* client -> where its ServeHTTP is
  closeChan  \* has closeChan been closed

streamVars == <<loop, batch, places, streams, queue, handler, closeChan>>
vars == <<managerVars, streamVars>>

Init ==
  /\ ManagerInit
  /\ loop \in {"select", "unused"}  \* is there a stream at all
  /\ batch = {} /\ places = {} /\ streams = {}
  /\ queue = [c \in Clients |-> 0]
  /\ handler = [c \in Clients |-> "idle"]
  /\ closeChan = FALSE

-----------------------------------------------------------------------------
(* Start.                                                                  *)

(* The timer fires; without listeners nothing is collected.                *)
Tick ==
  /\ loop = "select" /\ streams # {}
  /\ loop' = "collect"
  /\ UNCHANGED <<batch, places, streams, queue, handler, closeChan>>

AllCircuits == {n \in Names : circuitMap[n] # NoCircuit}

Collect ==
  /\ loop = "collect" /\ CanRLock
  /\ batch' = AllCircuits
  /\ loop' = "send"
  /\ UNCHANGED <<places, streams, queue, handler, closeChan>>

(* sendEvent takes the registered clients under its lock.                  *)
NextEvent(n) ==
  /\ loop = "send" /\ places = {} /\ n \in batch
  /\ batch' = batch \ {n}
  /\ places' = streams
  /\ UNCHANGED <<loop, streams, queue, handler, closeChan>>

(* Mutant of AfterFull: the event is given up at the first full channel.   *)
GiveUp(c) == {}

AfterFull(c) == places \ {c}

Offer(c) ==
  /\ loop = "send" /\ c \in places
  /\ IF queue[c] < Capacity
       THEN queue' = [queue EXCEPT ![c] = @ + 1] /\ places' = places \ {c}
       ELSE places' = AfterFull(c) /\ UNCHANGED queue
  /\ UNCHANGED <<loop, batch, streams, handler, closeChan>>

BatchEnds ==
  /\ loop = "send" /\ places = {} /\ batch = {}
  /\ loop' = "select"
  /\ UNCHANGED <<batch, places, streams, queue, handler, closeChan>>

(* Mutant of LoopCloses: only a loop without listeners looks at closeChan. *)
LoopClosesUnheard ==
  /\ loop = "select" /\ closeChan /\ streams = {}
  /\ loop' = "ended"
  /\ UNCHANGED <<batch, places, streams, queue, handler, closeChan>>

LoopCloses ==
  /\ loop = "select" /\ closeChan
  /\ loop' = "ended"
  /\ UNCHANGED <<batch, places, streams, queue, handler, closeChan>>

Loop ==
  \/ Tick \/ Collect \/ BatchEnds
  \/ \E n \in Names : NextEvent(n)
  \/ \E c \in Clients : Offer(c)

-----------------------------------------------------------------------------
(* ServeHTTP and Close.                                                    *)

HandlerGoto(c, location) == handler' = [handler EXCEPT ![c] = location]

Register(c) ==
  /\ loop # "unused" /\ handler[c] = "idle"
  /\ streams' = streams \cup {c}
  /\ HandlerGoto(c, "header")
  /\ UNCHANGED <<loop, batch, places, queue, closeChan>>

HeaderSent(c) ==
  /\ handler[c] = "header"
  /\ HandlerGoto(c, "select")
  /\ UNCHANGED <<loop, batch, places, streams, queue, closeChan>>

SelectBytes(c) ==
  /\ handler[c] = "select" /\ queue[c] > 0
  /\ queue' = [queue EXCEPT ![c] = @ - 1]
  /\ HandlerGoto(c, "write")
  /\ UNCHANGED <<loop, batch, places, streams, closeChan>>

WriteEnds(c, ok) ==
  /\ handler[c] = "write"
  /\ HandlerGoto(c, IF ok THEN "select" ELSE "leave")
  /\ UNCHANGED <<loop, batch, places, streams, queue, closeChan>>

(* The request's context is done, or the stream is closed.                 *)
SelectDone(c) ==
  /\ handler[c] = "select"
  /\ HandlerGoto(c, "leave")
  /\ UNCHANGED <<loop, batch, places, streams, queue, closeChan>>

SelectClosed(c) == closeChan /\ SelectDone(c)

(* Mutant of Unregister: the client stays registered.                      *)
LeaveEntry(c) ==
  /\ handler[c] = "leave"
  /\ HandlerGoto(c, "gone")
  /\ UNCHANGED <<loop, batch, places, streams, queue, closeChan>>

(* The deferred delete.                                                    *)
Unregister(c) ==
  /\ handler[c] = "leave"
  /\ streams' = streams \ {c}
  /\ HandlerGoto(c, "gone")
  /\ UNCHANGED <<loop, batch, places, queue, closeChan>>

Close ==
  /\ loop # "unused" /\ ~closeChan
  /\ closeChan' = TRUE
  /\ UNCHANGED <<loop, batch, places, streams, queue, handler>>

-----------------------------------------------------------------------------
Handler(c) ==
  \/ Register(c) \/ HeaderSent(c) \/ SelectBytes(c) \/ SelectDone(c) \/ Unregister(c)
  \/ \E ok \in BOOLEAN : WriteEnds(c, ok)

StreamNext == Loop \/ LoopCloses \/ Close \/ \E c \in Clients : Handler(c)

MayCreate(g) == loop # "unused" => g \in StreamCreators /\ Called < Cardinality(StreamCreators)

ManagerNext ==
  \/ \E g \in Creators :
       \/ CreateCircuit(g) /\ MayCreate(g)
       \/ Create(g) \/ ConstructorPanics(g)
  \/ \E r \in Exporters : Var(r) \/ VarDone(r)

Next ==
  \/ ManagerNext /\ UNCHANGED streamVars
  \/ StreamNext /\ UNCHANGED managerVars

(* Goroutines run, constructors return, timers fire, and a select with     *)
(* several ready cases takes each of them sooner or later.  Nothing makes  *)
(* a client register, read or leave, and nobody has to call Close.         *)
Fairness ==
  /\ \A g \in Creators : WF_vars(Create(g) /\ UNCHANGED streamVars)
  /\ \A r \in Exporters : WF_vars(VarDone(r) /\ UNCHANGED streamVars)
  /\ WF_vars(Loop /\ UNCHANGED managerVars)
  /\ SF_vars(LoopCloses /\ UNCHANGED managerVars)
  /\ \A c \in Clients :
       /\ WF_vars((SelectBytes(c) \/ Unregister(c)) /\ UNCHANGED managerVars)
       /\ SF_vars(SelectClosed(c) /\ UNCHANGED managerVars)

Spec == Init /\ [][Next]_vars /\ Fairness

-----------------------------------------------------------------------------
(* Properties.                                                             *)

(* A client that does not read costs the others nothing: while there are   *)
(* circuits every registered client gets an event, although the loop never *)
(* waits for one and circuits are created meanwhile.                       *)
EveryListenerServed ==
  \A c \in Clients :
    c \in streams /\ AllCircuits # {}
      ~> queue[c] > 0 \/ handler[c] \in {"write", "leave", "gone"} \/ closeChan

(* "Don't collect events if nobody is listening": once the last client has *)
(* left, however it left, the loop does not work any more.                 *)
IdleWithoutListeners ==
  <>[](\A c \in Clients : handler[c] \in {"idle", "gone"})
    => <>[](loop \in {"select", "ended", "unused"})

(* Close ends Start and every ServeHTTP that is not inside a write, with   *)
(* all the other cases of their selects ready as well.                     *)
CloseEndsAll ==
  closeChan ~> /\ loop = "ended"
               /\ \A c \in Clients : handler[c] \in {"idle", "header", "write", "gone"}
=============================================================================
