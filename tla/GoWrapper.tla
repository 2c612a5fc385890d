----------------------------- MODULE GoWrapper ------------------------------
(***************************************************************************)
(* Circuit.Go: the run function and then, perhaps, the fallback, each in a *)
(* goroutine of its own (goroutineWrapper.run) that the caller abandons    *)
(* when its context is done.  The goroutine leaves its outcome in one of   *)
(* two channels of capacity one; the caller, or once it has left the       *)
(* goroutine of waitForErrors, receives it.  The two parts share the       *)
(* parent context; the run function's own may time out before.             *)
(*                                                                         *)
(* skipCatchPanics is never set, so that panicResult is never nil.         *)
(***************************************************************************)
EXTENDS Naturals, Sequences

VARIABLES
  lostErrors,   \* was GeneralConfig.GoLostErrors given
  parentDone,   \* the caller's context is done
  timedOut,     \* the context of the run function has passed its deadline
  caller,       \* part -> where the caller is with it
  child,        \* part -> its goroutine
  outcome,      \* part -> how its function ended
  channel,      \* part -> its channels runFuncErr and panicResult
  waiter,       \* part -> the goroutine of waitForErrors
  told          \* history: part -> who was told of its outcome, and what

vars == <<lostErrors, parentDone, timedOut, caller, child, outcome, channel, waiter, told>>

Parts == {"run", "fallback"}
Outcomes == {"nil", "error", "panic"}  \* "goexit" leaves nothing to tell
Channels == {"runFuncErr", "panicResult"}

Init ==
  /\ lostErrors \in BOOLEAN
  /\ parentDone \in BOOLEAN
  /\ timedOut = FALSE
  /\ caller = [p \in Parts |-> IF p = "run" THEN "call" ELSE "none"]
  /\ child = [p \in Parts |-> "none"]
  /\ outcome = [p \in Parts |-> "none"]
  /\ channel = [p \in Parts |-> [c \in Channels |-> "empty"]]
  /\ waiter = [p \in Parts |-> "none"]
  /\ told = [p \in Parts |-> <<>>]

Done(p) == parentDone \/ (p = "run" /\ timedOut)
ContextEnds ==
  /\ \/ ~parentDone /\ parentDone' = TRUE /\ UNCHANGED timedOut
     \/ ~timedOut /\ caller["run"] = "select" /\ timedOut' = TRUE /\ UNCHANGED parentDone
  /\ UNCHANGED <<lostErrors, caller, child, outcome, channel, waiter, told>>

-----------------------------------------------------------------------------
(* The goroutine of a part.                                                *)

FunctionEnds(p, how) ==
  /\ child[p] = "running"
  /\ outcome' = [outcome EXCEPT ![p] = how]
  /\ child' = [child EXCEPT ![p] = IF how = "goexit" THEN "ended" ELSE "send"]
  /\ UNCHANGED <<lostErrors, parentDone, timedOut, caller, channel, waiter, told>>

(* The channel an outcome goes to; a recovered panic has its own.          *)
Target(how) == IF how = "panic" THEN "panicResult" ELSE "runFuncErr"

(* Mutant of HasRoom: channels without a buffer need a waiting receiver.   *)
HasReceiver(p, c) ==
  channel[p][c] = "empty" /\ (caller[p] = "select" \/ waiter[p] = "wait")

HasRoom(p, c) == channel[p][c] = "empty"

(* A send on a closed channel crashes the program.                         *)
Send(p) ==
  LET c == Target(outcome[p])
      closed == channel[p][c] = "closed"
  IN
  /\ child[p] = "send"
  /\ closed \/ HasRoom(p, c)
  /\ channel' = [channel EXCEPT ![p][c] = IF closed THEN @ ELSE "full"]
  /\ child' = [child EXCEPT ![p] = IF closed THEN "crashed" ELSE "ended"]
  /\ UNCHANGED <<lostErrors, parentDone, timedOut, caller, outcome, waiter, told>>

-----------------------------------------------------------------------------
(* A receive from a channel of part p: what was sent, or nothing when it   *)
(* is closed.  The news is for who.                                        *)
Receive(p, c, who) ==
  /\ channel[p][c] # "empty"
  /\ channel' = IF channel[p][c] = "full"
                  THEN [channel EXCEPT ![p][c] = "empty"] ELSE channel
  /\ told' = [told EXCEPT ![p] =
       Append(@, [who |-> who,
                  what |-> IF channel[p][c] = "full" THEN outcome[p] ELSE "nil"])]

(* The caller's select.                                                    *)
SelectResult(p, c) ==
  /\ caller[p] = "select"
  /\ Receive(p, c, "caller")
  /\ caller' = [caller EXCEPT ![p] = told'[p][1].what]
  /\ UNCHANGED <<lostErrors, parentDone, timedOut, child, outcome, waiter>>

(* The caller leaves; somebody stays for the lost error.                   *)
WaiterFor(p) == IF lostErrors THEN "wait" ELSE "none"

(* Mutant of SelectDone: the fallback is called without the wrapper.       *)
SelectDoneInRun(p) ==
  /\ p = "run" /\ caller[p] = "select" /\ Done(p)
  /\ waiter' = [waiter EXCEPT ![p] = WaiterFor(p)]
  /\ caller' = [caller EXCEPT ![p] = "ctxErr"]
  /\ UNCHANGED <<lostErrors, parentDone, timedOut, child, outcome, channel, told>>

SelectDone(p) ==
  /\ caller[p] = "select" /\ Done(p)
  /\ waiter' = [waiter EXCEPT ![p] = WaiterFor(p)]
  /\ caller' = [caller EXCEPT ![p] = "ctxErr"]
  /\ UNCHANGED <<lostErrors, parentDone, timedOut, child, outcome, channel, told>>

(* Mutant of Spawn: waitForErrors runs from the start.                     *)
SpawnBoth(p) ==
  /\ child' = [child EXCEPT ![p] = "running"]
  /\ caller' = [caller EXCEPT ![p] = "select"]
  /\ waiter' = [waiter EXCEPT ![p] = WaiterFor(p)]
  /\ UNCHANGED <<lostErrors, parentDone, timedOut, outcome, channel, told>>

Spawn(p) ==
  /\ child' = [child EXCEPT ![p] = "running"]
  /\ caller' = [caller EXCEPT ![p] = "select"]
  /\ UNCHANGED <<lostErrors, parentDone, timedOut, outcome, channel, waiter, told>>

Go == caller["run"] = "call" /\ Spawn("run")

(* Execute goes on to the fallback after an error, the context's included, *)
(* or ends: no fallback given, disabled, throttled, or a bad request.      *)
Failed == caller["run"] \in {"error", "ctxErr"}
Fallback == Failed /\ caller["fallback"] = "none" /\ Spawn("fallback")
NoFallback ==
  /\ Failed /\ caller["fallback"] = "none"
  /\ caller' = [caller EXCEPT !["fallback"] = "skipped"]
  /\ UNCHANGED <<lostErrors, parentDone, timedOut, child, outcome, channel, waiter, told>>

Returned ==
  \/ caller["run"] \in {"nil", "panic"}
  \/ caller["fallback"] \notin {"none", "select"}

-----------------------------------------------------------------------------
(* waitForErrors: the callback gets the outcome, then the channels close.  *)

(* Mutant of LostError: a panic is not waited for.                         *)
LostReturn(p, c) ==
  /\ c = "runFuncErr" /\ waiter[p] = "wait"
  /\ Receive(p, c, "lostErrors")
  /\ waiter' = [waiter EXCEPT ![p] = "close"]
  /\ UNCHANGED <<lostErrors, parentDone, timedOut, caller, child, outcome>>

LostError(p, c) ==
  /\ waiter[p] = "wait"
  /\ Receive(p, c, "lostErrors")
  /\ waiter' = [waiter EXCEPT ![p] = "close"]
  /\ UNCHANGED <<lostErrors, parentDone, timedOut, caller, child, outcome>>

Close(p) ==
  /\ waiter[p] = "close"
  /\ channel' = [channel EXCEPT ![p] = [c \in Channels |-> "closed"]]
  /\ waiter' = [waiter EXCEPT ![p] = "ended"]
  /\ UNCHANGED <<lostErrors, parentDone, timedOut, caller, child, outcome, told>>

-----------------------------------------------------------------------------
Caller ==
  \/ Go \/ Fallback \/ NoFallback
  \/ \E p \in Parts : SelectDone(p) \/ \E c \in Channels : SelectResult(p, c)

Waiter(p) == Close(p) \/ \E c \in Channels : LostError(p, c)

Next ==
  \/ ContextEnds
  \/ Caller
  \/ \E p \in Parts :
       Send(p) \/ Waiter(p) \/ \E how \in Outcomes \cup {"goexit"} : FunctionEnds(p, how)

(* Goroutines run; nothing makes a user function or a context end.         *)
Fairness == WF_vars(Caller) /\ \A p \in Parts : WF_vars(Send(p)) /\ WF_vars(Waiter(p))

Spec == Init /\ [][Next]_vars /\ Fairness

-----------------------------------------------------------------------------
(* Properties.                                                             *)

(* However the select of run and the one of waitForErrors resolve, an      *)
(* outcome is told at most once and as it was: to the caller, or to        *)
(* GoLostErrors when the caller left with the context's error.  And a      *)
(* goroutine never sends on a channel that waitForErrors has closed.       *)
ToldOnce ==
  \A p \in Parts :
    /\ child[p] # "crashed"
    /\ Len(told[p]) <= 1
    /\ \A i \in DOMAIN told[p] :
         /\ told[p][i].what = outcome[p]
         /\ told[p][i].who = "lostErrors" => lostErrors /\ caller[p] = "ctxErr"

(* Go "uses spawned goroutines to end early if the context is canceled":   *)
(* it returns even if neither function ever does.                          *)
EndsWithContext == parentDone ~> Returned

(* With GoLostErrors every return and every panic of a function is heard,  *)
(* be the caller still there or not.                                       *)
EveryOutcomeHeard ==
  \A p \in Parts : lostErrors /\ outcome[p] \in Outcomes ~> told[p] # <<>>

(* A function that returns or panics leaves no goroutine behind, neither   *)
(* its own nor the one that waits for its error.                           *)
NothingLeaks ==
  \A p \in Parts :
    outcome[p] \in Outcomes
      ~> [](child[p] = "ended" /\ waiter[p] \in {"none", "ended"})
=============================================================================
