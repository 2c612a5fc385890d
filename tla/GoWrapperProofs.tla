-------------------------- MODULE GoWrapperProofs ---------------------------
(* Proofs about GoWrapper: who is told of the outcome of a function that   *)
(* runs in a goroutine of its own.                                         *)
EXTENDS GoWrapper, SequenceTheorems, TLAPS

Callers == {"none", "call", "skipped", "select", "ctxErr"} \cup Outcomes
News == [who : {"caller", "lostErrors"}, what : Outcomes]

(* Every variable has its type; no goroutine has crashed.                  *)
TypeOK ==
  /\ lostErrors \in BOOLEAN
  /\ caller \in [Parts -> Callers]
  /\ child \in [Parts -> {"none", "running", "send", "ended"}]
  /\ outcome \in [Parts -> Outcomes \cup {"none", "goexit"}]
  /\ channel \in [Parts -> [Channels -> {"empty", "full", "closed"}]]
  /\ waiter \in [Parts -> {"none", "wait", "close", "ended"}]
  /\ told \in [Parts -> Seq(News)]

(* The outcome of part p is told at most once because it is in one place:  *)
(* until its goroutine has sent it nowhere, then in one channel, and once  *)
(* it is told there is nothing left to receive and nobody left to receive  *)
(* it.  The channels are closed after that.                                *)
InOnePlace(p) ==
  /\ child[p] # "ended" => told[p] = <<>> /\ \A c \in Channels : channel[p][c] = "empty"
  /\ child[p] = "send" => outcome[p] \in Outcomes
  /\ \A c \in Channels :
       channel[p][c] = "full" =>
         /\ told[p] = <<>> /\ outcome[p] \in Outcomes
         /\ \A d \in Channels \ {c} : channel[p][d] = "empty"
  /\ \A c \in Channels : channel[p][c] = "closed" => told[p] # <<>>
  /\ told[p] # <<>> =>
       /\ Len(told[p]) = 1 /\ told[p][1].what = outcome[p]
       /\ told[p][1].who = "lostErrors" => lostErrors /\ caller[p] = "ctxErr"
       /\ caller[p] # "select" /\ waiter[p] # "wait"

(* One receiver at a time.                                                 *)
OneReceiver(p) ==
  /\ caller[p] \in {"none", "call", "skipped"} => child[p] = "none" /\ waiter[p] = "none"
  /\ caller[p] = "select" => waiter[p] = "none"
  /\ waiter[p] = "wait" => lostErrors /\ caller[p] = "ctxErr"
  /\ waiter[p] \in {"close", "ended"} => told[p] # <<>>

Kept == \A p \in Parts : InOnePlace(p) /\ OneReceiver(p)

-----------------------------------------------------------------------------
(* Appending the first news.                                               *)
LEMMA FirstNews ==
  ASSUME NEW news \in News
  PROVE  /\ Append(<<>>, news) \in Seq(News) /\ Len(Append(<<>>, news)) = 1
         /\ Append(<<>>, news)[1] = news /\ Append(<<>>, news) # <<>>
  OBVIOUS

(* Who has heard what in a step that receives the outcome of part p.      *)
Heard(p, who) ==
  /\ told[p] = <<>> /\ outcome[p] \in Outcomes
  /\ child[p] = "ended"
  /\ told' \in [Parts -> Seq(News)] /\ Len(told'[p]) = 1 /\ told'[p] # <<>>
  /\ told'[p][1] = [who |-> who, what |-> outcome[p]]
  /\ channel' \in [Parts -> [Channels -> {"empty", "full", "closed"}]]
  /\ \A d \in Channels : channel'[p][d] = "empty"
  /\ \A q \in Parts \ {p} : told'[q] = told[q] /\ channel'[q] = channel[q]

(* A receive, by the caller or the waiter of a part: it gets the outcome.  *)
LEMMA ReceiveTells ==
  ASSUME TypeOK, NEW p \in Parts, InOnePlace(p), NEW c \in Channels,
         NEW who \in {"caller", "lostErrors"}, Receive(p, c, who),
         caller[p] = "select" \/ waiter[p] = "wait"
  PROVE  Heard(p, who)
<1>1. told[p] = <<>> /\ channel[p][c] \in {"empty", "full", "closed"}
  BY DEF InOnePlace, TypeOK
<1>2. channel[p][c] = "full"
  BY <1>1 DEF InOnePlace, Receive
<1>3. outcome[p] \in Outcomes /\ \A d \in Channels \ {c} : channel[p][d] = "empty"
  BY <1>2 DEF InOnePlace
<1>4. child[p] = "ended"
  BY <1>2 DEF InOnePlace
<1>5. /\ channel' = [channel EXCEPT ![p][c] = "empty"]
      /\ told' = [told EXCEPT ![p] = Append(<<>>, [who |-> who, what |-> outcome[p]])]
  BY <1>1, <1>2 DEF Receive
<1>6. [who |-> who, what |-> outcome[p]] \in News
  BY <1>3 DEF News
<1>7. /\ told' \in [Parts -> Seq(News)] /\ Len(told'[p]) = 1 /\ told'[p] # <<>>
      /\ told'[p][1] = [who |-> who, what |-> outcome[p]]
      /\ \A q \in Parts \ {p} : told'[q] = told[q]
  BY <1>5, <1>6, FirstNews DEF TypeOK
<1>8. /\ channel' \in [Parts -> [Channels -> {"empty", "full", "closed"}]]
      /\ \A d \in Channels : channel'[p][d] = "empty"
      /\ \A q \in Parts \ {p} : channel'[q] = channel[q]
  BY <1>3, <1>5 DEF TypeOK
<1>9. QED
  BY <1>1, <1>3, <1>4, <1>7, <1>8 DEF Heard

(* What a step of one part leaves alone in the other.                      *)
Same(q) ==
  /\ caller'[q] = caller[q] /\ child'[q] = child[q] /\ outcome'[q] = outcome[q]
  /\ channel'[q] = channel[q] /\ waiter'[q] = waiter[q] /\ told'[q] = told[q]

LEMMA Untouched ==
  ASSUME NEW q, InOnePlace(q), OneReceiver(q), Same(q), lostErrors' = lostErrors
  PROVE  InOnePlace(q)' /\ OneReceiver(q)'
  BY DEF InOnePlace, OneReceiver, Same

(* A part's goroutine starts.                                              *)
LEMMA SpawnStep ==
  ASSUME TypeOK, Kept, NEW p \in Parts, caller[p] \in {"none", "call"}, Spawn(p)
  PROVE  TypeOK' /\ Kept'
<1>1. /\ InOnePlace(p) /\ OneReceiver(p) /\ child[p] = "none" /\ waiter[p] = "none"
  BY DEF Kept, OneReceiver
<1>2. /\ caller'[p] = "select" /\ child'[p] = "running"
      /\ UNCHANGED <<lostErrors, outcome, channel, waiter, told>>
      /\ \A q \in Parts \ {p} : Same(q)
  BY DEF Spawn, TypeOK, Same
<1>3. TypeOK'
  BY DEF TypeOK, Spawn, Callers
<1>4. InOnePlace(p)' /\ OneReceiver(p)'
  BY <1>1, <1>2 DEF InOnePlace, OneReceiver
<1>5. QED
  BY <1>2, <1>3, <1>4, Untouched DEF Kept

LEMMA KeptStep ==
  ASSUME TypeOK, Kept, [Next]_vars
  PROVE  TypeOK' /\ Kept'
<1>o. ASSUME NEW p \in Parts, \A q \in Parts \ {p} : Same(q), lostErrors' = lostErrors,
             InOnePlace(p)', OneReceiver(p)'
      PROVE  Kept'
  BY <1>o, Untouched DEF Kept
<1>1. CASE ContextEnds \/ UNCHANGED vars
  <2>1. UNCHANGED <<lostErrors, caller, child, outcome, channel, waiter, told>>
    BY <1>1 DEF ContextEnds, vars
  <2>2. QED
    BY <2>1 DEF TypeOK, Kept, InOnePlace, OneReceiver
<1>2. CASE Go \/ Fallback
  BY <1>2, SpawnStep DEF Go, Fallback, Parts
<1>3. CASE NoFallback
  <2>1. /\ caller["fallback"] = "none" /\ caller'["fallback"] = "skipped"
        /\ UNCHANGED <<lostErrors, child, outcome, channel, waiter, told>>
        /\ \A q \in Parts \ {"fallback"} : Same(q)
    BY <1>3 DEF NoFallback, TypeOK, Same, Parts
  <2>2. TypeOK'
    BY <1>3 DEF NoFallback, TypeOK, Callers, Parts
  <2>3. "fallback" \in Parts /\ InOnePlace("fallback") /\ OneReceiver("fallback")
    BY DEF Kept, Parts
  <2>4. InOnePlace("fallback")' /\ OneReceiver("fallback")'
    BY <2>1, <2>3 DEF InOnePlace, OneReceiver
  <2>5. QED
    BY <1>o, <2>1, <2>2, <2>3, <2>4
<1>4. ASSUME NEW p \in Parts, SelectDone(p) PROVE TypeOK' /\ Kept'
  <2>1. /\ caller[p] = "select" /\ caller'[p] = "ctxErr"
        /\ waiter'[p] = IF lostErrors THEN "wait" ELSE "none"
        /\ UNCHANGED <<lostErrors, child, outcome, channel, told>>
        /\ \A q \in Parts \ {p} : Same(q)
    BY <1>4 DEF SelectDone, TypeOK, Same, WaiterFor
  <2>2. TypeOK'
    BY <1>4 DEF SelectDone, TypeOK, Callers, WaiterFor
  <2>3. InOnePlace(p) /\ OneReceiver(p)
    BY DEF Kept
  <2>4. told[p] = <<>>
    BY <2>1, <2>3 DEF InOnePlace
  <2>5. InOnePlace(p)' /\ OneReceiver(p)'
    BY <2>1, <2>3, <2>4 DEF InOnePlace, OneReceiver
  <2>6. QED
    BY <1>o, <2>1, <2>2, <2>5
<1>5. ASSUME NEW p \in Parts, NEW c \in Channels, SelectResult(p, c)
      PROVE  TypeOK' /\ Kept'
  <2>1. caller[p] = "select" /\ Receive(p, c, "caller") /\ InOnePlace(p) /\ OneReceiver(p)
    BY <1>5 DEF SelectResult, Kept
  <2>2. /\ told[p] = <<>> /\ outcome[p] \in Outcomes /\ child[p] = "ended"
        /\ told' \in [Parts -> Seq(News)] /\ Len(told'[p]) = 1 /\ told'[p] # <<>>
        /\ told'[p][1] = [who |-> "caller", what |-> outcome[p]]
        /\ channel' \in [Parts -> [Channels -> {"empty", "full", "closed"}]]
        /\ \A d \in Channels : channel'[p][d] = "empty"
        /\ \A q \in Parts \ {p} : told'[q] = told[q] /\ channel'[q] = channel[q]
    <3>1. Heard(p, "caller")
      BY <2>1, ReceiveTells
    <3>2. QED
      BY <3>1 DEF Heard
  <2>3. caller' = [caller EXCEPT ![p] = outcome[p]] /\ UNCHANGED <<lostErrors, child, outcome, waiter>>
    BY <1>5, <2>2 DEF SelectResult
  <2>4. caller'[p] = outcome[p] /\ \A q \in Parts \ {p} : Same(q)
    BY <2>2, <2>3 DEF TypeOK, Same
  <2>5. TypeOK'
    BY <2>2, <2>3 DEF TypeOK, Callers
  <2>6. waiter'[p] = "none" /\ caller'[p] \notin {"none", "call", "skipped", "select"}
    BY <2>1, <2>2, <2>3, <2>4 DEF OneReceiver, Outcomes
  <2>7. told'[p][1].what = outcome[p] /\ told'[p][1].who # "lostErrors"
    BY <2>2
  <2>8. InOnePlace(p)' /\ OneReceiver(p)'
    BY <2>2, <2>3, <2>6, <2>7 DEF InOnePlace, OneReceiver
  <2>9. QED
    BY <1>o, <2>3, <2>4, <2>5, <2>8
<1>6. ASSUME NEW p \in Parts, Send(p) PROVE TypeOK' /\ Kept'
  <2> DEFINE c == Target(outcome[p])
  <2>1. InOnePlace(p) /\ OneReceiver(p) /\ child[p] = "send"
    BY <1>6 DEF Kept, Send
  <2>2. /\ c \in Channels /\ channel[p][c] = "empty" /\ told[p] = <<>> /\ outcome[p] \in Outcomes
        /\ \A d \in Channels : channel[p][d] = "empty"
    BY <2>1 DEF InOnePlace, Target, Channels
  <2>3. /\ channel' = [channel EXCEPT ![p][c] = "full"] /\ child' = [child EXCEPT ![p] = "ended"]
        /\ UNCHANGED <<lostErrors, caller, outcome, waiter, told>>
    BY <1>6, <2>2 DEF Send
  <2> HIDE DEF c
  <2>4. /\ child'[p] = "ended" /\ channel'[p][c] = "full"
        /\ \A d \in Channels \ {c} : channel'[p][d] = "empty"
        /\ \A q \in Parts \ {p} : Same(q)
    BY <2>2, <2>3 DEF TypeOK, Same
  <2>5. TypeOK'
    BY <2>2, <2>3 DEF TypeOK
  <2>6. InOnePlace(p)'
    BY <2>2, <2>3, <2>4 DEF InOnePlace
  <2>7. OneReceiver(p)'
    BY <2>1, <2>3, <2>4 DEF OneReceiver
  <2>8. QED
    BY <1>o, <2>3, <2>4, <2>5, <2>6, <2>7
<1>7. ASSUME NEW p \in Parts, Close(p) PROVE TypeOK' /\ Kept'
  <2>1. InOnePlace(p) /\ OneReceiver(p) /\ waiter[p] = "close"
    BY <1>7 DEF Kept, Close
  <2>2. /\ waiter'[p] = "ended" /\ \A c \in Channels : channel'[p][c] = "closed"
        /\ UNCHANGED <<lostErrors, caller, child, outcome, told>>
        /\ \A q \in Parts \ {p} : Same(q)
    BY <1>7 DEF Close, TypeOK, Same
  <2>3. TypeOK'
    BY <1>7 DEF Close, TypeOK
  <2>4. told[p] # <<>> /\ child[p] = "ended"
    BY <2>1 DEF OneReceiver, InOnePlace
  <2>5. InOnePlace(p)' /\ OneReceiver(p)'
    BY <2>1, <2>2, <2>4 DEF InOnePlace, OneReceiver
  <2>6. QED
    BY <1>o, <2>2, <2>3, <2>5
<1>8. ASSUME NEW p \in Parts, NEW c \in Channels, LostError(p, c)
      PROVE  TypeOK' /\ Kept'
  <2>1. waiter[p] = "wait" /\ Receive(p, c, "lostErrors") /\ InOnePlace(p) /\ OneReceiver(p)
    BY <1>8 DEF LostError, Kept
  <2>2. /\ told[p] = <<>> /\ outcome[p] \in Outcomes /\ child[p] = "ended"
        /\ told' \in [Parts -> Seq(News)] /\ Len(told'[p]) = 1 /\ told'[p] # <<>>
        /\ told'[p][1] = [who |-> "lostErrors", what |-> outcome[p]]
        /\ channel' \in [Parts -> [Channels -> {"empty", "full", "closed"}]]
        /\ \A d \in Channels : channel'[p][d] = "empty"
        /\ \A q \in Parts \ {p} : told'[q] = told[q] /\ channel'[q] = channel[q]
    <3>1. Heard(p, "lostErrors")
      BY <2>1, ReceiveTells
    <3>2. QED
      BY <3>1 DEF Heard
  <2>3. /\ waiter' = [waiter EXCEPT ![p] = "close"]
        /\ UNCHANGED <<lostErrors, caller, child, outcome>>
    BY <1>8 DEF LostError
  <2>4. waiter'[p] = "close" /\ \A q \in Parts \ {p} : Same(q)
    BY <2>2, <2>3 DEF TypeOK, Same
  <2>5. TypeOK'
    BY <2>2, <2>3 DEF TypeOK
  <2>6. lostErrors /\ caller[p] = "ctxErr"
    BY <2>1 DEF OneReceiver
  <2>7. told'[p][1].what = outcome[p]
    BY <2>2
  <2>8. InOnePlace(p)' /\ OneReceiver(p)'
    BY <2>2, <2>3, <2>4, <2>6, <2>7 DEF InOnePlace, OneReceiver
  <2>9. QED
    BY <1>o, <2>3, <2>4, <2>5, <2>8
<1>9. ASSUME NEW p \in Parts, NEW how \in Outcomes \cup {"goexit"}, FunctionEnds(p, how)
      PROVE  TypeOK' /\ Kept'
  <2>1. InOnePlace(p) /\ OneReceiver(p) /\ child[p] = "running"
    BY <1>9 DEF Kept, FunctionEnds
  <2>2. /\ outcome'[p] = how /\ child'[p] = IF how = "goexit" THEN "ended" ELSE "send"
        /\ UNCHANGED <<lostErrors, caller, channel, waiter, told>>
        /\ \A q \in Parts \ {p} : Same(q)
    BY <1>9 DEF FunctionEnds, TypeOK, Same
  <2>3. TypeOK'
    BY <1>9 DEF FunctionEnds, TypeOK
  <2>4. InOnePlace(p)' /\ OneReceiver(p)'
    BY <2>1, <2>2 DEF InOnePlace, OneReceiver
  <2>5. QED
    BY <1>o, <2>2, <2>3, <2>4
<1>10. QED
  BY <1>1, <1>2, <1>3, <1>4, <1>5, <1>6, <1>7, <1>8, <1>9 DEF Next, Caller, Waiter

LEMMA InitKept == Init => TypeOK /\ Kept
<1>1. Init => TypeOK
  BY DEF Init, TypeOK, Callers
<1>2. Init => Kept
  BY DEF Init, Kept, InOnePlace, OneReceiver
<1>3. QED
  BY <1>1, <1>2

(* However the selects of the caller and of waitForErrors resolve, the     *)
(* outcome of a function is told at most once and as it was, a lost one to *)
(* GoLostErrors only, and nothing is sent on a closed channel.             *)
THEOREM OutcomeToldOnce == Spec => []ToldOnce
<1>1. TypeOK /\ Kept /\ [Next]_vars => (TypeOK /\ Kept)'
  BY KeptStep
<1>2. TypeOK /\ Kept => ToldOnce
  <2>1. SUFFICES ASSUME TypeOK, Kept, NEW p \in Parts
                 PROVE  /\ child[p] # "crashed"
                        /\ Len(told[p]) <= 1
                        /\ \A i \in DOMAIN told[p] :
                             /\ told[p][i].what = outcome[p]
                             /\ told[p][i].who = "lostErrors" => lostErrors /\ caller[p] = "ctxErr"
    BY DEF ToldOnce
  <2>2. child[p] # "crashed" /\ told[p] \in Seq(News)
    BY <2>1 DEF TypeOK
  <2>3. DOMAIN told[p] = 1 .. Len(told[p])
    BY <2>2
  <2>4. CASE told[p] = <<>>
    BY <2>2, <2>4
  <2>5. CASE told[p] # <<>>
    <3>1. /\ Len(told[p]) = 1 /\ told[p][1].what = outcome[p]
          /\ told[p][1].who = "lostErrors" => lostErrors /\ caller[p] = "ctxErr"
      BY <2>1, <2>5 DEF Kept, InOnePlace
    <3>2. \A i \in DOMAIN told[p] : i = 1
      BY <2>3, <3>1
    <3>3. QED
      BY <2>2, <3>1, <3>2
  <2>6. QED
    BY <2>4, <2>5
<1>3. QED
  BY <1>1, <1>2, InitKept, PTL DEF Spec
=============================================================================
