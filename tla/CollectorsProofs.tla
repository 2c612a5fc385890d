-------------------------- MODULE CollectorsProofs --------------------------
(* Proofs about Collectors, for any goroutines, settings and durations.    *)
EXTENDS Collectors, FiniteSetTheorems, SequenceTheorems, TLAPS

-----------------------------------------------------------------------------
(* The steps a goroutine may have before it.                               *)

Reads == {Step("first", c) : c \in {"Success", "ErrFailure", "ErrTimeout", "attempts"}}
           \cup {Step("second", c) : c \in {"ErrFailure", "ErrTimeout", "errors"}}
           \cup {Step("get", c) : c \in {"requestVolumeThreshold", "errorPercentage", "closeThreshold"}}
           \cup {Step("streak", "consecutive")}

(* The steps that change counters, other than the count of an error.       *)
Plain == {Inc(c) : c \in Counters \ {"errors"}}
           \cup {Step("load", "consecutive"), Step("zero", "consecutive")}
           \cup {Step("judge", v) : v \in {"Success", "ErrInterrupt"}}

Steps == Plain \cup {Inc("errors")} \cup Reads \cup {Step("return", "Success")}

(* Every variable has its type.                                            *)
TypeOK ==
  /\ logic \in {"hystrix", "consecutive"}
  /\ config \in [Fields -> Int]
  /\ count \in [Counters -> Nat]
  /\ resetting \in BOOLEAN
  /\ todo \in [Goroutines -> Seq(Steps)]
  /\ got \in [Goroutines -> [first : Nat, second : Nat]]
  /\ answer \in [Goroutines -> {"none", "yes", "no"}]
  /\ due \subseteq Goroutines
  /\ late \in Nat /\ excused \in Nat
  /\ errorsAt \in [Goroutines -> Nat]
  /\ streaks \in [failures : Nat, known : [Goroutines -> Nat], base : Nat]

(* May step b come right after step a?  The reads of one question follow   *)
(* one another and a return, and an error follows its attempt.             *)
Follows(a, b) ==
  /\ a.do # "return"
  /\ a = Step("first", "Success") <=> b = Step("first", "ErrFailure")
  /\ a = Step("first", "ErrFailure") <=> b = Step("first", "ErrTimeout")
  /\ a = Step("first", "ErrTimeout") <=> b = Step("second", "ErrFailure")
  /\ a = Step("second", "ErrFailure") <=> b = Step("second", "ErrTimeout")
  /\ a = Step("first", "attempts") <=> b = Step("get", "requestVolumeThreshold")
  /\ a = Step("get", "requestVolumeThreshold") <=> b = Step("second", "errors")
  /\ a = Step("second", "errors") <=> b = Step("get", "errorPercentage")
  /\ a = Step("streak", "consecutive") <=> b = Step("get", "closeThreshold")
  /\ a \in {Step("second", "ErrTimeout"), Step("get", "errorPercentage"), Step("get", "closeThreshold")}
       => b.do = "return"
  /\ b = Inc("errors") => a = Inc("attempts")

(* The steps of a sequence follow one another.                             *)
Chain(t) == \A i \in 1 .. Len(t) - 1 : Follows(t[i], t[i + 1])

(* What a goroutine has before it is in order, ends with its return, and   *)
(* asks the opener there is.                                               *)
InOrder(t) ==
  /\ Chain(t)
  /\ t # <<>> => t[Len(t)] = Step("return", "Success")
  /\ \A i \in 1 .. Len(t) :
       /\ t[i] = Step("first", "attempts") => logic = "hystrix"
       /\ t[i] = Step("streak", "consecutive") => logic = "consecutive"

TodoInOrder == \A g \in Goroutines : InOrder(todo[g])

(* A chain stays one when its first step is done.                          *)
LEMMA ChainTail ==
  ASSUME NEW t \in Seq(Steps), t # <<>>, Chain(t)
  PROVE  /\ Chain(Tail(t)) /\ Tail(t) \in Seq(Steps)
         /\ Len(Tail(t)) = Len(t) - 1
         /\ \A i \in 1 .. Len(t) - 1 : Tail(t)[i] = t[i + 1]
<1>1. /\ Tail(t) \in Seq(Steps) /\ Len(Tail(t)) = Len(t) - 1 /\ Len(t) \in Nat
      /\ \A i \in 1 .. Len(t) - 1 : Tail(t)[i] = t[i + 1]
  BY HeadTailProperties, LenProperties
<1>2. ASSUME NEW i \in 1 .. Len(Tail(t)) - 1
      PROVE  Follows(Tail(t)[i], Tail(t)[i + 1])
  BY <1>1, <1>2 DEF Chain
<1>3. QED
  BY <1>1, <1>2 DEF Chain

(* Two chains make one when the second may follow the first.               *)
LEMMA ChainConcat ==
  ASSUME NEW s \in Seq(Steps), NEW t \in Seq(Steps), Chain(s), Chain(t),
         s # <<>> /\ t # <<>> => Follows(s[Len(s)], t[1])
  PROVE  Chain(s \o t)
<1>1. /\ s \o t \in Seq(Steps) /\ Len(s) \in Nat /\ Len(t) \in Nat
      /\ Len(s \o t) = Len(s) + Len(t)
      /\ \A i \in 1 .. Len(s) + Len(t) :
           (s \o t)[i] = IF i <= Len(s) THEN s[i] ELSE t[i - Len(s)]
  BY ConcatProperties, LenProperties
<1>2. ASSUME NEW i \in 1 .. Len(s \o t) - 1
      PROVE  Follows((s \o t)[i], (s \o t)[i + 1])
  <2>1. CASE i < Len(s)
    BY <1>1, <1>2, <2>1 DEF Chain
  <2>2. CASE i = Len(s)
    <3>1. (s \o t)[i] = s[Len(s)] /\ (s \o t)[i + 1] = t[1]
      BY <1>1, <1>2, <2>2
    <3>2. s # <<>> /\ t # <<>>
      BY <1>1, <1>2, <2>2
    <3>3. QED
      BY <3>1, <3>2
  <2>3. CASE i > Len(s)
    <3>1. i - Len(s) \in 1 .. Len(t) - 1 /\ (i + 1) - Len(s) = (i - Len(s)) + 1
      BY <1>1, <1>2, <2>3
    <3>2. (s \o t)[i] = t[i - Len(s)] /\ (s \o t)[i + 1] = t[(i - Len(s)) + 1]
      BY <1>1, <1>2, <2>3, <3>1
    <3>3. QED
      BY <3>1, <3>2 DEF Chain
  <2>4. QED
    BY <1>1, <1>2, <2>1, <2>2, <2>3
<1>3. QED
  BY <1>2 DEF Chain

-----------------------------------------------------------------------------
(* What a verdict makes a goroutine do.                                    *)

(* The steps that tell the collectors.                                     *)
Changes == Plain \cup {Inc("errors")}

(* The steps a question or an error's telling may begin with, and return.  *)
Starts == Plain \cup {Step("first", "attempts"), Step("streak", "consecutive"),
                      Step("return", "Success")}

(* The elements of a concatenation are those of its parts.                 *)
LEMMA ConcatElements ==
  ASSUME NEW s \in Seq(Steps), NEW t \in Seq(Steps)
  PROVE  /\ s \o t \in Seq(Steps)
         /\ Len(s \o t) = Len(s) + Len(t) /\ Len(s) \in Nat /\ Len(t) \in Nat
         /\ \A i \in 1 .. Len(s) : (s \o t)[i] = s[i]
         /\ \A i \in 1 .. Len(t) : (s \o t)[Len(s) + i] = t[i]
         /\ \A i \in 1 .. Len(s \o t) :
              \/ \E j \in 1 .. Len(s) : (s \o t)[i] = s[j]
              \/ \E j \in 1 .. Len(t) : (s \o t)[i] = t[j]
<1>1. /\ s \o t \in Seq(Steps) /\ Len(s) \in Nat /\ Len(t) \in Nat
      /\ Len(s \o t) = Len(s) + Len(t)
      /\ \A i \in 1 .. Len(s) + Len(t) :
           (s \o t)[i] = IF i <= Len(s) THEN s[i] ELSE t[i - Len(s)]
  BY ConcatProperties, LenProperties
<1>2. \A i \in 1 .. Len(s) : (s \o t)[i] = s[i]
  BY <1>1
<1>3. \A i \in 1 .. Len(t) : (s \o t)[Len(s) + i] = t[i]
  BY <1>1
<1>4. ASSUME NEW i \in 1 .. Len(s \o t)
      PROVE  \/ \E j \in 1 .. Len(s) : (s \o t)[i] = s[j]
             \/ \E j \in 1 .. Len(t) : (s \o t)[i] = t[j]
  <2>1. CASE i <= Len(s)
    BY <1>1, <1>4, <2>1
  <2>2. CASE i > Len(s)
    <3>1. i - Len(s) \in 1 .. Len(t) /\ (s \o t)[i] = t[i - Len(s)]
      BY <1>1, <1>4, <2>2
    <3>2. QED
      BY <3>1
  <2>3. QED
    BY <1>1, <1>4, <2>1, <2>2
<1>5. QED
  BY <1>1, <1>2, <1>3, <1>4

(* Any telling may be followed by another or by a question.                *)
LEMMA AfterChanges ==
  \A a \in Changes, b \in Starts : Follows(a, b)
  BY DEF Changes, Starts, Plain, Inc, Step, Follows, Counters, Verdicts, Timed, Failures

(* The steps of a telling come in an order.                                *)
Telling(s) == /\ s \in Seq(Steps) /\ Chain(s)
              /\ \A i \in 1 .. Len(s) : s[i] \in Changes

(* What may follow it.                                                     *)
Starting(s) == /\ s \in Seq(Steps) /\ Chain(s)
               /\ Len(s) > 0 => s[1] \in Starts

(* A telling and what follows it are one chain.                            *)
LEMMA ToldThen ==
  ASSUME NEW s, NEW t, Telling(s), Starting(t)
  PROVE  s \o t \in Seq(Steps) /\ Chain(s \o t)
<1>1. s \in Seq(Steps) /\ t \in Seq(Steps)
  BY DEF Telling, Starting
<1>2. s # <<>> /\ t # <<>> => Follows(s[Len(s)], t[1])
  <2>1. SUFFICES ASSUME s # <<>>, t # <<>> PROVE Follows(s[Len(s)], t[1])
    OBVIOUS
  <2>2. Len(s) \in Nat /\ Len(t) \in Nat /\ Len(s) > 0 /\ Len(t) > 0
    BY <1>1, <2>1
  <2>3. s[Len(s)] \in Changes /\ t[1] \in Starts
    BY <2>2 DEF Telling, Starting
  <2>4. QED
    BY <2>3, AfterChanges
<1>3. QED
  BY <1>1, <1>2, ChainConcat, ConcatElements DEF Telling, Starting

(* Two tellings, the second no error's, are one.                           *)
LEMMA ToldTwice ==
  ASSUME NEW s, NEW t, Telling(s), Telling(t), Starting(t)
  PROVE  Telling(s \o t) /\ (Starting(s) => Starting(s \o t))
<1>1. s \in Seq(Steps) /\ t \in Seq(Steps)
  BY DEF Telling
<1>2. \A i \in 1 .. Len(s \o t) : (s \o t)[i] \in Changes
  BY <1>1, ConcatElements DEF Telling
<1>3. Telling(s \o t)
  BY <1>2, ToldThen DEF Telling
<1>4. ASSUME Starting(s), Len(s \o t) > 0
      PROVE  (s \o t)[1] \in Starts
  <2>1. CASE Len(s) > 0
    <3>1. (s \o t)[1] = s[1]
      BY <1>1, <2>1, ConcatElements
    <3>2. QED
      BY <1>4, <2>1, <3>1 DEF Starting
  <2>2. CASE Len(s) = 0
    <3>1. (s \o t)[0 + 1] = t[1] /\ Len(t) > 0
      BY <1>1, <1>4, <2>2, ConcatElements
    <3>2. QED
      BY <3>1 DEF Starting
  <2>3. Len(s) > 0 \/ Len(s) = 0
    BY <1>1, LenProperties
  <2>4. QED
    BY ONLY <2>1, <2>2, <2>3
<1>5. QED
  BY <1>3, <1>4 DEF Telling, Starting

(* Sequences of at most two steps.                                         *)
LEMMA ShortSequences ==
  /\ <<>> \in Seq(Steps) /\ Len(<<>>) = 0 /\ Chain(<<>>)
  /\ \A a \in Steps :
       <<a>> \in Seq(Steps) /\ Len(<<a>>) = 1 /\ <<a>>[1] = a /\ Chain(<<a>>)
  /\ \A a, b \in Steps :
       /\ <<a, b>> \in Seq(Steps) /\ Len(<<a, b>>) = 2
       /\ <<a, b>>[1] = a /\ <<a, b>>[2] = b
       /\ Follows(a, b) => Chain(<<a, b>>)
<1>1. <<>> \in Seq(Steps) /\ Len(<<>>) = 0 /\ Chain(<<>>)
  BY DEF Chain
<1>2. ASSUME NEW a \in Steps
      PROVE  <<a>> \in Seq(Steps) /\ Len(<<a>>) = 1 /\ <<a>>[1] = a /\ Chain(<<a>>)
  BY DEF Chain
<1>3. ASSUME NEW a \in Steps, NEW b \in Steps
      PROVE  /\ <<a, b>> \in Seq(Steps) /\ Len(<<a, b>>) = 2
             /\ <<a, b>>[1] = a /\ <<a, b>>[2] = b
             /\ Follows(a, b) => Chain(<<a, b>>)
  <2>1. /\ <<a, b>> \in Seq(Steps) /\ Len(<<a, b>>) = 2
        /\ <<a, b>>[1] = a /\ <<a, b>>[2] = b
    OBVIOUS
  <2>2. ASSUME Follows(a, b), NEW i \in 1 .. Len(<<a, b>>) - 1
        PROVE  Follows(<<a, b>>[i], <<a, b>>[i + 1])
    <3>1. i = 1
      BY <2>1, <2>2
    <3>2. QED
      BY <2>1, <2>2, <3>1
  <2>3. QED
    BY <2>1, <2>2 DEF Chain
<1>4. QED
  BY <1>1, <1>2, <1>3

(* The steps that the collectors and the questions are made of.            *)
LEMMA KindsOfSteps ==
  /\ \A c \in Counters : Inc(c) \in Changes /\ (c # "errors" => Inc(c) \in Plain)
  /\ Step("load", "consecutive") \in Plain /\ Step("zero", "consecutive") \in Plain
  /\ \A v \in {"Success", "ErrInterrupt"} : Step("judge", v) \in Plain
  /\ Plain \subseteq Changes /\ Plain \subseteq Starts /\ Changes \subseteq Steps
  /\ Starts \subseteq Steps /\ Reads \subseteq Steps
  /\ Follows(Inc("attempts"), Inc("errors"))
<1>1. \A c \in Counters : Inc(c) \in Changes /\ (c # "errors" => Inc(c) \in Plain)
  BY DEF Changes, Plain
<1>2. /\ Step("load", "consecutive") \in Plain /\ Step("zero", "consecutive") \in Plain
      /\ \A v \in {"Success", "ErrInterrupt"} : Step("judge", v) \in Plain
  BY DEF Plain
<1>3. /\ Plain \subseteq Changes /\ Plain \subseteq Starts /\ Changes \subseteq Steps
      /\ Starts \subseteq Steps /\ Reads \subseteq Steps
  BY DEF Changes, Starts, Steps, Reads
<1>4. Follows(Inc("attempts"), Inc("errors"))
  BY DEF Follows, Inc, Step
<1>5. QED
  BY <1>1, <1>2, <1>3, <1>4

(* Each collector's steps are a telling that may follow any other.         *)
LEMMA CollectorSteps ==
  ASSUME NEW v \in Verdicts
  PROVE  /\ Telling(OpenerSteps(v)) /\ Starting(OpenerSteps(v))
         /\ Telling(ConsecutiveErrOpenerSteps(v)) /\ Starting(ConsecutiveErrOpenerSteps(v))
         /\ Telling(RunStatsSteps(v)) /\ Starting(RunStatsSteps(v))
         /\ Len(RunStatsSteps(v)) > 0
         /\ Telling(TrackerSteps(v)) /\ Starting(TrackerSteps(v))
<1>e. Telling(<<>>) /\ Starting(<<>>)
  BY ShortSequences DEF Telling, Starting
<1>s. ASSUME NEW a \in Plain
      PROVE  Telling(<<a>>) /\ Starting(<<a>>) /\ Len(<<a>>) > 0
  <2>1. a \in Steps /\ a \in Changes /\ a \in Starts
    BY KindsOfSteps
  <2>2. <<a>> \in Seq(Steps) /\ Len(<<a>>) = 1 /\ <<a>>[1] = a /\ Chain(<<a>>)
    BY <2>1, ShortSequences
  <2>3. QED
    BY <2>1, <2>2 DEF Telling, Starting
<1>p. ASSUME NEW a \in Plain, NEW b \in Changes, Follows(a, b)
      PROVE  Telling(<<a, b>>) /\ Starting(<<a, b>>) /\ Len(<<a, b>>) > 0
  <2>1. a \in Steps /\ a \in Changes /\ a \in Starts /\ b \in Steps
    BY KindsOfSteps
  <2>2. /\ <<a, b>> \in Seq(Steps) /\ Len(<<a, b>>) = 2 /\ Chain(<<a, b>>)
        /\ <<a, b>>[1] = a /\ <<a, b>>[2] = b
    BY <1>p, <2>1, ShortSequences
  <2>3. \A i \in 1 .. Len(<<a, b>>) : <<a, b>>[i] \in Changes
    <3>1. SUFFICES ASSUME NEW i \in 1 .. Len(<<a, b>>) PROVE <<a, b>>[i] \in Changes
      OBVIOUS
    <3>2. i = 1 \/ i = 2
      BY <2>2
    <3>3. QED
      BY <2>1, <2>2, <3>2
  <2>4. QED
    BY <2>1, <2>2, <2>3 DEF Telling, Starting
<1>c. /\ Inc("attempts") \in Plain /\ Inc("errors") \in Changes
      /\ Inc("consecutive") \in Plain /\ Inc("Latencies") \in Plain
      /\ Inc("FailsSLO") \in Plain
      /\ v \in Counters /\ v # "errors" /\ Inc(v) \in Plain
  <2>1. /\ {"attempts", "errors", "consecutive", "Latencies", "FailsSLO"} \subseteq Counters
        /\ v \in Counters /\ v # "errors"
    BY DEF Counters, Verdicts, Timed, Failures
  <2>2. QED
    BY <2>1, KindsOfSteps
<1>1. Telling(OpenerSteps(v)) /\ Starting(OpenerSteps(v))
  <2>1. CASE v = "Success"
    BY <2>1, <1>s, <1>c DEF OpenerSteps, Failures
  <2>2. CASE v \in Failures
    BY <2>2, <1>p, <1>c, KindsOfSteps DEF OpenerSteps, Failures
  <2>3. CASE v \notin Failures \cup {"Success"}
    BY <2>3, <1>e DEF OpenerSteps
  <2>4. QED
    BY <2>1, <2>2, <2>3
<1>2. Telling(ConsecutiveErrOpenerSteps(v)) /\ Starting(ConsecutiveErrOpenerSteps(v))
  <2>1. CASE v = "Success"
    BY <2>1, <1>s, KindsOfSteps DEF ConsecutiveErrOpenerSteps, Failures
  <2>2. CASE v \in Failures
    BY <2>2, <1>s, <1>c DEF ConsecutiveErrOpenerSteps, Failures
  <2>3. CASE v \notin Failures \cup {"Success"}
    BY <2>3, <1>e DEF ConsecutiveErrOpenerSteps
  <2>4. QED
    BY <2>1, <2>2, <2>3
<1>3. Telling(RunStatsSteps(v)) /\ Starting(RunStatsSteps(v)) /\ Len(RunStatsSteps(v)) > 0
  <2>1. Follows(Inc(v), Inc("Latencies")) /\ Inc("Latencies") \in Changes
    BY <1>c, AfterChanges, KindsOfSteps
  <2>2. QED
    BY <2>1, <1>c, <1>p, <1>s DEF RunStatsSteps
<1>4. Telling(TrackerSteps(v)) /\ Starting(TrackerSteps(v))
  <2>1. CASE v \in {"Success", "ErrInterrupt"}
    BY <2>1, <1>s, KindsOfSteps DEF TrackerSteps
  <2>2. CASE v = "ErrBadRequest"
    BY <2>2, <1>e DEF TrackerSteps
  <2>3. CASE v \notin {"Success", "ErrInterrupt", "ErrBadRequest"}
    BY <2>3, <1>s, <1>c DEF TrackerSteps
  <2>4. QED
    BY <2>1, <2>2, <2>3
<1>5. QED
  BY <1>1, <1>2, <1>3, <1>4

(* The hystrix opener's question: each sum before its threshold.           *)
LEMMA QuestionInOrder ==
  LET q == <<Step("first", "attempts"), Step("get", "requestVolumeThreshold"),
             Step("second", "errors"), Step("get", "errorPercentage")>>
  IN  /\ q \in Seq(Steps) /\ Chain(q) /\ Len(q) = 4 /\ q[1] \in Starts
      /\ q[4] = Step("get", "errorPercentage")
      /\ \A i \in 1 .. 4 : q[i] # Step("streak", "consecutive")
<1> DEFINE fa == Step("first", "attempts")
           gv == Step("get", "requestVolumeThreshold")
           se == Step("second", "errors")
           gp == Step("get", "errorPercentage")
           st == Step("streak", "consecutive")
           q == <<fa, gv, se, gp>>
<1>1. fa \in Steps /\ gv \in Steps /\ se \in Steps /\ gp \in Steps /\ fa \in Starts
  BY DEF Steps, Reads, Starts
<1>2. Follows(fa, gv) /\ Follows(gv, se) /\ Follows(se, gp)
  BY DEF Follows, Step, Inc
<1>3. fa # st /\ gv # st /\ se # st /\ gp # st
  BY DEF Step
<1> HIDE DEF fa, gv, se, gp, st
<1>4. /\ q \in Seq(Steps) /\ Len(q) = 4
      /\ q[1] = fa /\ q[2] = gv /\ q[3] = se /\ q[4] = gp
  BY <1>1
<1> HIDE DEF q
<1>5. ASSUME NEW i \in 1 .. Len(q) - 1 PROVE Follows(q[i], q[i + 1])
  <2>1. i = 1 \/ i = 2 \/ i = 3
    BY <1>4
  <2>2. 1 + 1 = 2 /\ 2 + 1 = 3 /\ 3 + 1 = 4
    OBVIOUS
  <2>3. QED
    BY <1>2, <1>4, <2>1, <2>2
<1>6. ASSUME NEW i \in 1 .. 4 PROVE q[i] # st
  <2>1. i = 1 \/ i = 2 \/ i = 3 \/ i = 4
    OBVIOUS
  <2>2. QED
    BY <1>3, <1>4, <2>1
<1>7. Chain(q)
  BY <1>5 DEF Chain
<1>8. QED
  BY <1>1, <1>4, <1>6, <1>7 DEF q, fa, gv, se, gp, st

(* All that Report gives a goroutine to do.                                *)
ReportSteps(v) ==
  (IF logic = "hystrix" THEN OpenerSteps(v) ELSE ConsecutiveErrOpenerSteps(v))
    \o RunStatsSteps(v) \o TrackerSteps(v)
    \o (IF v \in Failures THEN ShouldOpenSteps ELSE <<>>) \o Return

(* A report is in order, and begins by telling somebody of an attempt.     *)
LEMMA ReportInOrder ==
  ASSUME NEW v \in Verdicts, logic \in {"hystrix", "consecutive"}
  PROVE  /\ ReportSteps(v) \in Seq(Steps) /\ InOrder(ReportSteps(v))
         /\ Len(ReportSteps(v)) > 0 /\ ReportSteps(v)[1] \in Plain
<1> DEFINE A == IF logic = "hystrix" THEN OpenerSteps(v) ELSE ConsecutiveErrOpenerSteps(v)
           B == A \o RunStatsSteps(v)
           C == B \o TrackerSteps(v)
           asked == IF v \in Failures THEN ShouldOpenSteps ELSE <<>>
           D == C \o asked
           R == D \o Return
<1>1. Telling(A) /\ Starting(A)
  BY CollectorSteps
<1>2. Telling(B) /\ Starting(B) /\ Len(B) > 0
  <2>1. Telling(B) /\ Starting(B)
    BY <1>1, CollectorSteps, ToldTwice
  <2>2. Len(B) = Len(A) + Len(RunStatsSteps(v)) /\ Len(A) \in Nat /\ Len(RunStatsSteps(v)) \in Nat
    BY <1>1, CollectorSteps, ConcatElements DEF Telling
  <2>3. QED
    BY <2>1, <2>2, CollectorSteps
<1>3. Telling(C) /\ Starting(C) /\ Len(C) > 0 /\ Len(C) \in Nat
  <2>1. Telling(C) /\ Starting(C)
    BY <1>2, CollectorSteps, ToldTwice
  <2>2. Len(C) = Len(B) + Len(TrackerSteps(v)) /\ Len(B) \in Nat /\ Len(TrackerSteps(v)) \in Nat
    BY <1>2, CollectorSteps, ConcatElements DEF Telling
  <2>3. QED
    BY <1>2, <2>1, <2>2
<1>4. C[1] \in Plain
  <2>1. C[1] \in Changes /\ C[1] \in Starts
    BY <1>3 DEF Telling, Starting
  <2>2. Inc("errors") \notin Starts
    BY DEF Starts, Plain, Inc, Step, Counters, Verdicts, Timed, Failures
  <2>3. QED
    BY <2>1, <2>2 DEF Changes
<1> HIDE DEF A, B, C
<1>5. /\ Starting(asked) /\ Len(asked) \in Nat
      /\ Len(asked) > 0 => asked[Len(asked)] \in {Step("get", "errorPercentage"), Step("get", "closeThreshold")}
      /\ \A i \in 1 .. Len(asked) :
           /\ asked[i] = Step("first", "attempts") => logic = "hystrix"
           /\ asked[i] = Step("streak", "consecutive") => logic = "consecutive"
  <2>1. CASE v \notin Failures
    BY <2>1, ShortSequences DEF Starting
  <2>2. CASE v \in Failures /\ logic = "hystrix"
    <3> DEFINE q == <<Step("first", "attempts"), Step("get", "requestVolumeThreshold"),
                      Step("second", "errors"), Step("get", "errorPercentage")>>
    <3>1. asked = q
      BY <2>2 DEF ShouldOpenSteps
    <3>2. q \in Seq(Steps) /\ Chain(q) /\ Len(q) = 4 /\ q[1] \in Starts
          /\ q[4] = Step("get", "errorPercentage")
          /\ \A i \in 1 .. 4 : q[i] # Step("streak", "consecutive")
      BY QuestionInOrder
    <3> HIDE DEF q, asked
    <3>3. QED
      BY <2>2, <3>1, <3>2 DEF Starting
  <2>3. CASE v \in Failures /\ logic = "consecutive"
    <3> DEFINE q == <<Step("streak", "consecutive"), Step("get", "closeThreshold")>>
    <3>1. asked = q
      BY <2>3 DEF ShouldOpenSteps
    <3>2. /\ Step("streak", "consecutive") \in Starts /\ Step("get", "closeThreshold") \in Steps
          /\ Follows(Step("streak", "consecutive"), Step("get", "closeThreshold"))
      BY KindsOfSteps DEF Starts, Reads, Follows, Step, Inc
    <3>3. /\ q \in Seq(Steps) /\ Chain(q) /\ Len(q) = 2
          /\ q[1] = Step("streak", "consecutive") /\ q[2] = Step("get", "closeThreshold")
      BY <3>2, ShortSequences, KindsOfSteps
    <3>4. /\ Step("first", "attempts") # Step("streak", "consecutive")
          /\ Step("first", "attempts") # Step("get", "closeThreshold")
      BY DEF Step
    <3> HIDE DEF q, asked
    <3>5. \A i \in 1 .. Len(q) : q[i] # Step("first", "attempts")
      <4>1. \A i \in 1 .. Len(q) : i = 1 \/ i = 2
        BY <3>3
      <4>2. QED
        BY <3>3, <3>4, <4>1
    <3>6. QED
      BY <2>3, <3>1, <3>2, <3>3, <3>5 DEF Starting
  <2>4. QED
    BY <2>1, <2>2, <2>3
<1> HIDE DEF asked
<1>6. D \in Seq(Steps) /\ Chain(D)
  BY <1>3, <1>5, ToldThen
<1>7. /\ Len(D) = Len(C) + Len(asked)
      /\ \A i \in 1 .. Len(C) : D[i] = C[i]
      /\ \A i \in 1 .. Len(asked) : D[Len(C) + i] = asked[i]
      /\ \A i \in 1 .. Len(D) :
              \/ \E j \in 1 .. Len(C) : D[i] = C[j]
              \/ \E j \in 1 .. Len(asked) : D[i] = asked[j]
  BY <1>3, <1>5, ConcatElements DEF Telling, Starting
<1> HIDE DEF D
<1> DEFINE ret == Step("return", "Success")
<1>8. Return \in Seq(Steps) /\ Chain(Return) /\ Len(Return) = 1 /\ Return[1] = ret
  <2>1. ret \in Steps
    BY DEF Steps
  <2>2. QED
    BY <2>1, ShortSequences DEF Return
<1>9. Follows(D[Len(D)], ret)
  <2>1. CASE Len(asked) = 0
    <3>1. D[Len(D)] = C[Len(C)] /\ C[Len(C)] \in Changes
      BY <2>1, <1>3, <1>7 DEF Telling
    <3>2. QED
      BY <3>1, AfterChanges DEF Starts
  <2>2. CASE Len(asked) > 0
    <3>1. D[Len(D)] = asked[Len(asked)]
      BY <2>2, <1>3, <1>5, <1>7
    <3>2. D[Len(D)] \in {Step("get", "errorPercentage"), Step("get", "closeThreshold")}
      BY <2>2, <3>1, <1>5
    <3>3. QED
      BY <3>2 DEF Follows, Step, Inc
  <2>3. QED
    BY <1>5, <2>1, <2>2
<1>10. Chain(R)
  BY <1>6, <1>8, <1>9, ChainConcat
<1>11. /\ R \in Seq(Steps) /\ Len(R) = Len(D) + 1 /\ R[Len(D) + 1] = ret
       /\ Len(D) \in Nat /\ \A i \in 1 .. Len(D) : R[i] = D[i]
       /\ \A i \in 1 .. Len(R) : R[i] = ret \/ \E j \in 1 .. Len(D) : R[i] = D[j]
  <2>1. \A j \in 1 .. Len(Return) : Return[j] = ret
    BY <1>8
  <2>2. 1 \in 1 .. Len(Return)
    BY <1>8
  <2>3. /\ R \in Seq(Steps) /\ Len(R) = Len(D) + Len(Return) /\ Len(D) \in Nat
        /\ \A i \in 1 .. Len(D) : R[i] = D[i]
        /\ \A i \in 1 .. Len(Return) : R[Len(D) + i] = Return[i]
        /\ \A i \in 1 .. Len(R) :
             \/ \E j \in 1 .. Len(D) : R[i] = D[j]
             \/ \E j \in 1 .. Len(Return) : R[i] = Return[j]
    BY <1>6, <1>8, ConcatElements
  <2> HIDE DEF R
  <2>4. QED
    BY <1>8, <2>1, <2>2, <2>3
<1>12. ASSUME NEW i \in 1 .. Len(R)
       PROVE  /\ R[i] = Step("first", "attempts") => logic = "hystrix"
              /\ R[i] = Step("streak", "consecutive") => logic = "consecutive"
  <2>1. CASE R[i] = ret
    BY <2>1 DEF Step
  <2>2. CASE \E j \in 1 .. Len(D) : R[i] = D[j]
    <3>1. CASE \E k \in 1 .. Len(C) : R[i] = C[k]
      <4>1. R[i] \in Changes
        BY <3>1, <1>3 DEF Telling
      <4>2. Step("first", "attempts") \notin Changes /\ Step("streak", "consecutive") \notin Changes
        BY DEF Changes, Plain, Inc, Step
      <4>3. QED
        BY <4>1, <4>2
    <3>2. CASE \E k \in 1 .. Len(asked) : R[i] = asked[k]
      BY <3>2, <1>5
    <3>3. QED
      BY <2>2, <3>1, <3>2, <1>7
  <2>3. QED
    BY <2>1, <2>2, <1>11
<1>13. R[1] = C[1]
  BY <1>3, <1>5, <1>7, <1>11
<1>14. R[Len(R)] = ret /\ Len(R) > 0
  BY <1>11
<1>15. ReportSteps(v) = R
  BY DEF ReportSteps, A, B, C, D, asked
<1> HIDE DEF R
<1>16. QED
  BY <1>4, <1>10, <1>11, <1>12, <1>13, <1>14, <1>15 DEF InOrder

(* All that ErrorPercentageAt gives a goroutine to do.                     *)
PercentageSteps == LegitimateAttemptsAt \o ErrorsAt("second") \o Return

(* It is in order: three sums of attempts, two of errors.                  *)
LEMMA PercentageInOrder ==
  /\ PercentageSteps \in Seq(Steps) /\ InOrder(PercentageSteps)
  /\ Len(PercentageSteps) > 0 /\ PercentageSteps[1] = Step("first", "Success")
<1> DEFINE fs == Step("first", "Success")
           ff == Step("first", "ErrFailure")
           ft == Step("first", "ErrTimeout")
           sf == Step("second", "ErrFailure")
           st == Step("second", "ErrTimeout")
           ret == Step("return", "Success")
<1>1. fs \in Steps /\ ff \in Steps /\ ft \in Steps /\ sf \in Steps /\ st \in Steps /\ ret \in Steps
  BY DEF Steps, Reads
<1>2. Follows(fs, ff) /\ Follows(ff, ft) /\ Follows(ft, sf) /\ Follows(sf, st) /\ Follows(st, ret)
  BY DEF Follows, Step, Inc
<1>3. \A a \in {fs, ff, ft, sf, st, ret} :
        a # Step("first", "attempts") /\ a # Step("streak", "consecutive")
  BY DEF Step
<1>4. PercentageSteps = <<fs>> \o <<ff, ft>> \o <<sf, st>> \o <<ret>>
  BY DEF PercentageSteps, LegitimateAttemptsAt, ErrorsAt, Return
<1> HIDE DEF fs, ff, ft, sf, st, ret
<1> DEFINE A == <<fs>> \o <<ff, ft>>
           B == A \o <<sf, st>>
           R == B \o <<ret>>
<1>5. /\ <<fs>> \in Seq(Steps) /\ <<ff, ft>> \in Seq(Steps)
      /\ <<sf, st>> \in Seq(Steps) /\ <<ret>> \in Seq(Steps)
      /\ Len(<<fs>>) = 1 /\ Len(<<ff, ft>>) = 2 /\ Len(<<sf, st>>) = 2 /\ Len(<<ret>>) = 1
      /\ <<fs>>[1] = fs /\ <<ff, ft>>[1] = ff /\ <<ff, ft>>[2] = ft
      /\ <<sf, st>>[1] = sf /\ <<sf, st>>[2] = st /\ <<ret>>[1] = ret
  BY <1>1
<1>6. A \in Seq(Steps) /\ Len(A) = 3 /\ A[1] = fs /\ A[2] = ff /\ A[3] = ft
  BY <1>5, ConcatProperties
<1> HIDE DEF A
<1>7. /\ B \in Seq(Steps) /\ Len(B) = 5
      /\ B[1] = fs /\ B[2] = ff /\ B[3] = ft /\ B[4] = sf /\ B[5] = st
  <2> DEFINE two == <<sf, st>>
  <2>1. two \in Seq(Steps) /\ Len(two) = 2 /\ two[1] = sf /\ two[2] = st
    BY <1>5
  <2> HIDE DEF two
  <2>2. /\ A \o two \in Seq(Steps) /\ Len(A \o two) = Len(A) + Len(two)
        /\ \A i \in 1 .. Len(A) : (A \o two)[i] = A[i]
        /\ \A i \in 1 .. Len(two) : (A \o two)[Len(A) + i] = two[i]
    BY <1>6, <2>1, ConcatElements
  <2>3. B = A \o two
    BY DEF two
  <2>4. B[3 + 1] = two[1] /\ B[3 + 2] = two[2]
    BY <1>6, <2>1, <2>2, <2>3
  <2> HIDE DEF B
  <2>5. QED
    BY <1>6, <2>1, <2>2, <2>3, <2>4
<1> HIDE DEF B
<1>8. /\ R \in Seq(Steps) /\ Len(R) = 6
      /\ R[1] = fs /\ R[2] = ff /\ R[3] = ft /\ R[4] = sf /\ R[5] = st /\ R[6] = ret
  <2> DEFINE one == <<ret>>
  <2>1. one \in Seq(Steps) /\ Len(one) = 1 /\ one[1] = ret
    BY <1>5
  <2> HIDE DEF one
  <2>2. /\ B \o one \in Seq(Steps) /\ Len(B \o one) = Len(B) + Len(one)
        /\ \A i \in 1 .. Len(B) : (B \o one)[i] = B[i]
        /\ \A i \in 1 .. Len(one) : (B \o one)[Len(B) + i] = one[i]
    BY <1>7, <2>1, ConcatElements
  <2>3. R = B \o one
    BY DEF one
  <2>4. R[5 + 1] = one[1]
    BY <1>7, <2>1, <2>2, <2>3
  <2> HIDE DEF R
  <2>5. QED
    BY <1>7, <2>1, <2>2, <2>3, <2>4
<1>9. R = PercentageSteps
  BY <1>4 DEF A, B
<1> HIDE DEF R
<1>10. Chain(R)
  <2>1. ASSUME NEW i \in 1 .. Len(R) - 1 PROVE Follows(R[i], R[i + 1])
    <3>1. i = 1 \/ i = 2 \/ i = 3 \/ i = 4 \/ i = 5
      BY <1>8
    <3>2. 1 + 1 = 2 /\ 2 + 1 = 3 /\ 3 + 1 = 4 /\ 4 + 1 = 5 /\ 5 + 1 = 6
      OBVIOUS
    <3>3. QED
      BY <1>2, <1>8, <3>1, <3>2
  <2>2. QED
    BY <2>1 DEF Chain
<1>11. ASSUME NEW i \in 1 .. Len(R) PROVE R[i] \in {fs, ff, ft, sf, st, ret}
  <2>1. i = 1 \/ i = 2 \/ i = 3 \/ i = 4 \/ i = 5 \/ i = 6
    BY <1>8
  <2>2. QED
    BY <1>8, <2>1
<1>12. InOrder(R)
  BY <1>3, <1>8, <1>10, <1>11 DEF InOrder, ret
<1>13. R \in Seq(Steps) /\ Len(R) > 0 /\ R[1] = Step("first", "Success")
  BY <1>8 DEF fs
<1>14. QED
  BY <1>9, <1>12, <1>13

-----------------------------------------------------------------------------
(* A goroutine's steps stay in order as it takes them.                     *)

(* What each kind of step is about.                                        *)
LEMMA StepKinds ==
  ASSUME NEW a \in Steps
  PROVE  /\ a = Step(a.do, a.on)
         /\ a.do # "get" => a.on \in Counters
         /\ a.do = "return" => a.on = "Success"
         /\ a.do = "load" => a.on = "consecutive"
         /\ a.do = "zero" => a.on = "consecutive"
         /\ a.do = "judge" => a.on \in {"Success", "ErrInterrupt"}
         /\ a.do = "streak" => a.on = "consecutive"
         /\ a.do = "first" => a.on \in {"Success", "ErrFailure", "ErrTimeout", "attempts"}
         /\ a.do = "second" => a.on \in {"ErrFailure", "ErrTimeout", "errors"}
         /\ a.do = "get" => a.on \in {"requestVolumeThreshold", "errorPercentage", "closeThreshold"}
  BY DEF Steps, Plain, Reads, Inc, Step, Counters, Verdicts, Timed, Failures

(* The first of several steps.                                             *)
LEMMA HeadIsFirst ==
  ASSUME NEW t \in Seq(Steps), t # <<>>
  PROVE  /\ Head(t) = t[1] /\ t[1] \in Steps /\ Len(t) \in Nat /\ Len(t) > 0
         /\ \A i \in 1 .. Len(t) : t[i] \in Steps
  BY HeadTailProperties, LenProperties, ElementOfSeq

(* Taking the first step leaves the others in order.                       *)
LEMMA DoneInOrder ==
  ASSUME NEW t \in Seq(Steps), t # <<>>, InOrder(t)
  PROVE  Tail(t) \in Seq(Steps) /\ InOrder(Tail(t))
<1>1. /\ Chain(Tail(t)) /\ Tail(t) \in Seq(Steps) /\ Len(Tail(t)) = Len(t) - 1
      /\ \A i \in 1 .. Len(t) - 1 : Tail(t)[i] = t[i + 1]
      /\ Len(t) \in Nat
  BY ChainTail, HeadIsFirst DEF InOrder
<1>2. ASSUME Tail(t) # <<>> PROVE Tail(t)[Len(Tail(t))] = Step("return", "Success")
  <2>1. Len(Tail(t)) > 0
    BY <1>1, <1>2
  <2>2. Tail(t)[Len(t) - 1] = t[(Len(t) - 1) + 1]
    BY <1>1, <2>1
  <2>3. t[Len(t)] = Step("return", "Success")
    BY DEF InOrder
  <2>4. (Len(t) - 1) + 1 = Len(t)
    BY <1>1
  <2>5. QED
    BY <1>1, <2>2, <2>3, <2>4
<1>3. ASSUME NEW i \in 1 .. Len(Tail(t))
      PROVE  /\ Tail(t)[i] = Step("first", "attempts") => logic = "hystrix"
             /\ Tail(t)[i] = Step("streak", "consecutive") => logic = "consecutive"
  <2>1. i + 1 \in 1 .. Len(t) /\ Tail(t)[i] = t[i + 1]
    BY <1>1, <1>3
  <2>2. QED
    BY <2>1 DEF InOrder
<1>4. QED
  BY <1>1, <1>2, <1>3 DEF InOrder

(* And so does putting another change in place of a load or a judgement.   *)
LEMMA InsteadInOrder ==
  ASSUME NEW t \in Seq(Steps), t # <<>>, InOrder(t), Head(t).do \in {"load", "judge"},
         NEW a \in Plain
  PROVE  <<a>> \o Tail(t) \in Seq(Steps) /\ InOrder(<<a>> \o Tail(t))
<1> DEFINE u == Tail(t)
           r == <<a>> \o u
<1>1. u \in Seq(Steps) /\ InOrder(u) /\ Len(u) = Len(t) - 1 /\ Len(t) \in Nat /\ Len(t) > 0
      /\ \A i \in 1 .. Len(t) - 1 : u[i] = t[i + 1]
  BY DoneInOrder, ChainTail, HeadIsFirst DEF InOrder
<1>2. Len(t) > 1
  <2>1. SUFFICES ASSUME Len(t) = 1 PROVE FALSE
    BY <1>1
  <2>2. Head(t) = Step("return", "Success")
    BY <2>1, HeadIsFirst DEF InOrder
  <2>3. QED
    BY <2>2 DEF Step
<1>3. Follows(a, u[1])
  <2>1. Follows(t[1], t[1 + 1]) /\ u[1] = t[1 + 1]
    BY <1>1, <1>2 DEF InOrder, Chain
  <2>2. t[1].do \in {"load", "judge"}
    BY HeadIsFirst
  <2>3. /\ a.do \notin {"return", "streak", "get"}
        /\ \A c \in {"Success", "ErrFailure", "ErrTimeout", "attempts", "errors"} :
             a # Step("first", c) /\ a # Step("second", c)
        /\ \A c : a # Step("get", c) /\ a # Step("streak", c)
    BY DEF Plain, Step, Inc
  <2>4. /\ \A c \in {"Success", "ErrFailure", "ErrTimeout", "attempts", "errors"} :
             t[1] # Step("first", c) /\ t[1] # Step("second", c) /\ t[1] # Inc(c)
        /\ \A c : t[1] # Step("get", c) /\ t[1] # Step("streak", c)
    BY <2>2 DEF Step, Inc
  <2>5. QED
    BY <2>1, <2>3, <2>4 DEF Follows
<1>4. <<a>> \in Seq(Steps) /\ Chain(<<a>>) /\ Len(<<a>>) = 1 /\ <<a>>[1] = a
  BY ShortSequences, KindsOfSteps
<1> HIDE DEF u
<1>5. Chain(r)
  <2>1. <<a>>[Len(<<a>>)] = a /\ Chain(u)
    BY <1>1, <1>4 DEF InOrder
  <2>2. QED
    BY <1>1, <1>3, <1>4, <2>1, ChainConcat
<1>6. /\ r \in Seq(Steps) /\ Len(r) = 1 + Len(u) /\ r[1] = a
      /\ \A i \in 1 .. Len(u) : r[1 + i] = u[i]
      /\ \A i \in 1 .. Len(r) : r[i] = a \/ \E j \in 1 .. Len(u) : r[i] = u[j]
  BY <1>1, <1>4, ConcatElements
<1> HIDE DEF r
<1>7. r[Len(r)] = Step("return", "Success")
  <2>1. u # <<>> /\ Len(u) \in 1 .. Len(u)
    BY <1>1, <1>2
  <2>2. QED
    BY <1>1, <1>6, <2>1 DEF InOrder
<1>8. ASSUME NEW i \in 1 .. Len(r)
      PROVE  /\ r[i] = Step("first", "attempts") => logic = "hystrix"
             /\ r[i] = Step("streak", "consecutive") => logic = "consecutive"
  <2>1. a # Step("first", "attempts") /\ a # Step("streak", "consecutive")
    BY DEF Plain, Step, Inc
  <2>2. QED
    BY <1>1, <1>6, <1>8, <2>1 DEF InOrder
<1>9. QED
  BY <1>5, <1>6, <1>7, <1>8 DEF InOrder, r, u

(* One goroutine's steps change: the others' stay in order.                *)
LEMMA TodoKept ==
  ASSUME TypeOK, TodoInOrder, logic' = logic, NEW g \in Goroutines,
         NEW t \in Seq(Steps), InOrder(t), todo' = [todo EXCEPT ![g] = t]
  PROVE  todo' \in [Goroutines -> Seq(Steps)] /\ TodoInOrder'
<1>1. todo \in [Goroutines -> Seq(Steps)]
  BY DEF TypeOK
<1>2. \A h \in Goroutines : todo'[h] = IF h = g THEN t ELSE todo[h]
  BY <1>1
<1>3. \A h \in Goroutines : InOrder(todo'[h])
  BY <1>2 DEF TodoInOrder
<1>4. QED
  BY <1>1, <1>3 DEF TodoInOrder, InOrder

(* A goroutine does its first step.                                        *)
LEMMA RestKept ==
  ASSUME TypeOK, TodoInOrder, logic' = logic, NEW g \in Goroutines,
         todo[g] # <<>>, Rest(g)
  PROVE  todo' \in [Goroutines -> Seq(Steps)] /\ TodoInOrder'
<1>1. todo[g] \in Seq(Steps) /\ InOrder(todo[g])
  BY DEF TypeOK, TodoInOrder
<1>2. Tail(todo[g]) \in Seq(Steps) /\ InOrder(Tail(todo[g]))
  BY <1>1, DoneInOrder
<1>3. todo' = [todo EXCEPT ![g] = Tail(todo[g])]
  BY DEF Rest
<1>4. QED
  BY <1>2, <1>3, TodoKept

(* A goroutine puts a change in place of its first step.                   *)
LEMMA InsteadKept ==
  ASSUME TypeOK, TodoInOrder, logic' = logic, NEW g \in Goroutines, NEW a \in Plain,
         todo[g] # <<>>, Head(todo[g]).do \in {"load", "judge"}, Instead(g, a)
  PROVE  todo' \in [Goroutines -> Seq(Steps)] /\ TodoInOrder'
<1>1. todo[g] \in Seq(Steps) /\ InOrder(todo[g])
  BY DEF TypeOK, TodoInOrder
<1>2. <<a>> \o Tail(todo[g]) \in Seq(Steps) /\ InOrder(<<a>> \o Tail(todo[g]))
  BY <1>1, InsteadInOrder
<1>3. todo' = [todo EXCEPT ![g] = <<a>> \o Tail(todo[g])]
  BY DEF Instead
<1>4. QED
  BY <1>2, <1>3, TodoKept

(* The step a goroutine is at.                                             *)
LEMMA AtStep ==
  ASSUME TypeOK, NEW g \in Goroutines, NEW do, Does(g, do)
  PROVE  /\ todo[g] \in Seq(Steps) /\ todo[g] # <<>> /\ Head(todo[g]) \in Steps
         /\ Head(todo[g]) = Step(do, On(g)) /\ (do # "get" => On(g) \in Counters)
         /\ Head(todo[g]) = todo[g][1] /\ Len(todo[g]) \in Nat /\ Len(todo[g]) > 0
<1>1. todo[g] \in Seq(Steps) /\ todo[g] # <<>> /\ Head(todo[g]).do = do
  BY DEF TypeOK, Does
<1>2. Head(todo[g]) \in Steps
  BY <1>1, HeadIsFirst
<1>3. QED
  BY <1>1, <1>2, HeadIsFirst, StepKinds DEF On

(* What changes in one step is of its type, but for what is to do.         *)
Values ==
  /\ config \in [Fields -> Int]
  /\ count \in [Counters -> Nat]
  /\ resetting \in BOOLEAN
  /\ got \in [Goroutines -> [first : Nat, second : Nat]]
  /\ answer \in [Goroutines -> {"none", "yes", "no"}]
  /\ due \subseteq Goroutines
  /\ late \in Nat /\ excused \in Nat
  /\ errorsAt \in [Goroutines -> Nat]
  /\ streaks \in [failures : Nat, known : [Goroutines -> Nat], base : Nat]

(* Some goroutines are about to count: a number of them.                   *)
LEMMA PendingCount ==
  \A c : IsFiniteSet(Pending(c)) /\ Cardinality(Pending(c)) \in Nat
<1>1. SUFFICES ASSUME NEW c PROVE IsFiniteSet(Pending(c)) /\ Cardinality(Pending(c)) \in Nat
  OBVIOUS
<1>2. Pending(c) \subseteq Goroutines
  BY DEF Pending
<1>3. QED
  BY <1>2, GoroutinesAssumption, FS_Subset, FS_CardinalityType

(* Every step keeps the types and the order of what is to do.              *)
LEMMA TypeStep ==
  ASSUME TypeOK, TodoInOrder, [Next]_vars
  PROVE  TypeOK' /\ TodoInOrder' /\ logic' = logic
<1>l. logic' = logic
  BY DEF Next, vars, Report, ErrorPercentageAt, DoInc, LoadStreak, ZeroStreak, Judge, DoReturn,
         ReadStreak, ReadAttempts, ReadErrors, GetThreshold, ResetErrors, ResetAttempts,
         ResetStreak, SetConfigThreadSafe
<1>v. Values
  BY DEF TypeOK, Values
<1>w. Fields' = Fields
  BY <1>l DEF Fields
<1>a. ASSUME NEW g \in Goroutines, Asks(g) PROVE due' \subseteq Goroutines
  BY <1>v, <1>a DEF Asks, Values
<1> DEFINE Kept == todo' \in [Goroutines -> Seq(Steps)] /\ TodoInOrder'
<1>k. SUFFICES Values' /\ Kept
  BY <1>l DEF TypeOK, Values
<1>u. ASSUME UNCHANGED todo PROVE Kept
  BY <1>l, <1>u DEF TypeOK, TodoInOrder, InOrder
<1> HIDE DEF Kept
<1>1. ASSUME NEW g \in Goroutines, NEW v \in Verdicts, NEW d \in Durations, Report(g, v, d)
      PROVE  Values' /\ Kept
  <2>1. Values'
    BY <1>v, <1>w, <1>1 DEF Report, Values, asking
  <2>2. todo' = [todo EXCEPT ![g] = ReportSteps(v)]
    BY <1>1 DEF Report, ReportSteps
  <2>3. ReportSteps(v) \in Seq(Steps) /\ InOrder(ReportSteps(v))
    BY ReportInOrder DEF TypeOK
  <2>4. QED
    BY <1>l, <2>1, <2>2, <2>3, TodoKept DEF Kept
<1>2. ASSUME NEW g \in Goroutines, ErrorPercentageAt(g)
      PROVE  Values' /\ Kept
  <2>1. count["ErrFailure"] + count["ErrTimeout"] \in Nat
    BY <1>v DEF Values, Counters, Verdicts, Timed, Failures
  <2>2. Values'
    BY <1>v, <1>w, <1>2, <2>1 DEF ErrorPercentageAt, Values, asking
  <2>3. todo' = [todo EXCEPT ![g] = PercentageSteps]
    BY <1>2 DEF ErrorPercentageAt, PercentageSteps
  <2>4. QED
    BY <1>l, <2>2, <2>3, PercentageInOrder, TodoKept DEF Kept
<1>3. ASSUME NEW g \in Goroutines, DoInc(g)
      PROVE  Values' /\ Kept
  <2>1. todo[g] # <<>> /\ On(g) \in Counters
    BY <1>3, AtStep DEF DoInc
  <2>2. count' \in [Counters -> Nat]
    BY <1>v, <1>3, <2>1 DEF DoInc, Values
  <2>3. late' \in Nat /\ streaks' \in [failures : Nat, known : [Goroutines -> Nat], base : Nat]
    BY <1>v, <1>3 DEF DoInc, Values
  <2>4. Values'
    BY <1>v, <1>w, <1>3, <2>2, <2>3 DEF DoInc, Values, asking
  <2>5. QED
    BY <1>l, <1>3, <2>1, <2>4, RestKept DEF DoInc, Kept
<1>s. ASSUME NEW g \in Goroutines, StreakOver(g)
      PROVE  streaks' \in [failures : Nat, known : [Goroutines -> Nat], base : Nat]
  BY <1>v, <1>s DEF StreakOver, Values
<1>4. ASSUME NEW g \in Goroutines, LoadStreak(g)
      PROVE  Values' /\ Kept
  <2>1. todo[g] # <<>> /\ Head(todo[g]).do \in {"load", "judge"}
    BY <1>4 DEF LoadStreak, Does
  <2>2. streaks' \in [failures : Nat, known : [Goroutines -> Nat], base : Nat]
    BY <1>v, <1>s, <1>4 DEF LoadStreak, Values
  <2>3. Values'
    BY <1>v, <1>w, <1>4, <2>2 DEF LoadStreak, Values, asking
  <2>4. Kept
    BY <1>l, <1>4, <2>1, RestKept, InsteadKept, KindsOfSteps DEF LoadStreak, Kept
  <2>5. QED
    BY <2>3, <2>4
<1>5. ASSUME NEW g \in Goroutines, ZeroStreak(g)
      PROVE  Values' /\ Kept
  <2>1. todo[g] # <<>> /\ "consecutive" \in Counters
    BY <1>5 DEF ZeroStreak, Does, Counters
  <2>2. Values'
    BY <1>v, <1>w, <1>s, <1>5, <2>1 DEF ZeroStreak, Values, asking
  <2>3. QED
    BY <1>l, <1>5, <2>1, <2>2, RestKept DEF ZeroStreak, Kept
<1>6. ASSUME NEW g \in Goroutines, Judge(g)
      PROVE  Values' /\ Kept
  <2>1. todo[g] # <<>> /\ Head(todo[g]).do \in {"load", "judge"}
    BY <1>6 DEF Judge, Does
  <2>2. Values'
    BY <1>v, <1>w, <1>6 DEF Judge, Values, asking
  <2>3. Inc("MeetsSLO") \in Plain /\ Inc("FailsSLO") \in Plain
    BY KindsOfSteps DEF Counters
  <2>4. CASE Rest(g)
    BY <1>l, <2>1, <2>2, <2>4, RestKept DEF Kept
  <2>5. CASE Instead(g, Inc("MeetsSLO")) \/ Instead(g, Inc("FailsSLO"))
    BY <1>l, <2>1, <2>2, <2>3, <2>5, InsteadKept DEF Kept
  <2>6. QED
    BY <1>6, <2>4, <2>5 DEF Judge
<1>7. ASSUME NEW g \in Goroutines, DoReturn(g)
      PROVE  Values' /\ Kept
  <2>1. todo[g] # <<>>
    BY <1>7 DEF DoReturn, Does
  <2>2. Values'
    BY <1>v, <1>w, <1>7 DEF DoReturn, Values, NothingRead
  <2>3. QED
    BY <1>l, <1>7, <2>1, <2>2, RestKept DEF DoReturn, Kept
<1>8. ASSUME NEW g \in Goroutines, ReadStreak(g)
      PROVE  Values' /\ Kept
  <2>1. todo[g] # <<>> /\ count["consecutive"] \in Nat
    BY <1>v, <1>8 DEF ReadStreak, Does, Values, Counters
  <2>2. got' \in [Goroutines -> [first : Nat, second : Nat]]
    BY <1>v, <1>8, <2>1 DEF ReadStreak, Values
  <2>3. Values'
    BY <1>v, <1>w, <1>a, <1>8, <2>2 DEF ReadStreak, Values, history
  <2>4. QED
    BY <1>l, <1>8, <2>1, <2>3, RestKept DEF ReadStreak, Kept
<1>e. Return \in Seq(Steps) /\ InOrder(Return)
  <2>1. Step("return", "Success") \in Steps
    BY DEF Steps
  <2>2. /\ Return \in Seq(Steps) /\ Chain(Return) /\ Len(Return) = 1
        /\ Return[1] = Step("return", "Success")
    BY <2>1, ShortSequences DEF Return
  <2>3. \A i \in 1 .. Len(Return) : Return[i] = Step("return", "Success")
    BY <2>2
  <2>4. QED
    BY <2>2, <2>3 DEF InOrder, Step
<1>9. ASSUME NEW g \in Goroutines, ReadAttempts(g)
      PROVE  Values' /\ Kept
  <2>1. todo[g] # <<>> /\ On(g) \in Counters
    BY <1>9, AtStep DEF ReadAttempts
  <2>2. got[g].first + count[On(g)] \in Nat
    BY <1>v, <2>1 DEF Values
  <2>3. got' \in [Goroutines -> [first : Nat, second : Nat]]
    <3>1. got' = got \/ got' = [got EXCEPT ![g].first = got[g].first + count[On(g)]]
      BY <1>9 DEF ReadAttempts
    <3>2. QED
      BY <1>v, <2>2, <3>1 DEF Values
  <2>4. answer' \in [Goroutines -> {"none", "yes", "no"}]
    BY <1>v, <1>9 DEF ReadAttempts, Values
  <2>5. due' \subseteq Goroutines
    BY <1>v, <1>a, <1>9 DEF ReadAttempts, Values
  <2>6. Values'
    BY <1>v, <1>w, <1>9, <2>3, <2>4, <2>5 DEF ReadAttempts, Values, history
  <2>7. CASE Rest(g)
    BY <1>l, <2>1, <2>6, <2>7, RestKept DEF Kept
  <2>8. CASE todo' = [todo EXCEPT ![g] = Return]
    BY <1>l, <1>e, <2>6, <2>8, TodoKept DEF Kept
  <2>9. QED
    BY <1>9, <2>7, <2>8 DEF ReadAttempts
<1>10. ASSUME NEW g \in Goroutines, ReadErrors(g)
      PROVE  Values' /\ Kept
  <2>1. todo[g] # <<>> /\ On(g) \in Counters
    BY <1>10, AtStep DEF ReadErrors
  <2>2. got[g].second + count[On(g)] \in Nat
    BY <1>v, <2>1 DEF Values
  <2>3. got' \in [Goroutines -> [first : Nat, second : Nat]]
    BY <1>v, <1>10, <2>2 DEF ReadErrors, Values
  <2>4. Values'
    BY <1>v, <1>w, <1>10, <2>3 DEF ReadErrors, Values, history
  <2>5. QED
    BY <1>l, <1>10, <2>1, <2>4, RestKept DEF ReadErrors, Kept
<1>g. ASSUME NEW g \in Goroutines, GetThreshold(g)
      PROVE  Values' /\ Kept
  <2>1. todo[g] # <<>> /\ (Rest(g) \/ todo' = [todo EXCEPT ![g] = Return])
    BY <1>g DEF GetThreshold, Does
  <2>2. answer' \in [Goroutines -> {"none", "yes", "no"}]
    BY <1>v, <1>g DEF GetThreshold, Values
  <2>3. Values'
    BY <1>v, <1>w, <1>g, <2>2 DEF GetThreshold, Values, history
  <2>4. Kept
    BY <1>l, <1>e, <2>1, RestKept, TodoKept DEF Kept
  <2>5. QED
    BY <2>3, <2>4
<1>11. ASSUME ResetErrors PROVE Values' /\ Kept
  <2>1. Values'
    BY <1>v, <1>w, <1>11 DEF ResetErrors, Values, asking, Counters
  <2>2. QED
    BY <1>u, <1>11, <2>1 DEF ResetErrors
<1>12. ASSUME ResetAttempts PROVE Values' /\ Kept
  <2>1. late + Cardinality(Pending("errors")) \in Nat
    BY <1>v, PendingCount DEF Values
  <2>2. Values'
    BY <1>v, <1>w, <1>12, <2>1 DEF ResetAttempts, Values, asking, Counters
  <2>3. QED
    BY <1>u, <1>12, <2>2 DEF ResetAttempts
<1>13. ASSUME ResetStreak PROVE Values' /\ Kept
  <2>1. Values'
    BY <1>v, <1>w, <1>13 DEF ResetStreak, Values, asking, Counters
  <2>2. QED
    BY <1>u, <1>13, <2>1 DEF ResetStreak
<1>14. ASSUME NEW field \in Fields, NEW value \in Settings[field],
              SetConfigThreadSafe(field, value)
       PROVE  Values' /\ Kept
  <2>1. value \in Int
    BY SettingsAssumption DEF Fields
  <2>2. Values'
    BY <1>v, <1>w, <1>14, <2>1 DEF SetConfigThreadSafe, Values, history
  <2>3. QED
    BY <1>u, <1>14, <2>2 DEF SetConfigThreadSafe
<1>15. ASSUME UNCHANGED vars PROVE Values' /\ Kept
  <2>1. Values'
    BY <1>v, <1>w, <1>15 DEF vars, Values, asking, history
  <2>2. QED
    BY <1>u, <1>15, <2>1 DEF vars
<1>16. QED
  BY <1>1, <1>2, <1>3, <1>4, <1>5, <1>6, <1>7, <1>8, <1>9, <1>10, <1>g, <1>11, <1>12, <1>13,
     <1>14, <1>15 DEF Next

LEMMA InitTypes == Init => TypeOK /\ TodoInOrder
<1> SUFFICES ASSUME Init PROVE TypeOK /\ TodoInOrder
  OBVIOUS
<1>1. config \in [Fields -> Int]
  BY SettingsAssumption DEF Init, Fields
<1>2. <<>> \in Seq(Steps) /\ InOrder(<<>>)
  BY ShortSequences DEF InOrder
<1>3. TypeOK
  BY <1>1, <1>2 DEF Init, TypeOK, NothingRead
<1>4. TodoInOrder
  BY <1>2 DEF Init, TodoInOrder
<1>5. QED
  BY <1>3, <1>4

LEMMA TypesAndOrder == Spec => [](TypeOK /\ TodoInOrder)
<1>1. Init => TypeOK /\ TodoInOrder
  BY InitTypes
<1>2. TypeOK /\ TodoInOrder /\ [Next]_vars => (TypeOK /\ TodoInOrder)'
  BY TypeStep
<1>3. QED
  BY <1>1, <1>2, PTL DEF Spec

-----------------------------------------------------------------------------
(* The streak of ConsecutiveErrOpener.                                     *)

(* No goroutine knows of failures still to come, and the streak is among   *)
(* those told since the last success that is over began.                   *)
StreakKept ==
  /\ \A g \in Goroutines : streaks.known[g] <= streaks.failures
  /\ streaks.base <= streaks.failures
  /\ count["consecutive"] <= streaks.failures - streaks.base

LEMMA StreakStep ==
  ASSUME TypeOK, TypeOK', StreakKept, [Next]_vars
  PROVE  StreakKept'
<1>t. /\ streaks.failures \in Nat /\ streaks.base \in Nat /\ count["consecutive"] \in Nat
      /\ \A g \in Goroutines : streaks.known[g] \in Nat
      /\ streaks \in [failures : Nat, known : [Goroutines -> Nat], base : Nat]
      /\ count \in [Counters -> Nat] /\ "consecutive" \in Counters
  BY DEF TypeOK, Counters
<1>u. ASSUME UNCHANGED streaks, count'["consecutive"] = count["consecutive"]
      PROVE  StreakKept'
  BY <1>u DEF StreakKept
<1>o. ASSUME NEW g \in Goroutines, StreakOver(g), count'["consecutive"] = 0
      PROVE  StreakKept'
  BY <1>o, <1>t DEF StreakOver, StreakKept
<1>1. ASSUME NEW g \in Goroutines, NEW v \in Verdicts, NEW d \in Durations, Report(g, v, d)
      PROVE  StreakKept'
  BY <1>1, <1>t DEF Report, StreakKept
<1>2. ASSUME NEW g \in Goroutines, ErrorPercentageAt(g) PROVE StreakKept'
  BY <1>u, <1>2 DEF ErrorPercentageAt
<1>3. ASSUME NEW g \in Goroutines, DoInc(g) PROVE StreakKept'
  <2>1. On(g) \in Counters
    BY <1>3, AtStep DEF DoInc
  <2>2. CASE On(g) = "consecutive"
    <3>1. /\ streaks'.failures = streaks.failures + 1 /\ streaks'.base = streaks.base
          /\ streaks'.known = streaks.known
      BY <1>3, <1>t, <2>2 DEF DoInc
    <3>2. count'["consecutive"] = count["consecutive"] + 1
      BY <1>3, <1>t, <2>2 DEF DoInc
    <3>3. QED
      BY <1>t, <3>1, <3>2 DEF StreakKept
  <2>3. CASE On(g) # "consecutive"
    BY <1>3, <1>t, <1>u, <2>1, <2>3 DEF DoInc
  <2>4. QED
    BY <2>2, <2>3
<1>4. ASSUME NEW g \in Goroutines, LoadStreak(g) PROVE StreakKept'
  BY <1>4, <1>u, <1>o DEF LoadStreak, StreakToEnd
<1>5. ASSUME NEW g \in Goroutines, ZeroStreak(g) PROVE StreakKept'
  BY <1>5, <1>t, <1>o DEF ZeroStreak
<1>6. ASSUME NEW g \in Goroutines, Judge(g) PROVE StreakKept'
  BY <1>6, <1>u DEF Judge
<1>7. ASSUME NEW g \in Goroutines, DoReturn(g) PROVE StreakKept'
  BY <1>7, <1>t DEF DoReturn, StreakKept
<1>8. ASSUME NEW g \in Goroutines, ReadStreak(g) \/ ReadAttempts(g) \/ ReadErrors(g) \/ GetThreshold(g)
      PROVE  StreakKept'
  BY <1>8, <1>u DEF ReadStreak, ReadAttempts, ReadErrors, GetThreshold, history
<1>9. ASSUME ResetErrors \/ ResetAttempts PROVE StreakKept'
  BY <1>9, <1>t, <1>u DEF ResetErrors, ResetAttempts
<1>10. ASSUME ResetStreak PROVE StreakKept'
  BY <1>10, <1>t DEF ResetStreak, StreakKept
<1>11. ASSUME NEW field \in Fields, NEW value \in Settings[field],
              SetConfigThreadSafe(field, value)
       PROVE  StreakKept'
  BY <1>11, <1>u DEF SetConfigThreadSafe, history
<1>12. ASSUME UNCHANGED vars PROVE StreakKept'
  BY <1>12, <1>u DEF vars, history
<1>13. QED
  BY <1>1, <1>2, <1>3, <1>4, <1>5, <1>6, <1>7, <1>8, <1>9, <1>10, <1>11, <1>12 DEF Next

(* A success that is over leaves nothing of the streak it found, whatever  *)
(* failures are told between its load and its store.                       *)
THEOREM StreakSafe == Spec => []StreakIsConsecutive
<1>1. Init => StreakKept
  BY DEF Init, StreakKept, Counters
<1>2. TypeOK /\ TypeOK' /\ StreakKept /\ [Next]_vars => StreakKept'
  BY StreakStep
<1>3. StreakKept => StreakIsConsecutive
  BY DEF StreakKept, StreakIsConsecutive
<1>4. QED
  BY <1>1, <1>2, <1>3, TypesAndOrder, PTL DEF Spec

-----------------------------------------------------------------------------
(* The opener's errors and attempts.                                       *)

(* The step after a goroutine's first one.                                 *)
LEMMA AfterHead ==
  ASSUME TypeOK, TodoInOrder, NEW g \in Goroutines, todo[g] # <<>>
  PROVE  /\ Head(todo[g]).do = "return" <=> Tail(todo[g]) = <<>>
         /\ Tail(todo[g]) # <<>> => /\ Head(Tail(todo[g])) \in Steps
                                    /\ Follows(Head(todo[g]), Head(Tail(todo[g])))
                                    /\ Head(Tail(todo[g])) = todo[g][2]
<1> DEFINE t == todo[g]
           u == Tail(t)
<1>1. t \in Seq(Steps) /\ InOrder(t) /\ t # <<>>
  BY DEF TypeOK, TodoInOrder
<1>2. /\ Head(t) = t[1] /\ Len(t) \in Nat /\ Len(t) > 0
      /\ u \in Seq(Steps) /\ Len(u) = Len(t) - 1
      /\ \A i \in 1 .. Len(t) - 1 : u[i] = t[i + 1]
      /\ Chain(t) /\ t[Len(t)] = Step("return", "Success")
  BY <1>1, HeadIsFirst, ChainTail DEF InOrder
<1> HIDE DEF t, u
<1>3. ASSUME u = <<>> PROVE Head(t).do = "return"
  <2>1. Len(t) = 1
    BY <1>2, <1>3
  <2>2. QED
    BY <1>2, <2>1 DEF Step
<1>4. ASSUME u # <<>>
      PROVE  /\ Head(u) \in Steps /\ Follows(Head(t), Head(u)) /\ Head(t).do # "return"
             /\ Head(u) = t[2]
  <2>1. Len(u) > 0 /\ Head(u) = u[1] /\ Head(u) \in Steps
    BY <1>2, <1>4, HeadIsFirst
  <2>2. Head(u) = t[1 + 1] /\ Follows(t[1], t[1 + 1])
    BY <1>2, <2>1 DEF Chain
  <2>3. QED
    BY <1>2, <2>1, <2>2 DEF Follows
<1>5. QED
  BY <1>3, <1>4 DEF t, u

(* The increments of a counter that come next, when one goroutine moves.   *)
LEMMA PendingMoves ==
  ASSUME TypeOK, TodoInOrder, NEW g \in Goroutines, NEW t \in Seq(Steps),
         todo' = [todo EXCEPT ![g] = t]
  PROVE  /\ Pending("errors")' \subseteq Pending("errors") \cup {g}
         /\ t = <<>> \/ Head(t) # Inc("errors")
              => Pending("errors")' = Pending("errors") \ {g}
<1>1. \A h \in Goroutines : todo'[h] = IF h = g THEN t ELSE todo[h]
  BY DEF TypeOK
<1>2. \A h \in Goroutines : h \in Pending("errors") <=>
         todo[h] # <<>> /\ Head(todo[h]).do = "inc" /\ Head(todo[h]).on = "errors"
  BY DEF Pending, Does, On
<1>3. \A h \in Goroutines : h \in Pending("errors")' <=>
         todo'[h] # <<>> /\ Head(todo'[h]).do = "inc" /\ Head(todo'[h]).on = "errors"
  BY DEF Pending, Does, On
<1>4. Pending("errors")' \subseteq Goroutines /\ Pending("errors") \subseteq Goroutines
  BY DEF Pending
<1>5. Pending("errors")' \subseteq Pending("errors") \cup {g}
  BY <1>1, <1>2, <1>3, <1>4
<1>6. ASSUME t # <<>>, Head(t) # Inc("errors")
      PROVE  ~(Head(t).do = "inc" /\ Head(t).on = "errors")
  BY <1>6, HeadIsFirst, StepKinds DEF Inc
<1>7. QED
  BY <1>1, <1>2, <1>3, <1>4, <1>5, <1>6

(* The error of a failure comes right after its attempt.                   *)
LEMMA PendingRest ==
  ASSUME TypeOK, TypeOK', TodoInOrder, NEW g \in Goroutines, todo[g] # <<>>, Rest(g)
  PROVE  /\ Pending("errors")' \subseteq Pending("errors") \cup {g}
         /\ Head(todo[g]) # Inc("attempts") => Pending("errors")' = Pending("errors") \ {g}
<1>1. todo' = [todo EXCEPT ![g] = Tail(todo[g])]
  BY DEF Rest
<1>2. Head(todo[g]) # Inc("attempts") =>
        Tail(todo[g]) = <<>> \/ Head(Tail(todo[g])) # Inc("errors")
  BY AfterHead DEF Follows
<1>3. Tail(todo[g]) \in Seq(Steps)
  BY DoneInOrder DEF TypeOK, TodoInOrder
<1>4. QED
  BY <1>1, <1>2, <1>3, PendingMoves

(* Every error counted or about to be has its attempt counted, or is late. *)
(* Between the two resets only the late ones are left.                     *)
RateKept ==
  /\ resetting => count["errors"] <= late
  /\ ~resetting =>
       count["errors"] + Cardinality(Pending("errors")) <= count["attempts"] + late

(* A step that leaves the counters alone and makes no goroutine wait to    *)
(* count an error.                                                         *)
LEMMA RateFrame ==
  ASSUME TypeOK, RateKept, Pending("errors")' \subseteq Pending("errors"),
         count'["errors"] = count["errors"], count'["attempts"] = count["attempts"],
         UNCHANGED <<resetting, late>>
  PROVE  RateKept'
<1>1. /\ Cardinality(Pending("errors")') <= Cardinality(Pending("errors"))
      /\ Cardinality(Pending("errors")') \in Nat /\ Cardinality(Pending("errors")) \in Nat
  BY PendingCount, FS_Subset, FS_CardinalityType
<1>2. count["errors"] \in Nat /\ count["attempts"] \in Nat /\ late \in Nat
  BY DEF TypeOK, Counters
<1>3. QED
  BY <1>1, <1>2 DEF RateKept

LEMMA RateStep ==
  ASSUME TypeOK, TypeOK', TodoInOrder, RateKept, [Next]_vars
  PROVE  RateKept'
<1>t. /\ count["errors"] \in Nat /\ count["attempts"] \in Nat /\ late \in Nat
      /\ count \in [Counters -> Nat] /\ "errors" \in Counters /\ "attempts" \in Counters
      /\ resetting \in BOOLEAN
  BY DEF TypeOK, Counters
<1>f. IsFiniteSet(Pending("errors")) /\ Cardinality(Pending("errors")) \in Nat
  BY PendingCount
<1>e. ASSUME NEW g
      PROVE  /\ Cardinality(Pending("errors") \cup {g}) \in Nat
             /\ IsFiniteSet(Pending("errors") \cup {g})
             /\ Cardinality(Pending("errors") \cup {g}) <= Cardinality(Pending("errors")) + 1
             /\ g \in Pending("errors") =>
                  Cardinality(Pending("errors") \ {g}) = Cardinality(Pending("errors")) - 1
  <2> DEFINE P == Pending("errors")
  <2> HIDE DEF P
  <2>1. IsFiniteSet(P) /\ Cardinality(P) \in Nat
    BY <1>f DEF P
  <2>2. /\ IsFiniteSet(P \cup {g})
        /\ Cardinality(P \cup {g}) = IF g \in P THEN Cardinality(P) ELSE Cardinality(P) + 1
    BY <2>1, FS_AddElement
  <2>3. Cardinality(P \ {g}) = IF g \in P THEN Cardinality(P) - 1 ELSE Cardinality(P)
    BY <2>1, FS_RemoveElement
  <2>4. QED
    BY <2>1, <2>2, <2>3 DEF P
<1>u. ASSUME UNCHANGED todo PROVE Pending("errors")' = Pending("errors")
  BY <1>u DEF Pending, Does, On
<1>r. ASSUME NEW g \in Goroutines, NEW do, Does(g, do), do # "inc", Rest(g)
      PROVE  Pending("errors")' \subseteq Pending("errors")
  <2>1. todo[g] # <<>> /\ Head(todo[g]) # Inc("attempts")
    BY <1>r DEF Does, Inc, Step
  <2>2. QED
    BY <1>r, <2>1, PendingRest
<1>n. ASSUME NEW g \in Goroutines, NEW t \in Seq(Steps), Head(t) # Inc("errors"),
             todo' = [todo EXCEPT ![g] = t]
      PROVE  Pending("errors")' \subseteq Pending("errors")
  BY <1>n, PendingMoves
<1>p. Inc("errors") \notin Plain
  BY DEF Plain, Inc, Step
<1>i. ASSUME NEW g \in Goroutines, NEW a \in Plain, todo[g] # <<>>, Instead(g, a)
      PROVE  Pending("errors")' \subseteq Pending("errors")
  <2>1. a \in Steps /\ Tail(todo[g]) \in Seq(Steps)
    BY <1>i, KindsOfSteps, DoneInOrder DEF TypeOK, TodoInOrder
  <2>2. <<a>> \o Tail(todo[g]) \in Seq(Steps) /\ Head(<<a>> \o Tail(todo[g])) = a
    <3>1. <<a>> \in Seq(Steps) /\ Len(<<a>>) = 1 /\ <<a>>[1] = a
      BY <2>1, ShortSequences
    <3>2. /\ <<a>> \o Tail(todo[g]) \in Seq(Steps)
          /\ Len(<<a>> \o Tail(todo[g])) = 1 + Len(Tail(todo[g])) /\ Len(Tail(todo[g])) \in Nat
          /\ (<<a>> \o Tail(todo[g]))[1] = a
      BY <2>1, <3>1, ConcatElements
    <3>3. <<a>> \o Tail(todo[g]) # <<>>
      BY <3>2
    <3>4. QED
      BY <3>2, <3>3, HeadIsFirst
  <2>3. QED
    BY <1>i, <1>n, <1>p, <2>2 DEF Instead
<1>1. ASSUME NEW g \in Goroutines, NEW v \in Verdicts, NEW d \in Durations, Report(g, v, d)
      PROVE  RateKept'
  <2>1. /\ ReportSteps(v) \in Seq(Steps) /\ ReportSteps(v) # <<>>
        /\ ReportSteps(v)[1] \in Plain
    BY ReportInOrder DEF TypeOK
  <2>2. Head(ReportSteps(v)) # Inc("errors")
    BY <1>p, <2>1, HeadIsFirst
  <2>3. todo' = [todo EXCEPT ![g] = ReportSteps(v)]
    BY <1>1 DEF Report, ReportSteps
  <2>4. Pending("errors")' \subseteq Pending("errors")
    BY <1>n, <2>1, <2>2, <2>3
  <2>5. QED
    BY <1>1, <2>4, RateFrame DEF Report
<1>2. ASSUME NEW g \in Goroutines, ErrorPercentageAt(g) PROVE RateKept'
  <2>1. Head(PercentageSteps) # Inc("errors")
    <3>1. PercentageSteps # <<>>
      BY PercentageInOrder
    <3>2. QED
      BY <3>1, PercentageInOrder, HeadIsFirst DEF Inc, Step
  <2>2. todo' = [todo EXCEPT ![g] = PercentageSteps]
    BY <1>2 DEF ErrorPercentageAt, PercentageSteps
  <2>3. Pending("errors")' \subseteq Pending("errors")
    BY <1>n, <2>1, <2>2, PercentageInOrder
  <2>4. QED
    BY <1>2, <2>3, RateFrame DEF ErrorPercentageAt
<1>3. ASSUME NEW g \in Goroutines, DoInc(g) PROVE RateKept'
  <2>1. /\ todo[g] # <<>> /\ On(g) \in Counters /\ Head(todo[g]) = Inc(On(g))
        /\ Does(g, "inc")
    BY <1>3, AtStep DEF DoInc, Inc
  <2>2. UNCHANGED resetting
    BY <1>3 DEF DoInc
  <2>3. CASE On(g) = "errors"
    <3>1. g \in Pending("errors")
      BY <2>1, <2>3 DEF Pending
    <3>2. Pending("errors")' = Pending("errors") \ {g}
      <4>1. Head(todo[g]) # Inc("attempts")
        BY <2>1, <2>3 DEF Inc, Step
      <4>2. QED
        BY <1>3, <2>1, <4>1, PendingRest DEF DoInc
    <3>3. Cardinality(Pending("errors")') = Cardinality(Pending("errors")) - 1
      BY <1>e, <3>1, <3>2
    <3>4. /\ count'["errors"] = count["errors"] + 1 /\ count'["attempts"] = count["attempts"]
          /\ late' = IF resetting THEN late + 1 ELSE late
      BY <1>3, <1>t, <2>3 DEF DoInc
    <3>5. QED
      BY <1>t, <1>f, <2>2, <3>3, <3>4 DEF RateKept
  <2>4. CASE On(g) = "attempts"
    <3>1. Pending("errors")' \subseteq Pending("errors") \cup {g}
      BY <1>3, <2>1, PendingRest DEF DoInc
    <3>2. /\ Cardinality(Pending("errors")') <= Cardinality(Pending("errors")) + 1
          /\ Cardinality(Pending("errors")') \in Nat
      <4>1. /\ Cardinality(Pending("errors")') <= Cardinality(Pending("errors") \cup {g})
            /\ Cardinality(Pending("errors")') \in Nat
        BY <1>e, <3>1, FS_Subset, FS_CardinalityType
      <4>2. /\ Cardinality(Pending("errors") \cup {g}) <= Cardinality(Pending("errors")) + 1
            /\ Cardinality(Pending("errors") \cup {g}) \in Nat
        BY <1>e
      <4>3. QED
        BY <1>f, <4>1, <4>2
    <3>3. /\ count'["errors"] = count["errors"] /\ count'["attempts"] = count["attempts"] + 1
          /\ late' = late
      BY <1>3, <1>t, <2>4 DEF DoInc
    <3>4. QED
      BY <1>t, <1>f, <2>2, <3>2, <3>3 DEF RateKept
  <2>5. CASE On(g) \notin {"errors", "attempts"}
    <3>1. Pending("errors")' \subseteq Pending("errors")
      <4>1. Head(todo[g]) # Inc("attempts")
        BY <2>1, <2>5 DEF Inc, Step
      <4>2. QED
        BY <1>3, <2>1, <4>1, PendingRest DEF DoInc
    <3>2. /\ count'["errors"] = count["errors"] /\ count'["attempts"] = count["attempts"]
          /\ late' = late
      BY <1>3, <1>t, <2>1, <2>5 DEF DoInc
    <3>3. QED
      BY <2>2, <3>1, <3>2, RateFrame
  <2>6. QED
    BY <2>3, <2>4, <2>5
<1>4. ASSUME NEW g \in Goroutines, LoadStreak(g) PROVE RateKept'
  <2>1. Pending("errors")' \subseteq Pending("errors")
    BY <1>4, <1>r, <1>i, KindsOfSteps DEF LoadStreak, Does
  <2>2. QED
    BY <1>4, <2>1, RateFrame DEF LoadStreak
<1>5. ASSUME NEW g \in Goroutines, ZeroStreak(g) PROVE RateKept'
  <2>1. Pending("errors")' \subseteq Pending("errors")
    BY <1>5, <1>r DEF ZeroStreak
  <2>2. count'["errors"] = count["errors"] /\ count'["attempts"] = count["attempts"]
    BY <1>5, <1>t DEF ZeroStreak
  <2>3. QED
    BY <1>5, <2>1, <2>2, RateFrame DEF ZeroStreak
<1>6. ASSUME NEW g \in Goroutines, Judge(g) PROVE RateKept'
  <2>1. Inc("MeetsSLO") \in Plain /\ Inc("FailsSLO") \in Plain
    BY KindsOfSteps DEF Counters
  <2>2. \/ Rest(g) /\ Does(g, "judge")
        \/ Instead(g, Inc("MeetsSLO")) /\ todo[g] # <<>>
        \/ Instead(g, Inc("FailsSLO")) /\ todo[g] # <<>>
    BY <1>6 DEF Judge, Does
  <2>3. Pending("errors")' \subseteq Pending("errors")
    BY <1>r, <1>i, <2>1, <2>2
  <2>4. QED
    BY <1>6, <2>3, RateFrame DEF Judge
<1>7. ASSUME NEW g \in Goroutines, DoReturn(g) PROVE RateKept'
  <2>1. Pending("errors")' \subseteq Pending("errors")
    BY <1>7, <1>r DEF DoReturn
  <2>2. QED
    BY <1>7, <2>1, RateFrame DEF DoReturn
<1>8. ASSUME NEW g \in Goroutines, ReadStreak(g) PROVE RateKept'
  <2>1. Pending("errors")' \subseteq Pending("errors")
    BY <1>8, <1>r DEF ReadStreak
  <2>2. QED
    BY <1>8, <2>1, RateFrame DEF ReadStreak, history
<1>x. ASSUME NEW g \in Goroutines, NEW do, Does(g, do), do # "inc",
             Rest(g) \/ todo' = [todo EXCEPT ![g] = Return]
      PROVE  Pending("errors")' \subseteq Pending("errors")
  <2>1. Return \in Seq(Steps) /\ Return # <<>> /\ Return[1] = Step("return", "Success")
    BY ShortSequences DEF Return, Steps
  <2>2. Head(Return) # Inc("errors")
    BY <2>1, HeadIsFirst DEF Inc, Step
  <2>3. QED
    BY <1>x, <1>r, <1>n, <2>1, <2>2
<1>9. ASSUME NEW g \in Goroutines, ReadAttempts(g) PROVE RateKept'
  <2>1. Pending("errors")' \subseteq Pending("errors")
    BY <1>9, <1>x DEF ReadAttempts
  <2>2. QED
    BY <1>9, <2>1, RateFrame DEF ReadAttempts, history
<1>g. ASSUME NEW g \in Goroutines, GetThreshold(g) PROVE RateKept'
  <2>1. Pending("errors")' \subseteq Pending("errors")
    BY <1>g, <1>x DEF GetThreshold
  <2>2. QED
    BY <1>g, <2>1, RateFrame DEF GetThreshold, history
<1>10. ASSUME NEW g \in Goroutines, ReadErrors(g) PROVE RateKept'
  <2>1. Pending("errors")' \subseteq Pending("errors")
    BY <1>10, <1>r DEF ReadErrors
  <2>2. QED
    BY <1>10, <2>1, RateFrame DEF ReadErrors, history
<1>11. ASSUME ResetErrors PROVE RateKept'
  <2>1. resetting' /\ count'["errors"] = 0 /\ late' = 0
    BY <1>11, <1>t DEF ResetErrors
  <2>2. QED
    BY <2>1 DEF RateKept
<1>12. ASSUME ResetAttempts PROVE RateKept'
  <2>1. /\ ~resetting' /\ count'["errors"] = count["errors"] /\ count'["attempts"] = 0
        /\ late' = late + Cardinality(Pending("errors"))
        /\ Pending("errors")' = Pending("errors") /\ resetting
    BY <1>12, <1>t, <1>u DEF ResetAttempts
  <2>2. QED
    BY <1>t, <1>f, <2>1 DEF RateKept
<1>13. ASSUME ResetStreak PROVE RateKept'
  <2>1. count'["errors"] = count["errors"] /\ count'["attempts"] = count["attempts"]
    BY <1>13, <1>t DEF ResetStreak
  <2>2. QED
    BY <1>13, <1>u, <2>1, RateFrame DEF ResetStreak
<1>14. ASSUME NEW field \in Fields, NEW value \in Settings[field],
              SetConfigThreadSafe(field, value)
       PROVE  RateKept'
  BY <1>14, <1>u, RateFrame DEF SetConfigThreadSafe, history
<1>15. ASSUME UNCHANGED vars PROVE RateKept'
  BY <1>15, <1>u, RateFrame DEF vars, history
<1>16. QED
  BY <1>1, <1>2, <1>3, <1>4, <1>5, <1>6, <1>7, <1>8, <1>9, <1>10, <1>11, <1>12, <1>13, <1>14,
     <1>15, <1>g DEF Next

(* The opener's error rate stays at or below 100%, up to the errors whose  *)
(* attempt a transition's reset has wiped.                                 *)
THEOREM RateSafe == Spec => []ErrorsWithinAttempts
<1>1. Init => RateKept
  <2>1. Init => Pending("errors") = {}
    BY DEF Init, Pending, Does
  <2>2. Init => Cardinality(Pending("errors")) = 0
    BY <2>1, FS_EmptySet
  <2>3. QED
    BY <2>2 DEF Init, RateKept, Counters
<1>2. TypeOK /\ TypeOK' /\ TodoInOrder /\ RateKept /\ [Next]_vars => RateKept'
  BY RateStep
<1>3. TypeOK /\ RateKept => ErrorsWithinAttempts
  <2>1. SUFFICES ASSUME TypeOK, RateKept PROVE ErrorsWithinAttempts
    OBVIOUS
  <2>2. /\ count["errors"] \in Nat /\ count["attempts"] \in Nat /\ late \in Nat
        /\ resetting \in BOOLEAN /\ Cardinality(Pending("errors")) \in Nat
    BY <2>1, PendingCount DEF TypeOK, Counters
  <2>3. QED
    BY <2>1, <2>2 DEF RateKept, ErrorsWithinAttempts
<1>4. QED
  BY <1>1, <1>2, <1>3, TypesAndOrder, PTL DEF Spec

-----------------------------------------------------------------------------
(* The sums that ErrorPercentageAt and ShouldOpen read.                    *)

(* The step a goroutine is at, or none.                                    *)
Idle == Step("idle", "Success")
Front(g) == IF todo[g] = <<>> THEN Idle ELSE Head(todo[g])

(* What goroutine g has read by the time it comes to step a: r holds its   *)
(* two sums, e the errors when it was called, f and t the failures and     *)
(* timeouts by now.  The sum of attempts takes in all of e before the sum  *)
(* of errors begins.                                                       *)
Sums(a, r, ans, e, f, t) ==
  /\ e <= f + t
  /\ \/ a.do \in {"idle", "inc", "load", "zero", "judge", "streak"}
     \/ a = Step("first", "Success")
     \/ a = Step("first", "attempts")
     => r.first = 0 /\ r.second = 0
  /\ a.do = "first" => r.second = 0
  /\ a = Step("first", "ErrTimeout") => e <= r.first + t
  /\ a = Step("second", "ErrFailure") => r.second = 0 /\ e <= r.first
  /\ a = Step("second", "ErrTimeout") => r.second <= f /\ e <= r.first
  /\ a \in {Step("get", "requestVolumeThreshold"), Step("second", "errors")} => r.second = 0
  /\ a.do = "return" /\ ans = "none" => r.second + e <= r.first + f + t
  /\ a.do # "return" => ans = "none"

SumsKept ==
  \A g \in Goroutines :
    Sums(Front(g), got[g], answer[g], errorsAt[g], count["ErrFailure"], count["ErrTimeout"])

(* Has goroutine g read so few attempts that this many errors open?        *)
Above(g, errors) == errors * 100 >= config["errorPercentage"] * got[g].first

(* Why goroutine g gets its yes: it has it, or what it has read so far and *)
(* what it has still to read are at the thresholds.  The attempts that are *)
(* counted after it read them no longer matter to it, while the errors     *)
(* that it has still to read can only grow.                                *)
DueOf(g) ==
  /\ answer[g] # "no"
  /\ \/ Front(g).do = "return"
     \/ /\ logic = "hystrix"
        /\ \/ /\ Front(g) = Step("get", "requestVolumeThreshold")
              /\ got[g].first >= config["requestVolumeThreshold"] /\ Above(g, count["errors"])
           \/ Front(g) = Step("second", "errors") /\ Above(g, count["errors"])
           \/ Front(g) = Step("get", "errorPercentage") /\ Above(g, got[g].second)
     \/ /\ logic = "consecutive" /\ Front(g) = Step("get", "closeThreshold")
        /\ got[g].first >= config["closeThreshold"]

DueKept == \A g \in due : DueOf(g)

(* Where a goroutine is after its first step.                              *)
LEMMA FrontRest ==
  ASSUME TypeOK, TodoInOrder, NEW g \in Goroutines, NEW do, Does(g, do), Rest(g)
  PROVE  /\ Front(g) = Step(do, On(g)) /\ Front(g) \in Steps
         /\ do = "return" => Front(g)' = Idle
         /\ do # "return" => Front(g)' \in Steps /\ Follows(Front(g), Front(g)')
<1>1. todo[g] # <<>> /\ Head(todo[g]) \in Steps /\ Head(todo[g]) = Step(do, On(g))
  BY AtStep
<1>2. todo'[g] = Tail(todo[g])
  BY DEF Rest, TypeOK
<1>3. Head(todo[g]).do = do
  BY <1>1 DEF Step
<1>4. QED
  BY <1>1, <1>2, <1>3, AfterHead DEF Front

(* Where it is when it begins something.                                   *)
LEMMA FrontNew ==
  ASSUME TypeOK, NEW g \in Goroutines, NEW t \in Seq(Steps), Len(t) > 0,
         todo' = [todo EXCEPT ![g] = t]
  PROVE  Front(g)' = t[1]
<1>1. todo'[g] = t /\ t # <<>>
  BY DEF TypeOK
<1>2. QED
  BY <1>1, HeadIsFirst DEF Front

(* Where it is when it puts a change before the rest.                      *)
LEMMA FrontInstead ==
  ASSUME TypeOK, TodoInOrder, NEW g \in Goroutines, NEW do, Does(g, do),
         NEW a \in Plain, Instead(g, a)
  PROVE  Front(g)' = a /\ Front(g) = Step(do, On(g))
<1> DEFINE u == Tail(todo[g])
<1>1. /\ a \in Steps /\ u \in Seq(Steps)
      /\ Head(todo[g]) = Step(do, On(g)) /\ todo[g] # <<>>
  BY KindsOfSteps, DoneInOrder, AtStep DEF TypeOK, TodoInOrder
<1>2. <<a>> \in Seq(Steps) /\ Len(<<a>>) = 1 /\ <<a>>[1] = a
  BY <1>1, ShortSequences
<1>3. /\ <<a>> \o u \in Seq(Steps) /\ (<<a>> \o u)[1] = a
      /\ Len(<<a>> \o u) = 1 + Len(u) /\ Len(u) \in Nat
  BY <1>1, <1>2, ConcatElements
<1>4. Len(<<a>> \o u) > 0
  BY <1>3
<1>5. todo' = [todo EXCEPT ![g] = <<a>> \o u]
  BY DEF Instead
<1>6. QED
  BY <1>1, <1>3, <1>4, <1>5, FrontNew DEF Front

(* The others are where they were.                                         *)
LEMMA FrontOthers ==
  ASSUME TypeOK, NEW g \in Goroutines, NEW t, todo' = [todo EXCEPT ![g] = t]
  PROVE  \A h \in Goroutines \ {g} : Front(h)' = Front(h)
  BY DEF TypeOK, Front

(* More failures do no harm.                                               *)
LEMMA SumsGrow ==
  ASSUME NEW a, NEW r \in [first : Nat, second : Nat], NEW ans, NEW e \in Nat,
         NEW f \in Nat, NEW t \in Nat, NEW f2 \in Nat, NEW t2 \in Nat, f <= f2, t <= t2,
         Sums(a, r, ans, e, f, t)
  PROVE  Sums(a, r, ans, e, f2, t2)
<1>1. r.first \in Nat /\ r.second \in Nat
  OBVIOUS
<1>2. QED
  BY <1>1 DEF Sums

(* A goroutine that has read nothing may come to anything but the later    *)
(* reads.                                                                  *)
LEMMA SumsFresh ==
  ASSUME NEW a, a.do \in {"idle", "inc", "load", "zero", "judge"},
         NEW b \in Steps, Follows(a, b) \/ b \in Plain,
         NEW r, NEW ans, NEW e \in Nat, NEW f \in Nat, NEW t \in Nat,
         Sums(a, r, ans, e, f, t)
  PROVE  Sums(b, r, ans, e, f, t)
<1>1. r.first = 0 /\ r.second = 0 /\ e <= f + t
  BY DEF Sums
<1>2. CASE b \in Plain
  <2>1. b.do \in {"inc", "load", "zero", "judge"}
    BY <1>2 DEF Plain, Inc, Step
  <2>2. QED
    BY <1>1, <2>1 DEF Sums, Step
<1>3. CASE Follows(a, b)
  <2>1. \A c \in {"Success", "ErrFailure", "ErrTimeout", "attempts", "errors"} :
          a # Step("first", c) /\ a # Step("second", c)
    BY DEF Step
  <2>2. /\ b # Step("first", "ErrTimeout") /\ b # Step("second", "ErrFailure")
        /\ b # Step("second", "ErrTimeout")
    BY <1>3, <2>1 DEF Follows
  <2>3. QED
    BY <1>1, <2>2 DEF Sums
<1>4. QED
  BY <1>2, <1>3

(* The sums of one goroutine, now.                                         *)
SumsOf(g) ==
  Sums(Front(g), got[g], answer[g], errorsAt[g], count["ErrFailure"], count["ErrTimeout"])

LEMMA SumsStep ==
  ASSUME TypeOK, TypeOK', TodoInOrder, SumsKept, [Next]_vars
  PROVE  SumsKept'
<1> DEFINE f == count["ErrFailure"]
           t == count["ErrTimeout"]
           Grow == count'["ErrFailure"] >= f /\ count'["ErrTimeout"] >= t
<1>t. /\ f \in Nat /\ t \in Nat /\ count'["ErrFailure"] \in Nat /\ count'["ErrTimeout"] \in Nat
      /\ count \in [Counters -> Nat]
      /\ {"ErrFailure", "ErrTimeout", "errors", "attempts", "consecutive"} \subseteq Counters
      /\ \A g \in Goroutines : /\ got[g] \in [first : Nat, second : Nat]
                               /\ got'[g] \in [first : Nat, second : Nat]
                               /\ errorsAt[g] \in Nat /\ errorsAt'[g] \in Nat
                               /\ SumsOf(g)
  BY DEF TypeOK, Counters, Verdicts, Timed, Failures, SumsKept, SumsOf
<1>k. SUFFICES \A g \in Goroutines : SumsOf(g)'
  BY DEF SumsKept, SumsOf
<1>s. ASSUME NEW g \in Goroutines, Front(g)' = Front(g), got'[g] = got[g],
             answer'[g] = answer[g], errorsAt'[g] = errorsAt[g], Grow
      PROVE  SumsOf(g)'
  BY <1>s, <1>t, SumsGrow DEF SumsOf
<1>q. ASSUME UNCHANGED <<todo, got, answer, errorsAt>>, Grow
      PROVE  \A g \in Goroutines : SumsOf(g)'
  <2>1. \A g \in Goroutines : Front(g)' = Front(g)
    BY <1>q DEF Front
  <2>2. QED
    BY <1>q, <1>s, <2>1
<1>o. ASSUME NEW g \in Goroutines, NEW u, todo' = [todo EXCEPT ![g] = u],
             \A h \in Goroutines \ {g} :
               got'[h] = got[h] /\ answer'[h] = answer[h] /\ errorsAt'[h] = errorsAt[h],
             Grow, SumsOf(g)'
      PROVE  \A h \in Goroutines : SumsOf(h)'
  <2>1. \A h \in Goroutines \ {g} : Front(h)' = Front(h)
    BY <1>o, FrontOthers
  <2>2. \A h \in Goroutines \ {g} : SumsOf(h)'
    BY <1>o, <1>s, <2>1
  <2>3. QED
    BY <1>o, <2>2
<1>f. ASSUME NEW g \in Goroutines, Front(g).do \in {"idle", "inc", "load", "zero", "judge"},
             Front(g)' \in Steps, Follows(Front(g), Front(g)') \/ Front(g)' \in Plain,
             got'[g] = got[g], answer'[g] = answer[g], errorsAt'[g] = errorsAt[g], Grow
      PROVE  SumsOf(g)'
  <2>1. Sums(Front(g)', got[g], answer[g], errorsAt[g], f, t)
    BY <1>f, <1>t, SumsFresh DEF SumsOf
  <2>2. QED
    BY <1>f, <1>t, <2>1, SumsGrow DEF SumsOf
<1>r. ASSUME NEW g \in Goroutines, NEW do \in {"inc", "load", "zero", "judge"}, Does(g, do), Rest(g),
             got'[g] = got[g], answer'[g] = answer[g], errorsAt'[g] = errorsAt[g], Grow
      PROVE  SumsOf(g)'
  <2>1. Front(g) = Step(do, On(g)) /\ Front(g)' \in Steps /\ Follows(Front(g), Front(g)')
    BY <1>r, FrontRest
  <2>2. Front(g).do \in {"idle", "inc", "load", "zero", "judge"}
    BY <2>1 DEF Step
  <2>3. QED
    BY <1>r, <1>f, <2>1, <2>2
<1>i. ASSUME NEW g \in Goroutines, NEW do \in {"load", "judge"}, Does(g, do),
             NEW a \in Plain, Instead(g, a),
             got'[g] = got[g], answer'[g] = answer[g], errorsAt'[g] = errorsAt[g], Grow
      PROVE  SumsOf(g)'
  <2>1. Front(g) = Step(do, On(g)) /\ Front(g)' = a /\ a \in Steps
    BY <1>i, FrontInstead, KindsOfSteps
  <2>2. Front(g).do \in {"idle", "inc", "load", "zero", "judge"}
    BY <2>1 DEF Step
  <2>3. QED
    BY <1>i, <1>f, <2>1, <2>2
<1>j. UNCHANGED count => Grow
  BY <1>t
<1> HIDE DEF Grow
<1>1. ASSUME NEW g \in Goroutines, NEW v \in Verdicts, NEW d \in Durations, Report(g, v, d)
      PROVE  \A h \in Goroutines : SumsOf(h)'
  <2>1. /\ ReportSteps(v) \in Seq(Steps) /\ Len(ReportSteps(v)) > 0
        /\ ReportSteps(v)[1] \in Plain
    BY ReportInOrder DEF TypeOK
  <2>2. todo' = [todo EXCEPT ![g] = ReportSteps(v)]
    BY <1>1 DEF Report, ReportSteps
  <2>3. Front(g)' \in Plain /\ Front(g)' \in Steps
    BY <2>1, <2>2, FrontNew, KindsOfSteps
  <2>4. Front(g).do = "idle"
    BY <1>1 DEF Report, Front, Idle, Step
  <2>5. SumsOf(g)'
    BY <1>1, <1>f, <1>j, <2>3, <2>4 DEF Report, asking
  <2>6. QED
    BY <1>1, <1>o, <1>j, <2>2, <2>5 DEF Report, asking
<1>2. ASSUME NEW g \in Goroutines, ErrorPercentageAt(g)
      PROVE  \A h \in Goroutines : SumsOf(h)'
  <2>1. todo' = [todo EXCEPT ![g] = PercentageSteps]
    BY <1>2 DEF ErrorPercentageAt, PercentageSteps
  <2>2. Front(g)' = Step("first", "Success")
    BY <2>1, PercentageInOrder, FrontNew
  <2>3. got[g].first = 0 /\ got[g].second = 0 /\ answer[g] = "none"
    <3>1. Front(g).do = "idle"
      BY <1>2 DEF ErrorPercentageAt, Front, Idle, Step
    <3>2. QED
      BY <1>t, <3>1 DEF SumsOf, Sums
  <2>4. /\ got'[g] = got[g] /\ answer'[g] = answer[g] /\ errorsAt'[g] = f + t /\ count' = count
        /\ \A h \in Goroutines \ {g} :
              got'[h] = got[h] /\ answer'[h] = answer[h] /\ errorsAt'[h] = errorsAt[h]
    BY <1>2 DEF ErrorPercentageAt, asking, TypeOK
  <2>5. SumsOf(g)'
    BY <1>t, <2>2, <2>3, <2>4 DEF SumsOf, Sums, Step
  <2>6. QED
    BY <1>o, <1>j, <2>1, <2>4, <2>5
<1>3. ASSUME NEW g \in Goroutines, DoInc(g)
      PROVE  \A h \in Goroutines : SumsOf(h)'
  <2>1. Grow
    <3>1. On(g) \in Counters
      BY <1>3, AtStep DEF DoInc
    <3>2. QED
      BY <1>3, <1>t, <3>1 DEF DoInc, Grow
  <2>2. UNCHANGED <<got, answer, errorsAt>> /\ Does(g, "inc") /\ Rest(g)
    BY <1>3 DEF DoInc, asking
  <2>3. SumsOf(g)'
    BY <1>r, <2>1, <2>2
  <2>4. QED
    BY <1>o, <2>1, <2>2, <2>3 DEF Rest
<1>4. ASSUME NEW g \in Goroutines, LoadStreak(g)
      PROVE  \A h \in Goroutines : SumsOf(h)'
  <2>1. UNCHANGED <<got, answer, errorsAt>> /\ Does(g, "load") /\ Grow
    BY <1>4, <1>j DEF LoadStreak, asking
  <2>2. Rest(g) \/ Instead(g, Step("zero", "consecutive"))
    BY <1>4 DEF LoadStreak
  <2>3. SumsOf(g)'
    BY <1>r, <1>i, <2>1, <2>2, KindsOfSteps
  <2>4. \E u : todo' = [todo EXCEPT ![g] = u]
    BY <2>2 DEF Rest, Instead
  <2>5. QED
    BY <1>o, <2>1, <2>3, <2>4
<1>5. ASSUME NEW g \in Goroutines, ZeroStreak(g)
      PROVE  \A h \in Goroutines : SumsOf(h)'
  <2>1. Grow
    BY <1>5, <1>t DEF ZeroStreak, Grow
  <2>2. UNCHANGED <<got, answer, errorsAt>> /\ Does(g, "zero") /\ Rest(g)
    BY <1>5 DEF ZeroStreak, asking
  <2>3. SumsOf(g)'
    BY <1>r, <2>1, <2>2
  <2>4. QED
    BY <1>o, <2>1, <2>2, <2>3 DEF Rest
<1>6. ASSUME NEW g \in Goroutines, Judge(g)
      PROVE  \A h \in Goroutines : SumsOf(h)'
  <2>1. UNCHANGED <<got, answer, errorsAt>> /\ Does(g, "judge") /\ Grow
    BY <1>6, <1>j DEF Judge, asking
  <2>2. Rest(g) \/ Instead(g, Inc("MeetsSLO")) \/ Instead(g, Inc("FailsSLO"))
    BY <1>6 DEF Judge
  <2>3. Inc("MeetsSLO") \in Plain /\ Inc("FailsSLO") \in Plain
    BY KindsOfSteps DEF Counters
  <2>4. SumsOf(g)'
    BY <1>r, <1>i, <2>1, <2>2, <2>3
  <2>5. \E u : todo' = [todo EXCEPT ![g] = u]
    BY <2>2 DEF Rest, Instead
  <2>6. QED
    BY <1>o, <2>1, <2>4, <2>5
<1>7. ASSUME NEW g \in Goroutines, DoReturn(g)
      PROVE  \A h \in Goroutines : SumsOf(h)'
  <2>1. /\ got'[g].first = 0 /\ got'[g].second = 0 /\ errorsAt'[g] = 0 /\ answer'[g] = "none"
        /\ Grow /\ count' = count
        /\ \A h \in Goroutines \ {g} :
              got'[h] = got[h] /\ answer'[h] = answer[h] /\ errorsAt'[h] = errorsAt[h]
    BY <1>7, <1>j DEF DoReturn, TypeOK, NothingRead
  <2>2. Front(g)' = Idle
    BY <1>7, FrontRest DEF DoReturn
  <2>3. SumsOf(g)'
    BY <1>t, <2>1, <2>2 DEF SumsOf, Sums, Idle, Step
  <2>4. QED
    BY <1>o, <1>7, <2>1, <2>3 DEF DoReturn, Rest
<1>8. ASSUME NEW g \in Goroutines, ReadStreak(g)
      PROVE  \A h \in Goroutines : SumsOf(h)'
  <2>1. Front(g) = Step("streak", On(g)) /\ Front(g)' \in Steps /\ Follows(Front(g), Front(g)')
    BY <1>8, FrontRest DEF ReadStreak
  <2>2. Front(g)' = Step("get", "closeThreshold") /\ answer[g] = "none" /\ errorsAt[g] <= f + t
    <3>1. Front(g) \in Steps /\ Front(g).do = "streak" /\ Front(g).on = On(g)
      BY <1>8, <2>1, FrontRest DEF ReadStreak, Step
    <3>2. Front(g) = Step("streak", "consecutive")
      BY <2>1, <3>1, StepKinds
    <3>3. QED
      BY <1>t, <2>1, <3>1, <3>2 DEF Follows, SumsOf, Sums
  <2>3. /\ answer' = answer /\ errorsAt' = errorsAt /\ count' = count
        /\ \A h \in Goroutines \ {g} : got'[h] = got[h]
    BY <1>8 DEF ReadStreak, history, TypeOK
  <2>4. SumsOf(g)'
    BY <1>t, <2>2, <2>3 DEF SumsOf, Sums, Step
  <2>5. QED
    BY <1>o, <1>j, <1>8, <2>3, <2>4 DEF ReadStreak, Rest
<1>9. ASSUME NEW g \in Goroutines, ReadAttempts(g)
      PROVE  \A h \in Goroutines : SumsOf(h)'
  <2>1. /\ Does(g, "first") /\ errorsAt' = errorsAt /\ count' = count
        /\ \A h \in Goroutines \ {g} : answer'[h] = answer[h] /\ got'[h] = got[h]
    <3>1. got' = got \/ got' = [got EXCEPT ![g].first = got[g].first + count[On(g)]]
      BY <1>9 DEF ReadAttempts
    <3>2. \A h \in Goroutines \ {g} : got'[h] = got[h]
      BY <3>1 DEF TypeOK
    <3>3. QED
      BY <1>9, <3>2 DEF ReadAttempts, history, TypeOK
  <2>2. /\ Front(g) = Step("first", On(g))
        /\ On(g) \in {"Success", "ErrFailure", "ErrTimeout", "attempts"}
    <3>1. Head(todo[g]) \in Steps /\ Head(todo[g]) = Step("first", On(g)) /\ todo[g] # <<>>
      BY <2>1, AtStep
    <3>2. Head(todo[g]).do = "first"
      BY <3>1 DEF Step
    <3>3. QED
      BY <3>1, <3>2, StepKinds DEF On, Front
  <2>s. /\ got[g].second = 0 /\ got[g].second \in Nat /\ got[g].first \in Nat
        /\ errorsAt[g] <= f + t /\ answer[g] = "none"
    BY <1>t, <2>2 DEF SumsOf, Sums, Step
  <2>3. CASE todo' = [todo EXCEPT ![g] = Return] /\ got' = got
    <3>1. Front(g)' = Step("return", "Success")
      <4>1. Step("return", "Success") \in Steps
        BY DEF Steps
      <4>2. Return \in Seq(Steps) /\ Len(Return) > 0 /\ Return[1] = Step("return", "Success")
        BY <4>1, ShortSequences DEF Return
      <4>3. QED
        BY <2>3, <4>2, FrontNew
    <3>2. SumsOf(g)'
      BY <1>t, <2>1, <2>s, <2>3, <3>1 DEF SumsOf, Sums, Step
    <3>3. QED
      BY <1>o, <1>j, <2>1, <2>3, <3>2
  <2>4. CASE /\ Rest(g) /\ UNCHANGED answer
             /\ got' = [got EXCEPT ![g].first = got[g].first + count[On(g)]]
    <3>1. Front(g)' \in Steps /\ Follows(Front(g), Front(g)')
      BY <2>1, <2>4, FrontRest
    <3>2. /\ got'[g].first = got[g].first + count[On(g)] /\ got'[g].second = got[g].second
          /\ answer'[g] = "none"
      BY <2>s, <2>4 DEF TypeOK
    <3>3. SumsOf(g)'
      <4>1. CASE On(g) = "Success"
        <5>1. Front(g)' = Step("first", "ErrFailure")
          BY <2>2, <3>1, <4>1 DEF Follows
        <5>2. QED
          BY <1>t, <2>1, <2>s, <3>2, <5>1 DEF SumsOf, Sums, Step
      <4>2. CASE On(g) = "ErrFailure"
        <5>1. Front(g)' = Step("first", "ErrTimeout")
          BY <2>2, <3>1, <4>2 DEF Follows
        <5>2. QED
          BY <1>t, <2>1, <2>s, <3>2, <4>2, <5>1 DEF SumsOf, Sums, Step
      <4>3. CASE On(g) = "ErrTimeout"
        <5>1. Front(g)' = Step("second", "ErrFailure")
          BY <2>2, <3>1, <4>3 DEF Follows
        <5>2. errorsAt[g] <= got[g].first + t
          BY <1>t, <2>2, <4>3 DEF SumsOf, Sums
        <5>3. QED
          BY <1>t, <2>1, <2>s, <3>2, <4>3, <5>1, <5>2 DEF SumsOf, Sums, Step
      <4>4. CASE On(g) = "attempts"
        <5>1. Front(g)' = Step("get", "requestVolumeThreshold")
          BY <2>2, <3>1, <4>4 DEF Follows
        <5>2. QED
          BY <1>t, <2>1, <2>s, <3>2, <5>1 DEF SumsOf, Sums, Step
      <4>5. QED
        BY <2>2, <4>1, <4>2, <4>3, <4>4
    <3>4. QED
      BY <1>o, <1>j, <2>1, <2>4, <3>3 DEF Rest
  <2>5. QED
    BY <1>9, <2>3, <2>4 DEF ReadAttempts
<1>10. ASSUME NEW g \in Goroutines, ReadErrors(g)
      PROVE  \A h \in Goroutines : SumsOf(h)'
  <2>1. /\ Does(g, "second") /\ Rest(g) /\ errorsAt' = errorsAt /\ count' = count
        /\ got'[g].second = got[g].second + count[On(g)] /\ got'[g].first = got[g].first
        /\ answer' = answer /\ \A h \in Goroutines \ {g} : got'[h] = got[h]
    BY <1>10 DEF ReadErrors, history, TypeOK
  <2>2. /\ Front(g) = Step("second", On(g)) /\ On(g) \in {"ErrFailure", "ErrTimeout", "errors"}
        /\ Front(g)' \in Steps /\ Follows(Front(g), Front(g)')
    <3>1. Front(g) \in Steps /\ Front(g).do = "second" /\ Front(g).on = On(g)
      BY <2>1, FrontRest DEF Step
    <3>2. QED
      BY <2>1, <3>1, FrontRest, StepKinds
  <2>s. /\ got[g].second \in Nat /\ got[g].first \in Nat /\ errorsAt[g] <= f + t
        /\ answer[g] = "none"
    BY <1>t, <2>2 DEF SumsOf, Sums, Step
  <2>3. SumsOf(g)'
    <3>1. CASE On(g) = "ErrFailure"
      <4>1. Front(g)' = Step("second", "ErrTimeout")
        BY <2>2, <3>1 DEF Follows
      <4>2. got[g].second = 0 /\ errorsAt[g] <= got[g].first
        BY <1>t, <2>2, <3>1 DEF SumsOf, Sums
      <4>3. QED
        BY <1>t, <2>1, <2>s, <3>1, <4>1, <4>2 DEF SumsOf, Sums, Step
    <3>2. CASE On(g) = "ErrTimeout"
      <4>1. Front(g)'.do = "return"
        BY <2>2, <3>2 DEF Follows
      <4>2. got[g].second <= f /\ errorsAt[g] <= got[g].first
        BY <1>t, <2>2, <3>2 DEF SumsOf, Sums
      <4>3. QED
        BY <1>t, <2>1, <2>s, <3>2, <4>1, <4>2 DEF SumsOf, Sums, Step
    <3>3. CASE On(g) = "errors"
      <4>1. Front(g)' = Step("get", "errorPercentage")
        BY <2>2, <3>3 DEF Follows
      <4>2. QED
        BY <1>t, <2>1, <2>s, <4>1 DEF SumsOf, Sums, Step
    <3>4. QED
      BY <2>2, <3>1, <3>2, <3>3
  <2>4. QED
    BY <1>o, <1>j, <2>1, <2>3 DEF Rest
<1>g. ASSUME NEW g \in Goroutines, GetThreshold(g)
      PROVE  \A h \in Goroutines : SumsOf(h)'
  <2>1. /\ Does(g, "get") /\ UNCHANGED <<got, errorsAt, count>>
        /\ \A h \in Goroutines \ {g} : answer'[h] = answer[h]
    BY <1>g DEF GetThreshold, history, TypeOK
  <2>2. /\ Front(g) = Step("get", On(g))
        /\ On(g) \in {"requestVolumeThreshold", "errorPercentage", "closeThreshold"}
    <3>1. Head(todo[g]) \in Steps /\ Head(todo[g]) = Step("get", On(g)) /\ todo[g] # <<>>
      BY <2>1, AtStep
    <3>2. Head(todo[g]).do = "get" /\ Head(todo[g]).on = On(g)
      BY <3>1 DEF Step
    <3>3. QED
      BY <3>1, <3>2, StepKinds DEF Front
  <2>s. errorsAt[g] <= f + t /\ answer[g] = "none"
    BY <1>t, <2>2 DEF SumsOf, Sums, Step
  <2>3. CASE todo' = [todo EXCEPT ![g] = Return] /\ answer' = [answer EXCEPT ![g] = "no"]
    <3>1. Front(g)' = Step("return", "Success")
      <4>1. Step("return", "Success") \in Steps
        BY DEF Steps
      <4>2. Return \in Seq(Steps) /\ Len(Return) > 0 /\ Return[1] = Step("return", "Success")
        BY <4>1, ShortSequences DEF Return
      <4>3. QED
        BY <2>3, <4>2, FrontNew
    <3>2. answer'[g] = "no"
      BY <2>3 DEF TypeOK
    <3>3. SumsOf(g)'
      BY <1>t, <2>1, <2>s, <3>1, <3>2 DEF SumsOf, Sums, Step
    <3>4. QED
      BY <1>o, <1>j, <2>1, <2>3, <3>3
  <2>4. CASE /\ Rest(g)
             /\ answer' = [answer EXCEPT ![g] = IF On(g) = "requestVolumeThreshold" THEN @ ELSE "yes"]
    <3>1. Front(g)' \in Steps /\ Follows(Front(g), Front(g)')
      BY <2>1, <2>4, FrontRest
    <3>2. answer'[g] = IF On(g) = "requestVolumeThreshold" THEN "none" ELSE "yes"
      BY <2>s, <2>4 DEF TypeOK
    <3>3. SumsOf(g)'
      <4>1. CASE On(g) = "requestVolumeThreshold"
        <5>1. Front(g)' = Step("second", "errors")
          BY <2>2, <3>1, <4>1 DEF Follows
        <5>2. got[g].second = 0
          BY <1>t, <2>2, <4>1 DEF SumsOf, Sums
        <5>3. QED
          BY <1>t, <2>1, <2>s, <3>2, <4>1, <5>1, <5>2 DEF SumsOf, Sums, Step
      <4>2. CASE On(g) # "requestVolumeThreshold"
        <5>1. Front(g)'.do = "return"
          BY <2>2, <3>1, <4>2 DEF Follows
        <5>2. QED
          BY <1>t, <2>1, <2>s, <3>2, <4>2, <5>1 DEF SumsOf, Sums, Step
      <4>3. QED
        BY <4>1, <4>2
    <3>4. QED
      BY <1>o, <1>j, <2>1, <2>4, <3>3 DEF Rest
  <2>5. QED
    BY <1>g, <2>3, <2>4 DEF GetThreshold
<1>11. ASSUME ResetErrors \/ ResetAttempts \/ ResetStreak
       PROVE  \A h \in Goroutines : SumsOf(h)'
  <2>1. Grow /\ UNCHANGED <<todo, got, answer, errorsAt>>
    BY <1>11, <1>t DEF ResetErrors, ResetAttempts, ResetStreak, asking, Grow
  <2>2. QED
    BY <1>q, <2>1
<1>12. ASSUME NEW field \in Fields, NEW value \in Settings[field],
              SetConfigThreadSafe(field, value)
       PROVE  \A h \in Goroutines : SumsOf(h)'
  BY <1>12, <1>q, <1>j DEF SetConfigThreadSafe, asking, history
<1>13. ASSUME UNCHANGED vars PROVE \A h \in Goroutines : SumsOf(h)'
  BY <1>13, <1>q, <1>j DEF vars, asking, history
<1>14. QED
  BY <1>1, <1>2, <1>3, <1>4, <1>5, <1>6, <1>7, <1>8, <1>9, <1>10, <1>11, <1>12, <1>13, <1>g
     DEF Next

(* From the start of a call nothing is read.                               *)
LEMMA InitSums == Init => SumsKept
  BY DEF Init, SumsKept, Sums, Front, Idle, Step, NothingRead, Counters, Verdicts, Timed, Failures

(* An error percentage is at most 1, up to the errors that were reported   *)
(* while it was read, however many goroutines report them.                 *)
THEOREM PercentageSafe == Spec => []PercentageBracketed
<1>1. TypeOK /\ TypeOK' /\ TodoInOrder /\ SumsKept /\ [Next]_vars => SumsKept'
  BY SumsStep
<1>2. TypeOK /\ SumsKept => PercentageBracketed
  <2>1. SUFFICES ASSUME TypeOK, SumsKept, NEW g \in Goroutines, answer[g] = "none", ~Does(g, "get")
                 PROVE  got[g].second <= got[g].first + count["ErrFailure"] + count["ErrTimeout"] - errorsAt[g]
    BY DEF PercentageBracketed
  <2>2. /\ got[g].second \in Nat /\ got[g].first \in Nat /\ errorsAt[g] \in Nat
        /\ count["ErrFailure"] \in Nat /\ count["ErrTimeout"] \in Nat
        /\ todo[g] \in Seq(Steps)
    BY <2>1 DEF TypeOK, Counters, Verdicts, Timed, Failures
  <2>3. Front(g) = Idle \/ Front(g) \in Steps
    BY <2>2, HeadIsFirst DEF Front
  <2>4. \/ Front(g).do \in {"idle", "inc", "load", "zero", "judge", "streak", "first", "return"}
        \/ Front(g) \in {Step("second", "ErrFailure"), Step("second", "ErrTimeout"),
                         Step("second", "errors")}
    <3>1. Front(g).do # "get"
      BY <2>1 DEF Does, Front, Idle, Step
    <3>2. QED
      BY <2>3, <3>1 DEF Idle, Steps, Plain, Reads, Inc, Step
  <2>5. Sums(Front(g), got[g], answer[g], errorsAt[g], count["ErrFailure"], count["ErrTimeout"])
    BY <2>1 DEF SumsKept
  <2>6. errorsAt[g] <= count["ErrFailure"] + count["ErrTimeout"]
    BY <2>5 DEF Sums
  <2>7. CASE got[g].second = 0
    BY <2>2, <2>6, <2>7
  <2>8. CASE got[g].second <= count["ErrFailure"] /\ errorsAt[g] <= got[g].first
    BY <2>2, <2>8
  <2>9. CASE got[g].second + errorsAt[g] <= got[g].first + count["ErrFailure"] + count["ErrTimeout"]
    BY <2>2, <2>9
  <2>10. CASE Front(g).do \in {"idle", "inc", "load", "zero", "judge", "streak"}
    BY <2>5, <2>7, <2>10 DEF Sums
  <2>11. CASE Front(g).do = "first"
    BY <2>5, <2>7, <2>11 DEF Sums
  <2>12. CASE Front(g).do = "return"
    BY <2>1, <2>5, <2>9, <2>12 DEF Sums
  <2>13. CASE Front(g) = Step("second", "ErrTimeout")
    BY <2>5, <2>8, <2>13 DEF Sums
  <2>14. CASE Front(g) \in {Step("second", "ErrFailure"), Step("second", "errors")}
    BY <2>5, <2>7, <2>14 DEF Sums
  <2>15. QED
    BY <2>4, <2>10, <2>11, <2>12, <2>13, <2>14
<1>3. QED
  BY <1>1, <1>2, InitSums, TypesAndOrder, PTL DEF Spec

-----------------------------------------------------------------------------
(* The answer of ShouldOpen.                                               *)

(* More errors and a lower threshold only help.                            *)
LEMMA StillAbove ==
  ASSUME NEW p \in Int, NEW q \in Int, NEW a \in Nat, NEW e \in Nat, NEW f \in Nat,
         q <= p, e <= f, e * 100 >= p * a
  PROVE  f * 100 >= q * a
<1>1. (p - q) * a >= 0
  OBVIOUS
<1>2. p * a = q * a + (p - q) * a
  OBVIOUS
<1>3. q * a \in Int /\ p * a \in Int /\ (p - q) * a \in Int
  OBVIOUS
<1>4. QED
  BY <1>1, <1>2, <1>3

LEMMA DueStep ==
  ASSUME TypeOK, TypeOK', TodoInOrder, SumsKept, DueKept, [Next]_vars
  PROVE  DueKept'
<1> DEFINE Thresholds == Fields \ {"MaximumHealthyTime"}
           Same(g) == Front(g)' = Front(g) /\ answer'[g] = answer[g] /\ got'[g] = got[g]
           Easier == /\ count'["errors"] >= count["errors"]
                     /\ \A field \in Thresholds : config'[field] <= config[field]
<1>l. logic' = logic /\ Fields' = Fields
  BY TypeStep DEF Fields
<1>t. /\ count \in [Counters -> Nat] /\ count["attempts"] \in Nat /\ count["errors"] \in Nat
      /\ count'["errors"] \in Nat
      /\ {"ErrFailure", "ErrTimeout", "errors", "attempts", "consecutive"} \subseteq Counters
      /\ \A g \in Goroutines : got[g].first \in Nat /\ got[g].second \in Nat
      /\ \A field \in Thresholds : config[field] \in Int /\ config'[field] \in Int
      /\ logic \in {"hystrix", "consecutive"} /\ due \subseteq Goroutines /\ due' \subseteq Goroutines
      /\ \A g \in due : DueOf(g)
  BY <1>l DEF TypeOK, Counters, Verdicts, Timed, Failures, DueKept
<1>h. /\ logic = "hystrix" => {"errorPercentage", "requestVolumeThreshold"} \subseteq Thresholds
      /\ logic = "consecutive" => "closeThreshold" \in Thresholds
  BY DEF Fields
<1> HIDE DEF Thresholds
<1>s. ASSUME NEW g \in due, Same(g), Easier
      PROVE  DueOf(g)'
  <2>1. /\ DueOf(g) /\ got[g].first \in Nat /\ got[g].second \in Nat
        /\ Front(g)' = Front(g) /\ answer'[g] = answer[g] /\ got'[g] = got[g]
    BY <1>s, <1>t
  <2>2. CASE Front(g).do = "return"
    BY <2>1, <2>2 DEF DueOf
  <2>3. CASE logic = "hystrix" /\ Front(g).do # "return"
    <3>1. /\ config'["errorPercentage"] <= config["errorPercentage"]
          /\ config'["requestVolumeThreshold"] <= config["requestVolumeThreshold"]
          /\ config["errorPercentage"] \in Int /\ config'["errorPercentage"] \in Int
          /\ config["requestVolumeThreshold"] \in Int /\ config'["requestVolumeThreshold"] \in Int
      BY <1>s, <1>t, <1>h, <2>3
    <3>2. Above(g, count["errors"]) => Above(g, count["errors"])'
      BY <1>s, <1>t, <2>1, <3>1, StillAbove DEF Above
    <3>3. Above(g, got[g].second) => Above(g, got[g].second)'
      BY <2>1, <3>1, StillAbove DEF Above
    <3>4. got[g].first >= config["requestVolumeThreshold"]
            => got'[g].first >= config'["requestVolumeThreshold"]
      BY <2>1, <3>1
    <3>5. QED
      BY <1>l, <2>1, <2>3, <3>2, <3>3, <3>4 DEF DueOf
  <2>4. CASE logic = "consecutive" /\ Front(g).do # "return"
    <3>1. /\ config'["closeThreshold"] <= config["closeThreshold"]
          /\ config["closeThreshold"] \in Int /\ config'["closeThreshold"] \in Int
      BY <1>s, <1>t, <1>h, <2>4
    <3>2. QED
      BY <1>l, <2>1, <2>4, <3>1 DEF DueOf
  <2>5. QED
    BY <1>t, <2>2, <2>3, <2>4
<1>w. ASSUME due' \subseteq due, \A g \in due' : Same(g), Easier
      PROVE  DueKept'
  BY <1>s, <1>w DEF DueKept
<1>n. ASSUME NEW g \in Goroutines, NEW do \in {"idle", "inc", "load", "zero", "judge", "first", "streak"},
             Front(g).do = do
      PROVE  g \notin due
  BY <1>t, <1>n DEF DueOf, Step
<1>d. ASSUME NEW g \in Goroutines, NEW do, Does(g, do)
      PROVE  Front(g).do = do /\ Front(g) = Step(do, On(g)) /\ Front(g) \in Steps
  BY <1>d, AtStep DEF Front, Step
<1>o. ASSUME NEW g \in Goroutines, NEW u, todo' = [todo EXCEPT ![g] = u],
             \A h \in Goroutines \ {g} : got'[h] = got[h] /\ answer'[h] = answer[h]
      PROVE  \A h \in Goroutines \ {g} : Same(h)
  BY <1>o, FrontOthers
<1>c. UNCHANGED <<count, config>> => Easier
  BY <1>t
<1> HIDE DEF Same
<1>i. ASSUME NEW g \in Goroutines, g \notin due, \E u : todo' = [todo EXCEPT ![g] = u],
             UNCHANGED asking, Easier
      PROVE  DueKept'
  <2>1. \A h \in Goroutines \ {g} : Same(h)
    BY <1>i, <1>o DEF asking
  <2>2. QED
    BY <1>i, <1>t, <1>w, <2>1 DEF asking
<1>e. ASSUME NEW g \in Goroutines, NEW do \in {"inc", "load", "zero", "judge"}, Does(g, do),
             \E u : todo' = [todo EXCEPT ![g] = u], UNCHANGED asking, Easier
      PROVE  DueKept'
  BY <1>d, <1>e, <1>i, <1>n
<1>a. ASSUME NEW g \in Goroutines, UNCHANGED <<count, config>>,
             \A h \in Goroutines \ {g} : Same(h), due' \subseteq due \cup {g},
             g \in due' => DueOf(g)'
      PROVE  DueKept'
  <2>1. \A h \in due' \ {g} : DueOf(h)'
    BY <1>a, <1>c, <1>s, <1>t
  <2>2. QED
    BY <1>a, <2>1 DEF DueKept
<1>1. ASSUME NEW g \in Goroutines, NEW v \in Verdicts, NEW d \in Durations, Report(g, v, d)
      PROVE  DueKept'
  <2>1. g \notin due
    BY <1>1, <1>n DEF Report, Front, Idle, Step
  <2>2. (\E u : todo' = [todo EXCEPT ![g] = u]) /\ UNCHANGED asking /\ UNCHANGED <<count, config>>
    BY <1>1 DEF Report
  <2>3. QED
    BY <1>c, <1>i, <2>1, <2>2
<1>2. ASSUME NEW g \in Goroutines, ErrorPercentageAt(g) PROVE DueKept'
  <2>1. g \notin due
    BY <1>2, <1>n DEF ErrorPercentageAt, Front, Idle, Step
  <2>2. (\E u : todo' = [todo EXCEPT ![g] = u]) /\ UNCHANGED asking /\ UNCHANGED <<count, config>>
    BY <1>2 DEF ErrorPercentageAt
  <2>3. QED
    BY <1>c, <1>i, <2>1, <2>2
<1>3. ASSUME NEW g \in Goroutines, DoInc(g) PROVE DueKept'
  <2>1. On(g) \in Counters
    BY <1>3, AtStep DEF DoInc
  <2>2. count'["errors"] >= count["errors"]
    BY <1>3, <1>t, <2>1 DEF DoInc
  <2>3. Easier
    BY <1>3, <1>t, <2>2 DEF DoInc
  <2>4. QED
    BY <1>3, <1>e, <2>3 DEF DoInc, Rest
<1>4. ASSUME NEW g \in Goroutines, LoadStreak(g) PROVE DueKept'
  <2>1. Rest(g) \/ Instead(g, Step("zero", "consecutive"))
    BY <1>4 DEF LoadStreak
  <2>2. \E u : todo' = [todo EXCEPT ![g] = u]
    BY <2>1 DEF Rest, Instead
  <2>3. QED
    BY <1>4, <1>c, <1>e, <2>2 DEF LoadStreak
<1>5. ASSUME NEW g \in Goroutines, ZeroStreak(g) PROVE DueKept'
  <2>1. Easier
    BY <1>5, <1>t DEF ZeroStreak
  <2>2. QED
    BY <1>5, <1>e, <2>1 DEF ZeroStreak, Rest
<1>6. ASSUME NEW g \in Goroutines, Judge(g) PROVE DueKept'
  <2>1. \E u : todo' = [todo EXCEPT ![g] = u]
    BY <1>6 DEF Judge, Rest, Instead
  <2>2. QED
    BY <1>6, <1>c, <1>e, <2>1 DEF Judge
<1>7. ASSUME NEW g \in Goroutines, DoReturn(g) PROVE DueKept'
  <2>1. /\ UNCHANGED <<count, config>> /\ due' = due \ {g}
        /\ \E u : todo' = [todo EXCEPT ![g] = u]
        /\ \A h \in Goroutines \ {g} : got'[h] = got[h] /\ answer'[h] = answer[h]
    BY <1>7 DEF DoReturn, Rest, TypeOK
  <2>2. \A h \in Goroutines \ {g} : Same(h)
    BY <1>o, <2>1
  <2>3. QED
    BY <1>a, <2>1, <2>2
<1>8. ASSUME NEW g \in Goroutines, ReadStreak(g) PROVE DueKept'
  <2>1. /\ Asks(g) /\ UNCHANGED <<count, config>> /\ Does(g, "streak") /\ Rest(g)
        /\ \A h \in Goroutines \ {g} : got'[h] = got[h] /\ answer'[h] = answer[h]
        /\ answer' = answer /\ got'[g].first = count["consecutive"]
    BY <1>8 DEF ReadStreak, TypeOK
  <2>2. Front(g) = Step("streak", On(g)) /\ Follows(Front(g), Front(g)') /\ Front(g) \in Steps
    BY <2>1, FrontRest
  <2>3. /\ Front(g).do = "streak" /\ Front(g) = Step("streak", "consecutive")
        /\ Front(g)' = Step("get", "closeThreshold")
    <3>1. Front(g).do = "streak" /\ Front(g).on = On(g)
      BY <2>2 DEF Step
    <3>2. Front(g) = Step("streak", "consecutive")
      BY <2>2, <3>1, StepKinds
    <3>3. QED
      BY <2>2, <3>1, <3>2 DEF Follows
  <2>4. logic = "consecutive"
    <3>1. /\ todo[g] # <<>> /\ Head(todo[g]) = todo[g][1] /\ Len(todo[g]) \in Nat
          /\ Len(todo[g]) > 0
      BY <2>1, AtStep
    <3>2. todo[g][1] = Step("streak", "consecutive")
      BY <2>3, <3>1 DEF Front
    <3>3. QED
      BY <3>1, <3>2 DEF TodoInOrder, InOrder
  <2>5. answer[g] # "no" /\ g \notin due
    BY <1>n, <2>3 DEF SumsKept, Sums
  <2>6. ThresholdMet => DueOf(g)'
    BY <1>l, <2>1, <2>3, <2>4, <2>5 DEF ThresholdMet, DueOf
  <2>7. QED
    BY <1>a, <1>o, <2>1, <2>5, <2>6 DEF Rest, Asks
<1>9. ASSUME NEW g \in Goroutines, ReadAttempts(g) PROVE DueKept'
  <2>1. /\ UNCHANGED <<count, config>> /\ Does(g, "first")
        /\ \E u : todo' = [todo EXCEPT ![g] = u]
    BY <1>9 DEF ReadAttempts, Rest
  <2>2. \A h \in Goroutines \ {g} : got'[h] = got[h] /\ answer'[h] = answer[h]
    <3>1. got' = got \/ got' = [got EXCEPT ![g].first = got[g].first + count[On(g)]]
      BY <1>9 DEF ReadAttempts
    <3>2. \A h \in Goroutines \ {g} : answer'[h] = answer[h]
      BY <1>9 DEF ReadAttempts, TypeOK
    <3>3. QED
      BY <3>1, <3>2 DEF TypeOK
  <2>3. \A h \in Goroutines \ {g} : Same(h)
    BY <1>o, <2>1, <2>2
  <2>4. Front(g) = Step("first", On(g)) /\ g \notin due
    BY <1>d, <1>n, <2>1
  <2>5. CASE On(g) # "attempts"
    BY <1>9, <1>a, <2>1, <2>3, <2>4, <2>5 DEF ReadAttempts
  <2>6. CASE On(g) = "attempts"
    <3>1. Asks(g)
      BY <1>9, <2>6 DEF ReadAttempts
    <3>2. got[g].first = 0 /\ answer[g] # "no"
      BY <2>4, <2>6 DEF SumsKept, Sums, Step
    <3>3. logic = "hystrix"
      <4>1. /\ todo[g] # <<>> /\ Head(todo[g]) = todo[g][1] /\ Len(todo[g]) \in Nat
            /\ Len(todo[g]) > 0
        BY <2>1, AtStep
      <4>2. QED
        BY <2>4, <2>6, <4>1 DEF TodoInOrder, InOrder, Front
    <3>4. ASSUME ThresholdMet PROVE DueOf(g)'
      <4>1. /\ count["attempts"] # 0
            /\ count["attempts"] >= config["requestVolumeThreshold"]
            /\ count["errors"] * 100 >= config["errorPercentage"] * count["attempts"]
        BY <3>3, <3>4 DEF ThresholdMet
      <4>2. got[g].first + count[On(g)] = count["attempts"]
        BY <1>t, <2>6, <3>2
      <4>3. /\ Rest(g) /\ UNCHANGED answer
            /\ got' = [got EXCEPT ![g].first = count["attempts"]]
        BY <1>9, <4>1, <4>2 DEF ReadAttempts
      <4>4. Front(g)' = Step("get", "requestVolumeThreshold")
        BY <2>1, <2>4, <2>6, <4>3, FrontRest DEF Follows
      <4>5. got'[g].first = count["attempts"]
        BY <4>3 DEF TypeOK
      <4>6. Above(g, count["errors"])'
        BY <2>1, <4>1, <4>5 DEF Above
      <4>7. QED
        BY <1>l, <2>1, <3>2, <3>3, <4>1, <4>3, <4>4, <4>5, <4>6 DEF DueOf
    <3>5. QED
      BY <1>a, <2>1, <2>3, <2>4, <3>1, <3>4 DEF Asks
  <2>7. QED
    BY <2>5, <2>6
<1>10. ASSUME NEW g \in Goroutines, ReadErrors(g) PROVE DueKept'
  <2>1. /\ UNCHANGED <<count, config, due, answer>> /\ Does(g, "second") /\ Rest(g)
        /\ \A h \in Goroutines \ {g} : got'[h] = got[h] /\ answer'[h] = answer[h]
        /\ got'[g].first = got[g].first /\ got'[g].second = got[g].second + count[On(g)]
    BY <1>10 DEF ReadErrors, TypeOK
  <2>2. \A h \in Goroutines \ {g} : Same(h)
    BY <1>o, <2>1 DEF Rest
  <2>3. ASSUME g \in due PROVE DueOf(g)'
    <3>1. /\ Front(g).do = "second" /\ Front(g) = Step("second", On(g))
          /\ Follows(Front(g), Front(g)')
      BY <1>d, <2>1, FrontRest
    <3>2. /\ Front(g) = Step("second", "errors") /\ logic = "hystrix"
          /\ Above(g, count["errors"]) /\ answer[g] # "no"
      BY <1>t, <2>3, <3>1 DEF DueOf, Step
    <3>3. On(g) = "errors"
      BY <3>1, <3>2 DEF Step
    <3>4. got[g].second = 0
      BY <3>2 DEF SumsKept, Sums
    <3>5. got'[g].second = count["errors"]
      BY <1>t, <2>1, <3>3, <3>4
    <3>6. Above(g, got[g].second)'
      BY <2>1, <3>2, <3>5 DEF Above
    <3>7. Front(g)' = Step("get", "errorPercentage")
      BY <3>1, <3>2 DEF Follows
    <3>8. QED
      BY <1>l, <2>1, <3>2, <3>6, <3>7 DEF DueOf
  <2>4. QED
    BY <1>a, <2>1, <2>2, <2>3
<1>g. ASSUME NEW g \in Goroutines, GetThreshold(g) PROVE DueKept'
  <2>1. /\ UNCHANGED <<count, config, due, got>> /\ Does(g, "get")
        /\ \E u : todo' = [todo EXCEPT ![g] = u]
        /\ \A h \in Goroutines \ {g} : got'[h] = got[h] /\ answer'[h] = answer[h]
    BY <1>g DEF GetThreshold, Rest, TypeOK
  <2>2. \A h \in Goroutines \ {g} : Same(h)
    BY <1>o, <2>1
  <2>3. ASSUME g \in due PROVE DueOf(g)'
    <3>1. Front(g).do = "get" /\ Front(g) = Step("get", On(g))
      BY <1>d, <2>1
    <3>2. DueOf(g)
      BY <1>t, <2>3
    <3>3. AtThreshold(g)
      BY <3>1, <3>2 DEF DueOf, Above, AtThreshold, Step
    <3>4. /\ Rest(g)
          /\ answer' = [answer EXCEPT ![g] = IF On(g) = "requestVolumeThreshold" THEN @ ELSE "yes"]
      BY <1>g, <3>3 DEF GetThreshold
    <3>5. answer'[g] # "no"
      BY <3>2, <3>4 DEF TypeOK, DueOf
    <3>6. Follows(Front(g), Front(g)')
      BY <2>1, <3>4, FrontRest
    <3>7. CASE On(g) = "requestVolumeThreshold"
      <4>1. Front(g)' = Step("second", "errors")
        BY <3>1, <3>6, <3>7 DEF Follows
      <4>2. logic = "hystrix" /\ Above(g, count["errors"])
        BY <3>1, <3>2, <3>7 DEF DueOf, Step
      <4>3. Above(g, count["errors"])'
        BY <2>1, <4>2 DEF Above
      <4>4. QED
        BY <1>l, <3>5, <4>1, <4>2, <4>3 DEF DueOf
    <3>8. CASE On(g) # "requestVolumeThreshold"
      <4>1. Front(g)'.do = "return"
        BY <3>1, <3>2, <3>6, <3>8 DEF Follows, DueOf, Step
      <4>2. QED
        BY <3>5, <4>1 DEF DueOf
    <3>9. QED
      BY <3>7, <3>8
  <2>4. QED
    BY <1>a, <2>1, <2>2, <2>3
<1>q. ASSUME UNCHANGED <<todo, got, answer>> PROVE \A g \in due : Same(g)
  BY <1>q DEF Same, Front
<1>11. ASSUME ResetErrors PROVE DueKept'
  BY <1>11 DEF ResetErrors, DueKept
<1>12. ASSUME ResetAttempts \/ ResetStreak PROVE DueKept'
  <2>1. UNCHANGED <<todo, got, answer, due, config>> /\ count'["errors"] = count["errors"]
    BY <1>12, <1>t DEF ResetAttempts, ResetStreak, asking
  <2>2. Easier
    BY <1>t, <2>1
  <2>3. QED
    BY <1>w, <1>q, <2>1, <2>2
<1>13. ASSUME NEW field \in Fields, NEW value \in Settings[field],
              SetConfigThreadSafe(field, value)
       PROVE  DueKept'
  <2>1. CASE due' = {}
    BY <2>1 DEF DueKept
  <2>2. CASE due' # {}
    <3>1. /\ UNCHANGED <<todo, got, answer, due, count>>
          /\ field = "MaximumHealthyTime" \/ ~(value > config[field])
          /\ config' = [config EXCEPT ![field] = value]
      BY <1>13, <2>2 DEF SetConfigThreadSafe
    <3>2. value \in Int
      BY SettingsAssumption, <1>l DEF Fields, TypeOK
    <3>3. ASSUME NEW k \in Thresholds PROVE config'[k] <= config[k]
      <4>1. k \in Fields /\ k # "MaximumHealthyTime" /\ config[k] \in Int
        BY <1>t DEF Thresholds
      <4>2. config'[k] = IF k = field THEN value ELSE config[k]
        BY <3>1, <4>1 DEF TypeOK
      <4>3. QED
        BY <3>1, <3>2, <4>1, <4>2
    <3>4. Easier
      BY <1>t, <3>1, <3>3
    <3>5. QED
      BY <1>w, <1>q, <3>1, <3>4
  <2>3. QED
    BY <2>1, <2>2
<1>14. ASSUME UNCHANGED vars PROVE DueKept'
  BY <1>14, <1>c, <1>q, <1>w DEF vars, asking
<1>15. QED
  BY <1>1, <1>2, <1>3, <1>4, <1>5, <1>6, <1>7, <1>8, <1>9, <1>10, <1>11, <1>12, <1>13, <1>14,
     <1>g DEF Next

(* When volume and error percentage are at their thresholds at the moment  *)
(* ShouldOpen first reads, and until its answer no threshold is raised and *)
(* the errors are not reset, the answer is never no, whatever is counted   *)
(* and lowered between its reads.                                          *)
THEOREM ThresholdSafe == Spec => []NeverMissesThreshold
<1>1. Init => DueKept
  BY DEF Init, DueKept
<1>2. TypeOK /\ TypeOK' /\ TodoInOrder /\ SumsKept /\ DueKept /\ [Next]_vars => DueKept'
  BY DueStep
<1>3. TypeOK /\ TypeOK' /\ TodoInOrder /\ SumsKept /\ [Next]_vars => SumsKept'
  BY SumsStep
<1>4. DueKept => NeverMissesThreshold
  BY DEF DueKept, DueOf, NeverMissesThreshold
<1>5. QED
  BY <1>1, <1>2, <1>3, <1>4, InitSums, TypesAndOrder, PTL DEF Spec

-----------------------------------------------------------------------------
(* The books of the three collectors.                                      *)

(* Where a step is in what a verdict makes a goroutine do: the opener      *)
(* comes first, then the run statistics, the tracker and the questions.    *)
Place(a) ==
  IF a.do \in {"load", "zero"} THEN 1
  ELSE IF a.do = "judge" THEN 5
  ELSE IF a.do # "inc" THEN 6
  ELSE IF a.on \in {"attempts", "consecutive"} THEN 1
  ELSE IF a.on = "errors" THEN 2
  ELSE IF a.on \in Verdicts THEN 3
  ELSE IF a.on = "Latencies" THEN 4
  ELSE 5

(* No step is there twice, and no counter changes after a question.        *)
Once(t) ==
  \A i, j \in 1 .. Len(t) : i < j /\ Place(t[j]) # 6 => Place(t[i]) < Place(t[j])

TodoOnce == \A g \in Goroutines : Once(todo[g])

(* Who has step a yet to take, and how often a counter will have been      *)
(* incremented once everybody is done.                                     *)
Owes(a) == {g \in Goroutines : a \in Range(todo[g])}
Open(a) == Cardinality(Owes(a))
Total(c) == count[c] + Open(Inc(c))

(* BooksBalance on those totals.  A judgement that is still open may turn  *)
(* into either counter and, for an interrupt, into an excuse.              *)
BooksKept ==
  /\ calls \in Nat
  /\ resetting => wasReset
  /\ logic = "hystrix" /\ ~wasReset =>
       /\ Total("errors") = Total("ErrFailure") + Total("ErrTimeout")
       /\ Total("attempts") = Total("errors") + Total("Success")
  /\ calls = Total("Latencies") + Total("ErrConcurrencyLimitReject") + Total("ErrShortCircuit")
  /\ calls = Total("MeetsSLO") + Total("FailsSLO") + Open(Step("judge", "Success"))
               + Open(Step("judge", "ErrInterrupt")) + Total("ErrBadRequest") + excused
  /\ Open(Step("judge", "ErrInterrupt")) + excused <= Total("ErrInterrupt")
  /\ Total("MeetsSLO") + Open(Step("judge", "Success")) <= Total("Success")

(* The elements of short sequences.                                        *)
LEMMA ShortRanges ==
  /\ Range(<<>>) = {}
  /\ \A a : Range(<<a>>) = {a}
  /\ \A a, b : Range(<<a, b>>) = {a, b}
<1>1. Range(<<>>) = {}
  BY DEF Range
<1>2. ASSUME NEW a PROVE Range(<<a>>) = {a}
  <2>1. DOMAIN <<a>> = 1 .. 1 /\ <<a>>[1] = a
    OBVIOUS
  <2>2. QED
    BY <2>1 DEF Range
<1>3. ASSUME NEW a, NEW b PROVE Range(<<a, b>>) = {a, b}
  <2>1. DOMAIN <<a, b>> = 1 .. 2 /\ <<a, b>>[1] = a /\ <<a, b>>[2] = b
    OBVIOUS
  <2>2. \A i \in 1 .. 2 : i = 1 \/ i = 2
    OBVIOUS
  <2>3. 1 \in 1 .. 2 /\ 2 \in 1 .. 2
    OBVIOUS
  <2>4. QED
    BY <2>1, <2>2, <2>3 DEF Range
<1>4. QED
  BY <1>1, <1>2, <1>3

LEMMA InRange ==
  ASSUME NEW t \in Seq(Steps)
  PROVE  \A a : a \in Range(t) <=> \E i \in 1 .. Len(t) : t[i] = a
BY RangeEquality

(* Steps that are in order and have a place between lo and hi.             *)
Tier(s, lo, hi) ==
  s \in Seq(Steps) /\ Once(s) /\ \A a \in Range(s) : Place(a) \in lo .. hi

(* One tier after another, or questions after anything.                    *)
LEMMA TierAfter ==
  ASSUME NEW s, NEW t, NEW lo \in Nat, NEW m \in Nat, NEW n \in Nat, NEW hi \in Nat,
         lo <= n, m <= hi, m < n \/ n = 6, Tier(s, lo, m), Tier(t, n, hi)
  PROVE  Tier(s \o t, lo, hi)
<1>0. s \in Seq(Steps) /\ t \in Seq(Steps)
  BY DEF Tier
<1>1. /\ s \o t \in Seq(Steps) /\ Len(s) \in Nat /\ Len(t) \in Nat
      /\ Len(s \o t) = Len(s) + Len(t)
      /\ \A i \in 1 .. Len(s) + Len(t) :
           (s \o t)[i] = IF i <= Len(s) THEN s[i] ELSE t[i - Len(s)]
  BY <1>0, ConcatProperties, LenProperties
<1>2. Range(s \o t) = Range(s) \cup Range(t)
  BY <1>0, RangeConcatenation
<1>3. \A a \in Range(s \o t) : Place(a) \in lo .. hi
  <2>1. \A a \in Range(s) : Place(a) \in lo .. m
    BY DEF Tier
  <2>2. \A a \in Range(t) : Place(a) \in n .. hi
    BY DEF Tier
  <2>3. lo .. m \subseteq lo .. hi /\ n .. hi \subseteq lo .. hi
    OBVIOUS
  <2>4. QED
    BY <1>2, <2>1, <2>2, <2>3
<1>4. ASSUME NEW i \in 1 .. Len(s \o t), NEW j \in 1 .. Len(s \o t), i < j,
             Place((s \o t)[j]) # 6
      PROVE  Place((s \o t)[i]) < Place((s \o t)[j])
  <2>1. CASE j <= Len(s)
    <3>1. /\ i \in 1 .. Len(s) /\ j \in 1 .. Len(s)
          /\ (s \o t)[i] = s[i] /\ (s \o t)[j] = s[j]
      BY <1>1, <1>4, <2>1
    <3>2. QED
      BY <1>4, <3>1 DEF Tier, Once
  <2>2. CASE i <= Len(s) /\ j > Len(s)
    <3>1. i \in 1 .. Len(s) /\ j - Len(s) \in 1 .. Len(t)
      BY <1>1, <1>4, <2>2
    <3>2. (s \o t)[i] = s[i] /\ (s \o t)[j] = t[j - Len(s)]
      BY <1>1, <1>4, <2>2
    <3>3. s[i] \in Range(s) /\ t[j - Len(s)] \in Range(t)
      BY <1>0, <3>1, InRange
    <3>4. Place((s \o t)[i]) \in lo .. m /\ Place((s \o t)[j]) \in n .. hi
      BY <3>2, <3>3 DEF Tier
    <3>5. Place((s \o t)[j]) <= 6
      BY DEF Place
    <3> DEFINE p == Place((s \o t)[i])
               q == Place((s \o t)[j])
    <3>6. p \in lo .. m /\ q \in n .. hi /\ q <= 6 /\ q # 6
      BY <1>4, <3>4, <3>5
    <3> HIDE DEF p, q
    <3>7. p < q
      BY <3>6
    <3>8. QED
      BY <3>7 DEF p, q
  <2>3. CASE i > Len(s)
    <3>1. i - Len(s) \in 1 .. Len(t) /\ j - Len(s) \in 1 .. Len(t) /\ i - Len(s) < j - Len(s)
      BY <1>1, <1>4, <2>3
    <3>2. (s \o t)[i] = t[i - Len(s)] /\ (s \o t)[j] = t[j - Len(s)]
      BY <1>1, <1>4, <2>3
    <3>3. QED
      BY <1>4, <3>1, <3>2 DEF Tier, Once
  <2>4. QED
    BY <1>1, <1>4, <2>1, <2>2, <2>3
<1>5. QED
  BY <1>1, <1>3, <1>4 DEF Tier, Once

(* Tiers of at most two steps.                                             *)
LEMMA ShortTiers ==
  /\ \A lo, hi \in Nat : Tier(<<>>, lo, hi)
  /\ \A a \in Steps : \A lo, hi \in Nat : Place(a) \in lo .. hi => Tier(<<a>>, lo, hi)
  /\ \A a, b \in Steps : \A lo, hi \in Nat :
       Place(a) \in lo .. hi /\ Place(b) \in lo .. hi
         /\ (Place(a) < Place(b) \/ Place(b) = 6) => Tier(<<a, b>>, lo, hi)
<1>1. Once(<<>>)
  BY ShortSequences DEF Once
<1>2. \A a \in Steps : Once(<<a>>)
  BY ShortSequences DEF Once
<1>3. ASSUME NEW a \in Steps, NEW b \in Steps, Place(a) < Place(b) \/ Place(b) = 6
      PROVE  Once(<<a, b>>)
  <2>1. Len(<<a, b>>) = 2 /\ <<a, b>>[1] = a /\ <<a, b>>[2] = b
    OBVIOUS
  <2>2. \A i, j \in 1 .. 2 : i < j => i = 1 /\ j = 2
    OBVIOUS
  <2>3. QED
    BY <1>3, <2>1, <2>2 DEF Once
<1>4. QED
  BY <1>1, <1>2, <1>3, ShortSequences, ShortRanges DEF Tier

(* The place of each kind of step.                                         *)
LEMMA Places ==
  /\ Place(Inc("attempts")) = 1 /\ Place(Inc("consecutive")) = 1 /\ Place(Inc("errors")) = 2
  /\ \A v \in Verdicts : Place(Inc(v)) = 3
  /\ Place(Inc("Latencies")) = 4 /\ Place(Inc("MeetsSLO")) = 5 /\ Place(Inc("FailsSLO")) = 5
  /\ \A on : /\ Place(Step("load", on)) = 1 /\ Place(Step("zero", on)) = 1
             /\ Place(Step("judge", on)) = 5
             /\ Place(Step("first", on)) = 6 /\ Place(Step("second", on)) = 6
             /\ Place(Step("streak", on)) = 6 /\ Place(Step("return", on)) = 6
             /\ Place(Step("get", on)) = 6
BY DEF Place, Inc, Step, Verdicts, Timed, Failures

(* The questions of both openers are nothing but questions.                *)
LEMMA QuestionTier ==
  ASSUME logic \in {"hystrix", "consecutive"}
  PROVE  /\ Tier(ShouldOpenSteps, 6, 6)
         /\ \A a \in Range(ShouldOpenSteps) : a.do \notin {"inc", "judge"}
<1>1. CASE logic = "hystrix"
  <2> DEFINE fa == Step("first", "attempts")
             gv == Step("get", "requestVolumeThreshold")
             se == Step("second", "errors")
             gp == Step("get", "errorPercentage")
             q == <<fa, gv, se, gp>>
             All == {fa, gv, se, gp}
  <2>1. /\ ShouldOpenSteps = q /\ q \in Seq(Steps) /\ Len(q) = 4
    BY <1>1, QuestionInOrder DEF ShouldOpenSteps
  <2>2. \A a \in All : Place(a) = 6 /\ a.do \notin {"inc", "judge"}
    <3>1. /\ fa.do \notin {"inc", "judge"} /\ gv.do \notin {"inc", "judge"}
          /\ se.do \notin {"inc", "judge"} /\ gp.do \notin {"inc", "judge"}
      BY DEF Step
    <3>2. Place(fa) = 6 /\ Place(gv) = 6 /\ Place(se) = 6 /\ Place(gp) = 6
      BY Places
    <3>3. QED
      BY <3>1, <3>2
  <2> HIDE DEF fa, gv, se, gp
  <2>3. ASSUME NEW i \in 1 .. 4 PROVE q[i] \in All
    <3>1. i = 1 \/ i = 2 \/ i = 3 \/ i = 4
      OBVIOUS
    <3>2. q[1] = fa /\ q[2] = gv /\ q[3] = se /\ q[4] = gp
      OBVIOUS
    <3>3. QED
      BY <3>1, <3>2
  <2> HIDE DEF q, All
  <2>4. \A a \in Range(q) : a \in All
    BY <2>1, <2>3, InRange
  <2>5. Once(q)
    BY <2>1, <2>2, <2>3 DEF Once
  <2>6. QED
    BY <2>1, <2>2, <2>4, <2>5 DEF Tier
<1>2. CASE logic # "hystrix"
  <2>1. ShouldOpenSteps = <<Step("streak", "consecutive"), Step("get", "closeThreshold")>>
    BY <1>2 DEF ShouldOpenSteps
  <2>2. Step("streak", "consecutive") \in Steps /\ Step("get", "closeThreshold") \in Steps
    BY DEF Steps, Reads
  <2>3. Tier(<<Step("streak", "consecutive"), Step("get", "closeThreshold")>>, 6, 6)
    BY <2>2, Places, ShortTiers
  <2>4. Range(ShouldOpenSteps) = {Step("streak", "consecutive"), Step("get", "closeThreshold")}
    BY <2>1, ShortRanges
  <2>5. \A a \in {Step("streak", "consecutive"), Step("get", "closeThreshold")} :
          a.do \notin {"inc", "judge"}
    BY DEF Step
  <2>6. QED
    BY <2>1, <2>3, <2>4, <2>5
<1>3. QED
  BY <1>1, <1>2

(* The steps that a verdict makes a goroutine tell the collectors.         *)
Told(v) ==
  (IF logic = "hystrix"
     THEN IF v = "Success" THEN {Inc("attempts")}
          ELSE IF v \in Failures THEN {Inc("attempts"), Inc("errors")} ELSE {}
     ELSE IF v = "Success" THEN {Step("load", "consecutive")}
          ELSE IF v \in Failures THEN {Inc("consecutive")} ELSE {})
    \cup {Inc(v)}
    \cup (IF v \in Timed THEN {Inc("Latencies")} ELSE {})
    \cup (IF v \in {"Success", "ErrInterrupt"} THEN {Step("judge", v)}
          ELSE IF v = "ErrBadRequest" THEN {} ELSE {Inc("FailsSLO")})

LEMMA ReportTells ==
  ASSUME NEW v \in Verdicts, logic \in {"hystrix", "consecutive"}
  PROVE  /\ ReportSteps(v) \in Seq(Steps) /\ Once(ReportSteps(v))
         /\ \A a : a.do \in {"inc", "judge"} => (a \in Range(ReportSteps(v)) <=> a \in Told(v))
<1> DEFINE A == IF logic = "hystrix" THEN OpenerSteps(v) ELSE ConsecutiveErrOpenerSteps(v)
           asked == IF v \in Failures THEN ShouldOpenSteps ELSE <<>>
           B == A \o RunStatsSteps(v)
           C == B \o TrackerSteps(v)
           D == C \o asked
           R == D \o Return
<1>c. /\ {"attempts", "errors", "consecutive", "Latencies", "FailsSLO", "Success"} \subseteq Counters
      /\ v \in Counters
  BY DEF Counters, Verdicts, Timed, Failures
<1>i. /\ \A c \in Counters : Inc(c) \in Steps
      /\ Step("load", "consecutive") \in Steps /\ Step("judge", "Success") \in Steps
      /\ Step("judge", "ErrInterrupt") \in Steps /\ Step("return", "Success") \in Steps
  BY KindsOfSteps DEF Starts
<1>s. v \in Failures => v # "Success"
  BY DEF Failures
<1>1. /\ Tier(A, 1, 2)
      /\ Range(A) = IF logic = "hystrix"
                      THEN IF v = "Success" THEN {Inc("attempts")}
                           ELSE IF v \in Failures THEN {Inc("attempts"), Inc("errors")} ELSE {}
                      ELSE IF v = "Success" THEN {Step("load", "consecutive")}
                           ELSE IF v \in Failures THEN {Inc("consecutive")} ELSE {}
  <2>1. CASE logic = "hystrix" /\ v = "Success"
    <3>1. A = <<Inc("attempts")>>
      BY <1>s, <2>1 DEF OpenerSteps
    <3>2. Tier(<<Inc("attempts")>>, 1, 2)
      BY <1>c, <1>i, Places, ShortTiers
    <3>3. QED
      BY <2>1, <3>1, <3>2, ShortRanges
  <2>2. CASE logic = "hystrix" /\ v \in Failures
    <3>1. A = <<Inc("attempts"), Inc("errors")>>
      BY <1>s, <2>2 DEF OpenerSteps
    <3>2. Tier(<<Inc("attempts"), Inc("errors")>>, 1, 2)
      BY <1>c, <1>i, Places, ShortTiers
    <3>3. QED
      BY <1>s, <2>2, <3>1, <3>2, ShortRanges
  <2>3. CASE logic # "hystrix" /\ v = "Success"
    <3>1. A = <<Step("load", "consecutive")>>
      BY <1>s, <2>3 DEF ConsecutiveErrOpenerSteps
    <3>2. Tier(<<Step("load", "consecutive")>>, 1, 2)
      BY <1>c, <1>i, Places, ShortTiers
    <3>3. QED
      BY <2>3, <3>1, <3>2, ShortRanges
  <2>4. CASE logic # "hystrix" /\ v \in Failures
    <3>1. A = <<Inc("consecutive")>>
      BY <1>s, <2>4 DEF ConsecutiveErrOpenerSteps
    <3>2. Tier(<<Inc("consecutive")>>, 1, 2)
      BY <1>c, <1>i, Places, ShortTiers
    <3>3. QED
      BY <1>s, <2>4, <3>1, <3>2, ShortRanges
  <2>5. CASE v \notin Failures /\ v # "Success"
    <3>1. A = <<>>
      BY <2>5 DEF OpenerSteps, ConsecutiveErrOpenerSteps
    <3>2. Tier(<<>>, 1, 2)
      BY ShortTiers
    <3>3. QED
      BY <2>5, <3>1, <3>2, ShortRanges
  <2>6. QED
    BY <2>1, <2>2, <2>3, <2>4, <2>5
<1>2. /\ Tier(RunStatsSteps(v), 3, 4)
      /\ Range(RunStatsSteps(v)) = {Inc(v)} \cup (IF v \in Timed THEN {Inc("Latencies")} ELSE {})
  <2>1. CASE v \in Timed
    <3>1. RunStatsSteps(v) = <<Inc(v), Inc("Latencies")>>
      BY <2>1 DEF RunStatsSteps
    <3>2. Tier(<<Inc(v), Inc("Latencies")>>, 3, 4)
      BY <1>c, <1>i, Places, ShortTiers
    <3>3. QED
      BY <2>1, <3>1, <3>2, ShortRanges
  <2>2. CASE v \notin Timed
    <3>1. RunStatsSteps(v) = <<Inc(v)>>
      BY <2>2 DEF RunStatsSteps
    <3>2. Tier(<<Inc(v)>>, 3, 4)
      BY <1>c, <1>i, Places, ShortTiers
    <3>3. QED
      BY <2>2, <3>1, <3>2, ShortRanges
  <2>3. QED
    BY <2>1, <2>2
<1>3. /\ Tier(TrackerSteps(v), 5, 5)
      /\ Range(TrackerSteps(v)) = IF v \in {"Success", "ErrInterrupt"} THEN {Step("judge", v)}
                                  ELSE IF v = "ErrBadRequest" THEN {} ELSE {Inc("FailsSLO")}
  <2>1. CASE v \in {"Success", "ErrInterrupt"}
    <3>1. TrackerSteps(v) = <<Step("judge", v)>>
      BY <2>1 DEF TrackerSteps
    <3>2. Tier(<<Step("judge", v)>>, 5, 5)
      BY <1>i, <2>1, Places, ShortTiers
    <3>3. QED
      BY <2>1, <3>1, <3>2, ShortRanges
  <2>2. CASE v = "ErrBadRequest"
    <3>1. TrackerSteps(v) = <<>>
      BY <2>2 DEF TrackerSteps
    <3>2. Tier(<<>>, 5, 5)
      BY ShortTiers
    <3>3. QED
      BY <2>2, <3>1, <3>2, ShortRanges
  <2>3. CASE v \notin {"Success", "ErrInterrupt", "ErrBadRequest"}
    <3>1. TrackerSteps(v) = <<Inc("FailsSLO")>>
      BY <2>3 DEF TrackerSteps
    <3>2. Tier(<<Inc("FailsSLO")>>, 5, 5)
      BY <1>c, <1>i, Places, ShortTiers
    <3>3. QED
      BY <2>3, <3>1, <3>2, ShortRanges
  <2>4. QED
    BY <2>1, <2>2, <2>3
<1>4. /\ Tier(asked, 6, 6)
      /\ \A a \in Range(asked) : a.do \notin {"inc", "judge"}
  <2>1. CASE v \in Failures
    BY <2>1, QuestionTier
  <2>2. CASE v \notin Failures
    <3>1. asked = <<>>
      BY <2>2
    <3>2. Tier(<<>>, 6, 6)
      BY ShortTiers
    <3>3. QED
      BY <3>1, <3>2, ShortRanges
  <2>3. QED
    BY <2>1, <2>2
<1>5. /\ Tier(Return, 6, 6)
      /\ \A a \in Range(Return) : a.do \notin {"inc", "judge"}
  <2>1. Tier(Return, 6, 6)
    BY <1>i, Places, ShortTiers DEF Return
  <2>2. Range(Return) = {Step("return", "Success")}
    BY ShortRanges DEF Return
  <2>3. QED
    BY <2>1, <2>2 DEF Step
<1> HIDE DEF A, asked
<1>6. Tier(B, 1, 4) /\ Range(B) = Range(A) \cup Range(RunStatsSteps(v))
  <2>1. Tier(B, 1, 4)
    BY <1>1, <1>2, TierAfter
  <2>2. QED
    BY <1>1, <1>2, <2>1, RangeConcatenation DEF Tier
<1> HIDE DEF B
<1>7. Tier(C, 1, 5) /\ Range(C) = Range(B) \cup Range(TrackerSteps(v))
  <2>1. Tier(C, 1, 5)
    BY <1>3, <1>6, TierAfter
  <2>2. QED
    BY <1>3, <1>6, <2>1, RangeConcatenation DEF Tier
<1> HIDE DEF C
<1>8. Tier(D, 1, 6) /\ Range(D) = Range(C) \cup Range(asked)
  <2>1. Tier(D, 1, 6)
    BY <1>4, <1>7, TierAfter
  <2>2. QED
    BY <1>4, <1>7, <2>1, RangeConcatenation DEF Tier
<1> HIDE DEF D
<1>9. Tier(R, 1, 6) /\ Range(R) = Range(D) \cup Range(Return)
  <2>1. Tier(R, 1, 6)
    BY <1>5, <1>8, TierAfter
  <2>2. QED
    BY <1>5, <1>8, <2>1, RangeConcatenation DEF Tier
<1>10. R = ReportSteps(v)
  BY DEF R, D, C, B, A, asked, ReportSteps
<1> HIDE DEF R
<1>11. Told(v) = Range(A) \cup Range(RunStatsSteps(v)) \cup Range(TrackerSteps(v))
  <2>1. Told(v) = Range(A) \cup {Inc(v)} \cup (IF v \in Timed THEN {Inc("Latencies")} ELSE {})
                    \cup Range(TrackerSteps(v))
    BY <1>1, <1>3 DEF Told
  <2>2. QED
    BY <1>2, <2>1
<1>12. ASSUME NEW a, a.do \in {"inc", "judge"} PROVE a \in Range(R) <=> a \in Told(v)
  BY <1>4, <1>5, <1>6, <1>7, <1>8, <1>9, <1>11, <1>12
<1>13. QED
  BY <1>9, <1>10, <1>12 DEF Tier

(* The first step done, the others stay in order and change other counters.*)
LEMMA OnceTail ==
  ASSUME NEW t \in Seq(Steps), t # <<>>, Once(t)
  PROVE  /\ Tail(t) \in Seq(Steps) /\ Once(Tail(t))
         /\ Range(t) = {Head(t)} \cup Range(Tail(t))
         /\ \A a \in Range(Tail(t)) : Place(a) # 6 => Place(Head(t)) < Place(a)
<1> DEFINE u == Tail(t)
<1>1. /\ u \in Seq(Steps) /\ Len(u) = Len(t) - 1 /\ Len(t) \in Nat /\ Len(t) > 0
      /\ \A i \in 1 .. Len(u) : u[i] = t[i + 1]
      /\ Head(t) = t[1]
  BY HeadTailProperties, LenProperties, HeadIsFirst
<1>2. /\ \A a : a \in Range(t) <=> \E i \in 1 .. Len(t) : t[i] = a
      /\ \A a : a \in Range(u) <=> \E i \in 1 .. Len(u) : u[i] = a
  BY <1>1, InRange
<1> HIDE DEF u
<1>3. ASSUME NEW i \in 1 .. Len(u), NEW j \in 1 .. Len(u), i < j, Place(u[j]) # 6
      PROVE  Place(u[i]) < Place(u[j])
  <2>1. i + 1 \in 1 .. Len(t) /\ j + 1 \in 1 .. Len(t) /\ i + 1 < j + 1
    BY <1>1, <1>3
  <2>2. QED
    BY <1>1, <1>3, <2>1 DEF Once
<1>4. ASSUME NEW a \in Range(u), Place(a) # 6 PROVE Place(Head(t)) < Place(a)
  <2>1. PICK i \in 1 .. Len(u) : u[i] = a
    BY <1>2
  <2>2. 1 \in 1 .. Len(t) /\ i + 1 \in 1 .. Len(t) /\ 1 < i + 1 /\ t[i + 1] = a
    BY <1>1, <2>1
  <2>3. QED
    BY <1>1, <1>4, <2>2 DEF Once
<1>5. ASSUME NEW a \in Range(t) PROVE a = Head(t) \/ a \in Range(u)
  <2>1. PICK i \in 1 .. Len(t) : t[i] = a
    BY <1>2
  <2>2. CASE i = 1
    BY <1>1, <2>1, <2>2
  <2>3. CASE i # 1
    <3>1. i - 1 \in 1 .. Len(u) /\ (i - 1) + 1 = i
      BY <1>1, <2>3
    <3>2. u[i - 1] = a
      BY <1>1, <2>1, <3>1
    <3>3. QED
      BY <1>2, <3>1, <3>2
  <2>4. QED
    BY <2>2, <2>3
<1>6. ASSUME NEW a \in Range(u) PROVE a \in Range(t)
  <2>1. PICK i \in 1 .. Len(u) : u[i] = a
    BY <1>2
  <2>2. i + 1 \in 1 .. Len(t) /\ t[i + 1] = a
    BY <1>1, <2>1
  <2>3. QED
    BY <1>2, <2>2
<1>7. Head(t) \in Range(t)
  <2>1. 1 \in 1 .. Len(t)
    BY <1>1
  <2>2. QED
    BY <1>1, <1>2, <2>1
<1>8. Once(u)
  BY <1>3 DEF Once
<1>9. Range(t) = {Head(t)} \cup Range(u)
  BY <1>5, <1>6, <1>7
<1>10. QED
  BY <1>1, <1>4, <1>8, <1>9 DEF u

(* A step may take the place of the first one.                             *)
LEMMA OnceInstead ==
  ASSUME NEW t \in Seq(Steps), t # <<>>, Once(t), NEW a \in Steps, Place(a) = Place(Head(t))
  PROVE  /\ <<a>> \o Tail(t) \in Seq(Steps) /\ Once(<<a>> \o Tail(t))
         /\ Range(<<a>> \o Tail(t)) = {a} \cup Range(Tail(t))
<1> DEFINE u == Tail(t)
           o == <<a>>
           r == o \o u
<1>1. /\ u \in Seq(Steps) /\ Once(u) /\ Len(u) \in Nat
      /\ \A b \in Range(u) : Place(b) # 6 => Place(a) < Place(b)
  BY OnceTail, LenProperties
<1>2. o \in Seq(Steps) /\ Len(o) = 1 /\ o[1] = a /\ Range(o) = {a}
  BY ShortSequences, ShortRanges
<1>3. \A b : b \in Range(u) <=> \E i \in 1 .. Len(u) : u[i] = b
  BY <1>1, InRange
<1> HIDE DEF u, o
<1>4. Range(r) = {a} \cup Range(u)
  BY <1>1, <1>2, RangeConcatenation
<1>5. /\ r \in Seq(Steps) /\ Len(r) = 1 + Len(u)
      /\ \A i \in 1 .. Len(r) : r[i] = IF i <= 1 THEN a ELSE u[i - 1]
  <2>1. /\ r \in Seq(Steps) /\ Len(r) = Len(o) + Len(u)
        /\ \A i \in 1 .. Len(o) + Len(u) : r[i] = IF i <= Len(o) THEN o[i] ELSE u[i - Len(o)]
    BY <1>1, <1>2, ConcatProperties
  <2> HIDE DEF r
  <2>2. \A i \in 1 .. Len(r) : i <= 1 => i = 1
    OBVIOUS
  <2>3. QED
    BY <1>2, <2>1, <2>2
<1> HIDE DEF r
<1>6. ASSUME NEW i \in 1 .. Len(r), NEW j \in 1 .. Len(r), i < j, Place(r[j]) # 6
      PROVE  Place(r[i]) < Place(r[j])
  <2>1. j - 1 \in 1 .. Len(u) /\ r[j] = u[j - 1]
    BY <1>1, <1>5, <1>6
  <2>2. CASE i = 1
    <3>1. r[i] = a /\ r[j] \in Range(u)
      BY <1>1, <1>3, <1>5, <2>1, <2>2
    <3>2. QED
      BY <1>1, <1>6, <3>1
  <2>3. CASE i # 1
    <3>1. i - 1 \in 1 .. Len(u) /\ r[i] = u[i - 1] /\ i - 1 < j - 1
      BY <1>1, <1>5, <1>6, <2>3
    <3>2. QED
      BY <1>1, <1>6, <2>1, <3>1 DEF Once
  <2>4. QED
    BY <2>2, <2>3
<1>7. Once(r)
  BY <1>6 DEF Once
<1>8. QED
  BY <1>4, <1>5, <1>7 DEF r, o, u

(* Neither a percentage nor a return changes a counter.                    *)
LEMMA QuestionsTell ==
  /\ Once(PercentageSteps) /\ Once(Return)
  /\ \A a \in Range(PercentageSteps) \cup Range(Return) : a.do \notin {"inc", "judge"}
<1> DEFINE fs == <<Step("first", "Success")>>
           ff == <<Step("first", "ErrFailure"), Step("first", "ErrTimeout")>>
           sf == <<Step("second", "ErrFailure"), Step("second", "ErrTimeout")>>
           A == fs \o ff
           B == A \o sf
<1>1. /\ Step("first", "Success") \in Steps /\ Step("first", "ErrFailure") \in Steps
      /\ Step("first", "ErrTimeout") \in Steps /\ Step("second", "ErrFailure") \in Steps
      /\ Step("second", "ErrTimeout") \in Steps /\ Step("return", "Success") \in Steps
  BY DEF Steps, Reads
<1>2. Tier(fs, 6, 6) /\ Tier(ff, 6, 6) /\ Tier(sf, 6, 6) /\ Tier(Return, 6, 6)
  BY <1>1, Places, ShortTiers DEF Return
<1>3. /\ Range(fs) = {Step("first", "Success")}
      /\ Range(ff) = {Step("first", "ErrFailure"), Step("first", "ErrTimeout")}
      /\ Range(sf) = {Step("second", "ErrFailure"), Step("second", "ErrTimeout")}
      /\ Range(Return) = {Step("return", "Success")}
  BY ShortRanges DEF Return
<1>4. PercentageSteps = B \o Return
  BY DEF PercentageSteps, LegitimateAttemptsAt, ErrorsAt
<1> HIDE DEF fs, ff, sf
<1>5. Tier(A, 6, 6) /\ Range(A) = Range(fs) \cup Range(ff)
  <2>1. Tier(A, 6, 6)
    BY <1>2, TierAfter
  <2>2. QED
    BY <1>2, <2>1, RangeConcatenation DEF Tier
<1> HIDE DEF A
<1>6. Tier(B, 6, 6) /\ Range(B) = Range(A) \cup Range(sf)
  <2>1. Tier(B, 6, 6)
    BY <1>2, <1>5, TierAfter
  <2>2. QED
    BY <1>2, <1>5, <2>1, RangeConcatenation DEF Tier
<1> HIDE DEF B
<1>7. Tier(B \o Return, 6, 6) /\ Range(B \o Return) = Range(B) \cup Range(Return)
  <2>1. Tier(B \o Return, 6, 6)
    BY <1>2, <1>6, TierAfter
  <2>2. QED
    BY <1>2, <1>6, <2>1, RangeConcatenation DEF Tier
<1>8. Once(PercentageSteps) /\ Once(Return)
  BY <1>2, <1>4, <1>7 DEF Tier
<1>9. \A a \in Range(fs) \cup Range(ff) \cup Range(sf) \cup Range(Return) :
        a.do \notin {"inc", "judge"}
  BY <1>3 DEF Step
<1>10. QED
  BY <1>4, <1>5, <1>6, <1>7, <1>8, <1>9

(* How many have a step before them, when one goroutine moves.             *)
LEMMA OpenMoves ==
  ASSUME TypeOK, NEW g \in Goroutines, NEW t \in Seq(Steps), todo' = [todo EXCEPT ![g] = t],
         NEW a
  PROVE  /\ Open(a) \in Nat /\ Open(a)' \in Nat
         /\ (a \in Range(t) <=> a \in Range(todo[g])) => Open(a)' = Open(a)
         /\ a \in Range(t) /\ a \notin Range(todo[g]) => Open(a)' = Open(a) + 1
         /\ a \notin Range(t) /\ a \in Range(todo[g]) => Open(a)' = Open(a) - 1
<1>1. \A h \in Goroutines : todo'[h] = IF h = g THEN t ELSE todo[h]
  BY DEF TypeOK
<1>2. Owes(a) \subseteq Goroutines /\ Owes(a)' \subseteq Goroutines
  BY DEF Owes
<1>3. \A h \in Goroutines : h \in Owes(a) <=> a \in Range(todo[h])
  BY DEF Owes
<1>4. \A h \in Goroutines : h \in Owes(a)' <=> a \in Range(todo'[h])
  BY DEF Owes
<1>5. IsFiniteSet(Owes(a)) /\ IsFiniteSet(Owes(a)')
  BY <1>2, GoroutinesAssumption, FS_Subset
<1>6. Open(a) \in Nat /\ Open(a)' \in Nat
  BY <1>5, FS_CardinalityType DEF Open
<1>7. ASSUME a \in Range(t) <=> a \in Range(todo[g]) PROVE Open(a)' = Open(a)
  <2>1. Owes(a)' = Owes(a)
    BY <1>1, <1>2, <1>3, <1>4, <1>7
  <2>2. QED
    BY <2>1 DEF Open
<1>8. ASSUME a \in Range(t), a \notin Range(todo[g]) PROVE Open(a)' = Open(a) + 1
  <2>1. Owes(a)' = Owes(a) \cup {g} /\ g \notin Owes(a)
    BY <1>1, <1>2, <1>3, <1>4, <1>8
  <2>2. QED
    BY <1>5, <2>1, FS_AddElement DEF Open
<1>9. ASSUME a \notin Range(t), a \in Range(todo[g]) PROVE Open(a)' = Open(a) - 1
  <2>1. Owes(a)' = Owes(a) \ {g} /\ g \in Owes(a)
    BY <1>1, <1>2, <1>3, <1>4, <1>9
  <2>2. QED
    BY <1>5, <2>1, FS_RemoveElement DEF Open
<1>10. QED
  BY <1>6, <1>7, <1>8, <1>9

(* A goroutine is given other steps: the others' stay in order.            *)
LEMMA OnceMoves ==
  ASSUME TypeOK, TodoOnce, NEW g \in Goroutines, NEW t, Once(t), todo' = [todo EXCEPT ![g] = t]
  PROVE  TodoOnce'
<1>1. \A h \in Goroutines : todo'[h] = IF h = g THEN t ELSE todo[h]
  BY DEF TypeOK
<1>2. \A h \in Goroutines : Once(todo'[h])
  BY <1>1 DEF TodoOnce
<1>3. QED
  BY <1>2 DEF TodoOnce, Once

(* Every step keeps what is to do in order, with nothing in it twice.      *)
LEMMA OnceStep ==
  ASSUME TypeOK, TodoOnce, [Next]_vars
  PROVE  TodoOnce'
<1>t. todo \in [Goroutines -> Seq(Steps)] /\ logic \in {"hystrix", "consecutive"}
  BY DEF TypeOK
<1>o. \A g \in Goroutines : Once(todo[g])
  BY DEF TodoOnce
<1>r. ASSUME NEW g \in Goroutines, todo[g] # <<>>, Rest(g) PROVE TodoOnce'
  <2>1. Once(Tail(todo[g]))
    BY <1>t, <1>o, <1>r, OnceTail
  <2>2. todo' = [todo EXCEPT ![g] = Tail(todo[g])]
    BY <1>r DEF Rest
  <2>3. QED
    BY <2>1, <2>2, OnceMoves
<1>i. ASSUME NEW g \in Goroutines, todo[g] # <<>>, NEW a \in Steps,
             Place(a) = Place(Head(todo[g])), Instead(g, a)
      PROVE  TodoOnce'
  <2>1. Once(<<a>> \o Tail(todo[g]))
    BY <1>t, <1>o, <1>i, OnceInstead
  <2>2. todo' = [todo EXCEPT ![g] = <<a>> \o Tail(todo[g])]
    BY <1>i DEF Instead
  <2>3. QED
    BY <2>1, <2>2, OnceMoves
<1>u. UNCHANGED todo => TodoOnce'
  BY DEF TodoOnce, Once
<1>1. ASSUME NEW g \in Goroutines, NEW v \in Verdicts, NEW d \in Durations, Report(g, v, d)
      PROVE  TodoOnce'
  <2>1. Once(ReportSteps(v))
    BY <1>t, ReportTells
  <2>2. todo' = [todo EXCEPT ![g] = ReportSteps(v)]
    BY <1>1 DEF Report, ReportSteps
  <2>3. QED
    BY <2>1, <2>2, OnceMoves
<1>2. ASSUME NEW g \in Goroutines, ErrorPercentageAt(g) PROVE TodoOnce'
  <2>1. todo' = [todo EXCEPT ![g] = PercentageSteps]
    BY <1>2 DEF ErrorPercentageAt, PercentageSteps
  <2>2. QED
    BY <2>1, QuestionsTell, OnceMoves
<1>3. ASSUME NEW g \in Goroutines,
             \/ DoInc(g) \/ ZeroStreak(g) \/ DoReturn(g) \/ ReadStreak(g) \/ ReadErrors(g)
      PROVE  TodoOnce'
  BY <1>3, <1>r DEF DoInc, ZeroStreak, DoReturn, ReadStreak, ReadErrors, Does
<1>4. ASSUME NEW g \in Goroutines, LoadStreak(g) PROVE TodoOnce'
  <2>1. Does(g, "load") /\ (Rest(g) \/ Instead(g, Step("zero", "consecutive")))
    BY <1>4 DEF LoadStreak
  <2>2. todo[g] # <<>> /\ Place(Head(todo[g])) = 1
    BY <2>1, AtStep, Places
  <2>3. Step("zero", "consecutive") \in Steps
    BY KindsOfSteps
  <2>4. QED
    BY <1>r, <1>i, <2>1, <2>2, <2>3, Places
<1>5. ASSUME NEW g \in Goroutines, Judge(g) PROVE TodoOnce'
  <2>1. /\ Does(g, "judge")
        /\ Rest(g) \/ Instead(g, Inc("MeetsSLO")) \/ Instead(g, Inc("FailsSLO"))
    BY <1>5 DEF Judge
  <2>2. todo[g] # <<>> /\ Place(Head(todo[g])) = 5
    BY <2>1, AtStep, Places
  <2>3. Inc("MeetsSLO") \in Steps /\ Inc("FailsSLO") \in Steps
    BY KindsOfSteps DEF Counters
  <2>4. QED
    BY <1>r, <1>i, <2>1, <2>2, <2>3, Places
<1>6. ASSUME NEW g \in Goroutines, ReadAttempts(g) \/ GetThreshold(g) PROVE TodoOnce'
  <2>1. todo[g] # <<>> /\ (Rest(g) \/ todo' = [todo EXCEPT ![g] = Return])
    BY <1>6 DEF ReadAttempts, GetThreshold, Does
  <2>2. QED
    BY <1>r, <2>1, QuestionsTell, OnceMoves
<1>7. ASSUME \/ ResetErrors \/ ResetAttempts \/ ResetStreak
             \/ \E field \in Fields : \E value \in Settings[field] :
                  SetConfigThreadSafe(field, value)
             \/ UNCHANGED vars
      PROVE  TodoOnce'
  BY <1>7, <1>u DEF ResetErrors, ResetAttempts, ResetStreak, SetConfigThreadSafe, vars
<1>8. QED
  BY <1>1, <1>2, <1>3, <1>4, <1>5, <1>6, <1>7 DEF Next

(* The totals of the counters and the open judgements are numbers.         *)
LEMMA TotalsAreNumbers ==
  ASSUME TypeOK
  PROVE  /\ \A a : Open(a) \in Nat
         /\ \A c \in Counters : Total(c) \in Nat
<1>1. ASSUME NEW a PROVE Open(a) \in Nat
  <2>1. Owes(a) \subseteq Goroutines
    BY DEF Owes
  <2>2. QED
    BY <2>1, GoroutinesAssumption, FS_Subset, FS_CardinalityType DEF Open
<1>2. ASSUME NEW c \in Counters PROVE Total(c) \in Nat
  <2>1. count[c] \in Nat /\ Open(Inc(c)) \in Nat
    BY <1>1 DEF TypeOK
  <2>2. QED
    BY <2>1 DEF Total
<1>3. QED
  BY <1>1, <1>2

(* The counters BooksKept is about.                                        *)
Booked == Verdicts \cup {"Latencies", "MeetsSLO", "FailsSLO"}
OpenerCounters == {"attempts", "errors"}

LEMMA CounterNames ==
  /\ Booked \subseteq Counters /\ OpenerCounters \subseteq Counters
  /\ {"Success", "ErrFailure", "ErrTimeout", "ErrBadRequest", "ErrInterrupt", "Latencies",
      "ErrConcurrencyLimitReject", "ErrShortCircuit", "MeetsSLO", "FailsSLO"} \subseteq Booked
  /\ "attempts" \in OpenerCounters /\ "errors" \in OpenerCounters
  /\ "consecutive" \notin Booked \cup OpenerCounters
  BY DEF Booked, OpenerCounters, Counters, Verdicts, Timed, Failures

(* A step that keeps all totals keeps the books, and the opener's need not *)
(* be kept by a reset.                                                     *)
LEMMA BooksFrame ==
  ASSUME TypeOK, BooksKept, UNCHANGED <<logic, calls, excused>>, resetting' => wasReset',
         \A c \in Booked : Total(c)' = Total(c),
         Open(Step("judge", "Success"))' = Open(Step("judge", "Success")),
         Open(Step("judge", "ErrInterrupt"))' = Open(Step("judge", "ErrInterrupt")),
         \/ wasReset'
         \/ wasReset' = wasReset /\ \A c \in OpenerCounters : Total(c)' = Total(c)
  PROVE  BooksKept'
<1>1. ASSUME logic' = "hystrix", ~wasReset'
      PROVE  /\ Total("errors")' = Total("ErrFailure")' + Total("ErrTimeout")'
             /\ Total("attempts")' = Total("errors")' + Total("Success")'
  BY <1>1, CounterNames DEF BooksKept
<1>2. QED
  BY <1>1, CounterNames DEF BooksKept

(* A goroutine is given steps that tell the collectors the same.           *)
LEMMA SameTelling ==
  ASSUME TypeOK, NEW g \in Goroutines, NEW t \in Seq(Steps), todo' = [todo EXCEPT ![g] = t],
         \A a : a.do \in {"inc", "judge"} => (a \in Range(t) <=> a \in Range(todo[g]))
  PROVE  /\ \A c : Open(Inc(c))' = Open(Inc(c))
         /\ \A v : Open(Step("judge", v))' = Open(Step("judge", v))
<1>1. \A c : Inc(c).do = "inc" /\ Step("judge", c).do = "judge"
  BY DEF Inc, Step
<1>2. ASSUME NEW c PROVE Open(Inc(c))' = Open(Inc(c))
  <2>1. PICK a : a = Inc(c)
    OBVIOUS
  <2>2. a \in Range(t) <=> a \in Range(todo[g])
    BY <1>1, <2>1
  <2>3. Open(a)' = Open(a)
    BY <2>2, OpenMoves
  <2>4. QED
    BY <2>1, <2>3 DEF Inc, Step, Open, Owes
<1>3. ASSUME NEW v PROVE Open(Step("judge", v))' = Open(Step("judge", v))
  <2>1. PICK a : a = Step("judge", v)
    OBVIOUS
  <2>2. a \in Range(t) <=> a \in Range(todo[g])
    BY <1>1, <2>1
  <2>3. Open(a)' = Open(a)
    BY <2>2, OpenMoves
  <2>4. QED
    BY <2>1, <2>3 DEF Step, Open, Owes
<1>4. QED
  BY <1>2, <1>3

(* A step that asks or returns, and one that is left of the question.      *)
LEMMA AskingTells ==
  ASSUME TypeOK, TodoOnce, NEW g \in Goroutines, NEW do, Does(g, do),
         do \notin {"inc", "judge"}, Rest(g)
  PROVE  /\ \A c : Open(Inc(c))' = Open(Inc(c))
         /\ \A v : Open(Step("judge", v))' = Open(Step("judge", v))
<1>1. /\ todo[g] \in Seq(Steps) /\ todo[g] # <<>> /\ Head(todo[g]).do = do /\ Once(todo[g])
  BY AtStep DEF Does, TodoOnce
<1>2. Tail(todo[g]) \in Seq(Steps) /\ Range(todo[g]) = {Head(todo[g])} \cup Range(Tail(todo[g]))
  BY <1>1, OnceTail
<1>3. todo' = [todo EXCEPT ![g] = Tail(todo[g])]
  BY DEF Rest
<1>4. \A a : a.do \in {"inc", "judge"} => (a \in Range(Tail(todo[g])) <=> a \in Range(todo[g]))
  BY <1>1, <1>2
<1>5. QED
  BY <1>2, <1>3, <1>4, SameTelling

(* Nothing is told after a question.                                       *)
LEMMA NothingToldAfter ==
  ASSUME NEW t \in Seq(Steps), t # <<>>, Once(t), Head(t).do \in {"first", "get"}
  PROVE  \A a \in Range(t) : a.do \notin {"inc", "judge"}
<1>1. Place(Head(t)) = 6
  BY DEF Place
<1>2. \A a : a.do \in {"inc", "judge"} => Place(a) \in 1 .. 5
  BY DEF Place
<1>3. ASSUME NEW a \in Range(Tail(t)), a.do \in {"inc", "judge"} PROVE FALSE
  <2>1. Place(a) \in 1 .. 5
    BY <1>2, <1>3
  <2>2. 6 < Place(a)
    BY <1>1, <1>3, <2>1, OnceTail
  <2>3. QED
    BY <2>1, <2>2
<1>4. QED
  BY <1>3, OnceTail

(* What a verdict adds to the totals.                                      *)
LEMMA ReportAdds ==
  ASSUME TypeOK, NEW g \in Goroutines, NEW v \in Verdicts, NEW d \in Durations, Report(g, v, d)
  PROVE  /\ \A c \in Counters :
              Total(c)' = Total(c) + IF Inc(c) \in Told(v) THEN 1 ELSE 0
         /\ \A w : Open(Step("judge", w))' =
                     Open(Step("judge", w)) + IF Step("judge", w) \in Told(v) THEN 1 ELSE 0
<1>1. /\ todo[g] = <<>> /\ todo' = [todo EXCEPT ![g] = ReportSteps(v)] /\ count' = count
  BY DEF Report, ReportSteps
<1>2. /\ ReportSteps(v) \in Seq(Steps)
      /\ \A a : a.do \in {"inc", "judge"} => (a \in Range(ReportSteps(v)) <=> a \in Told(v))
  BY ReportTells DEF TypeOK
<1>3. Range(todo[g]) = {}
  BY <1>1, ShortRanges
<1>4. ASSUME NEW a, a.do \in {"inc", "judge"}
      PROVE  Open(a)' = Open(a) + IF a \in Told(v) THEN 1 ELSE 0
  <2>1. /\ Open(a) \in Nat
        /\ a \in Range(ReportSteps(v)) => Open(a)' = Open(a) + 1
        /\ a \notin Range(ReportSteps(v)) => Open(a)' = Open(a)
    BY <1>1, <1>2, <1>3, OpenMoves
  <2>2. QED
    BY <1>2, <1>4, <2>1
<1>5. ASSUME NEW c \in Counters PROVE Total(c)' = Total(c) + IF Inc(c) \in Told(v) THEN 1 ELSE 0
  <2>1. PICK a : a = Inc(c)
    OBVIOUS
  <2>2. a.do = "inc"
    BY <2>1 DEF Inc, Step
  <2>3. Open(a)' = Open(a) + IF a \in Told(v) THEN 1 ELSE 0
    BY <1>4, <2>2
  <2>4. Open(Inc(c))' = Open(a)' /\ Open(Inc(c)) = Open(a)
    BY <2>1 DEF Inc, Step, Open, Owes
  <2>5. Total(c)' = count[c] + Open(a)' /\ Total(c) = count[c] + Open(a)
    BY <1>1, <2>4 DEF Total
  <2>6. count[c] \in Nat /\ Open(a) \in Nat
    BY TotalsAreNumbers DEF TypeOK
  <2>7. QED
    BY <2>1, <2>3, <2>5, <2>6
<1>6. ASSUME NEW w
      PROVE  Open(Step("judge", w))' =
               Open(Step("judge", w)) + IF Step("judge", w) \in Told(v) THEN 1 ELSE 0
  <2>1. PICK a : a = Step("judge", w)
    OBVIOUS
  <2>2. a.do = "judge"
    BY <2>1 DEF Step
  <2>3. Open(a)' = Open(a) + IF a \in Told(v) THEN 1 ELSE 0
    BY <1>4, <2>2
  <2>4. Open(Step("judge", w))' = Open(a)'
    BY <2>1 DEF Step, Open, Owes
  <2>5. QED
    BY <2>1, <2>3, <2>4
<1>7. QED
  BY <1>5, <1>6

(* Which counters a verdict is told to.                                    *)
LEMMA ToldCounters ==
  ASSUME NEW v \in Verdicts
  PROVE  /\ \A c \in Verdicts : Inc(c) \in Told(v) <=> c = v
         /\ Inc("Latencies") \in Told(v) <=> v \in Timed
         /\ Inc("MeetsSLO") \notin Told(v)
         /\ Inc("FailsSLO") \in Told(v) <=> v \notin {"Success", "ErrInterrupt", "ErrBadRequest"}
         /\ Step("judge", "Success") \in Told(v) <=> v = "Success"
         /\ Step("judge", "ErrInterrupt") \in Told(v) <=> v = "ErrInterrupt"
         /\ logic = "hystrix" =>
              /\ Inc("attempts") \in Told(v) <=> v \in Failures \cup {"Success"}
              /\ Inc("errors") \in Told(v) <=> v \in Failures
<1>1. \A c, d : /\ Inc(c) = Inc(d) <=> c = d
                /\ Inc(c) # Step("judge", d) /\ Inc(c) # Step("load", d)
                /\ Step("judge", c) = Step("judge", d) <=> c = d
                /\ Step("judge", c) # Step("load", d)
  BY DEF Inc, Step
<1>2. v \in Failures => v # "Success"
  BY DEF Failures
<1>3. {"attempts", "errors", "consecutive", "Latencies", "FailsSLO", "MeetsSLO"} \cap Verdicts = {}
  BY DEF Verdicts, Timed, Failures
<1>4. \A c \in Verdicts : Inc(c) \in Told(v) <=> c = v
  BY <1>1, <1>3 DEF Told
<1>5. /\ Inc("Latencies") \in Told(v) <=> v \in Timed
      /\ Inc("MeetsSLO") \notin Told(v)
  BY <1>1, <1>3 DEF Told
<1>6. Inc("FailsSLO") \in Told(v) <=> v \notin {"Success", "ErrInterrupt", "ErrBadRequest"}
  BY <1>1, <1>3 DEF Told
<1>7. /\ Step("judge", "Success") \in Told(v) <=> v = "Success"
      /\ Step("judge", "ErrInterrupt") \in Told(v) <=> v = "ErrInterrupt"
  BY <1>1, <1>3 DEF Told
<1>8. ASSUME logic = "hystrix"
      PROVE  /\ Inc("attempts") \in Told(v) <=> v \in Failures \cup {"Success"}
             /\ Inc("errors") \in Told(v) <=> v \in Failures
  BY <1>1, <1>2, <1>3, <1>8 DEF Told
<1>9. QED
  BY <1>4, <1>5, <1>6, <1>7, <1>8

(* A verdict is told.                                                      *)
LEMMA ReportBooks ==
  ASSUME TypeOK, BooksKept, NEW g \in Goroutines, NEW v \in Verdicts, NEW d \in Durations,
         Report(g, v, d)
  PROVE  BooksKept'
<1> DEFINE js == Step("judge", "Success")
           ji == Step("judge", "ErrInterrupt")
<1>1. calls' = calls + 1 /\ UNCHANGED <<logic, resetting, wasReset, excused>> /\ excused \in Nat
  BY DEF Report, TypeOK
<1>2. /\ \A c \in Booked : Total(c) \in Nat /\ Total(c)' = Total(c) + IF Inc(c) \in Told(v) THEN 1 ELSE 0
      /\ \A c \in OpenerCounters :
           Total(c) \in Nat /\ Total(c)' = Total(c) + IF Inc(c) \in Told(v) THEN 1 ELSE 0
      /\ Open(js) \in Nat /\ Open(js)' = Open(js) + IF js \in Told(v) THEN 1 ELSE 0
      /\ Open(ji) \in Nat /\ Open(ji)' = Open(ji) + IF ji \in Told(v) THEN 1 ELSE 0
  BY ReportAdds, TotalsAreNumbers, CounterNames
<1>3. /\ Total("Success")' = Total("Success") + IF v = "Success" THEN 1 ELSE 0
      /\ Total("ErrFailure")' = Total("ErrFailure") + IF v = "ErrFailure" THEN 1 ELSE 0
      /\ Total("ErrTimeout")' = Total("ErrTimeout") + IF v = "ErrTimeout" THEN 1 ELSE 0
      /\ Total("ErrBadRequest")' = Total("ErrBadRequest") + IF v = "ErrBadRequest" THEN 1 ELSE 0
      /\ Total("ErrInterrupt")' = Total("ErrInterrupt") + IF v = "ErrInterrupt" THEN 1 ELSE 0
      /\ Total("ErrConcurrencyLimitReject")' =
           Total("ErrConcurrencyLimitReject") + IF v = "ErrConcurrencyLimitReject" THEN 1 ELSE 0
      /\ Total("ErrShortCircuit")' = Total("ErrShortCircuit") + IF v = "ErrShortCircuit" THEN 1 ELSE 0
  <2>1. {"Success", "ErrFailure", "ErrTimeout", "ErrBadRequest", "ErrInterrupt",
         "ErrConcurrencyLimitReject", "ErrShortCircuit"} \subseteq Verdicts \cap Booked
    BY DEF Booked, Verdicts, Timed, Failures
  <2>2. \A c \in Verdicts \cap Booked : Total(c)' = Total(c) + IF c = v THEN 1 ELSE 0
    BY <1>2, ToldCounters
  <2>3. QED
    BY <2>1, <2>2
<1>4. /\ Total("Latencies")' = Total("Latencies") + IF v \in Timed THEN 1 ELSE 0
      /\ Total("MeetsSLO")' = Total("MeetsSLO")
      /\ Total("FailsSLO")' =
           Total("FailsSLO") + IF v \notin {"Success", "ErrInterrupt", "ErrBadRequest"} THEN 1 ELSE 0
      /\ Open(js)' = Open(js) + IF v = "Success" THEN 1 ELSE 0
      /\ Open(ji)' = Open(ji) + IF v = "ErrInterrupt" THEN 1 ELSE 0
  BY <1>2, ToldCounters, CounterNames
<1>5. logic = "hystrix" =>
        /\ Total("attempts")' = Total("attempts") + IF v \in Failures \cup {"Success"} THEN 1 ELSE 0
        /\ Total("errors")' = Total("errors") + IF v \in Failures THEN 1 ELSE 0
  BY <1>2, ToldCounters, CounterNames
<1>6. v \in Timed <=> v \notin {"ErrConcurrencyLimitReject", "ErrShortCircuit"}
  BY DEF Verdicts, Timed, Failures
<1>7. v \in Failures <=> v = "ErrFailure" \/ v = "ErrTimeout"
  BY DEF Failures
<1>8. v \in {"Success", "ErrFailure", "ErrTimeout", "ErrBadRequest", "ErrInterrupt",
             "ErrConcurrencyLimitReject", "ErrShortCircuit"}
  BY DEF Verdicts, Timed, Failures
<1>9. /\ calls \in Nat /\ Total("Success") \in Nat /\ Total("ErrFailure") \in Nat
      /\ Total("ErrTimeout") \in Nat /\ Total("ErrBadRequest") \in Nat
      /\ Total("ErrInterrupt") \in Nat /\ Total("ErrConcurrencyLimitReject") \in Nat
      /\ Total("ErrShortCircuit") \in Nat /\ Total("Latencies") \in Nat
      /\ Total("MeetsSLO") \in Nat /\ Total("FailsSLO") \in Nat
      /\ Open(js) \in Nat /\ Open(ji) \in Nat
      /\ Total("attempts") \in Nat /\ Total("errors") \in Nat
  BY <1>2, CounterNames DEF BooksKept
<1>10. ASSUME logic = "hystrix", ~wasReset
       PROVE  /\ Total("errors")' = Total("ErrFailure")' + Total("ErrTimeout")'
              /\ Total("attempts")' = Total("errors")' + Total("Success")'
  <2>1. /\ Total("errors") = Total("ErrFailure") + Total("ErrTimeout")
        /\ Total("attempts") = Total("errors") + Total("Success")
    BY <1>10 DEF BooksKept
  <2>2. QED
    BY <1>3, <1>5, <1>7, <1>9, <1>10, <2>1
<1>11. calls' = Total("Latencies")' + Total("ErrConcurrencyLimitReject")' + Total("ErrShortCircuit")'
  <2>1. calls = Total("Latencies") + Total("ErrConcurrencyLimitReject") + Total("ErrShortCircuit")
    BY DEF BooksKept
  <2>2. QED
    BY <1>1, <1>3, <1>4, <1>6, <1>9, <2>1
<1>12. calls' = Total("MeetsSLO")' + Total("FailsSLO")' + Open(js)' + Open(ji)'
                  + Total("ErrBadRequest")' + excused'
  <2>1. calls = Total("MeetsSLO") + Total("FailsSLO") + Open(js) + Open(ji)
                  + Total("ErrBadRequest") + excused
    BY DEF BooksKept
  <2>2. QED
    BY <1>1, <1>3, <1>4, <1>8, <1>9, <2>1
<1>13. Open(ji)' + excused' <= Total("ErrInterrupt")'
  <2>1. Open(ji) + excused <= Total("ErrInterrupt")
    BY DEF BooksKept
  <2>2. QED
    BY <1>1, <1>3, <1>4, <1>9, <2>1
<1>14. Total("MeetsSLO")' + Open(js)' <= Total("Success")'
  <2>1. Total("MeetsSLO") + Open(js) <= Total("Success")
    BY DEF BooksKept
  <2>2. QED
    BY <1>3, <1>4, <1>9, <2>1
<1>15. calls' \in Nat /\ (resetting' => wasReset')
  BY <1>1, <1>9 DEF BooksKept
<1>16. QED
  BY <1>1, <1>10, <1>11, <1>12, <1>13, <1>14, <1>15 DEF BooksKept

(* A judgement is made: it becomes one of the two counters, or an early    *)
(* interrupt is excused.                                                   *)
LEMMA JudgeBooks ==
  ASSUME TypeOK, TodoOnce, BooksKept, NEW g \in Goroutines, Judge(g)
  PROVE  BooksKept'
<1> DEFINE js == Step("judge", "Success")
           ji == Step("judge", "ErrInterrupt")
           h == Head(todo[g])
           u == Tail(todo[g])
<1>1. /\ Does(g, "judge") /\ UNCHANGED <<logic, count, resetting, calls, wasReset>>
      /\ \/ On(g) = "ErrInterrupt" /\ Rest(g) /\ excused' = excused + 1
         \/ On(g) # "ErrInterrupt" /\ Instead(g, Inc("MeetsSLO")) /\ excused' = excused
         \/ Instead(g, Inc("FailsSLO")) /\ excused' = excused
      /\ excused \in Nat
  BY DEF Judge, TypeOK
<1>2. /\ todo[g] \in Seq(Steps) /\ todo[g] # <<>> /\ Once(todo[g])
      /\ h = Step("judge", On(g)) /\ On(g) \in {"Success", "ErrInterrupt"} /\ Place(h) = 5
  <2>1. /\ todo[g] \in Seq(Steps) /\ todo[g] # <<>> /\ h \in Steps
        /\ h = Step("judge", On(g)) /\ h.do = "judge" /\ h.on = On(g)
    BY <1>1, AtStep DEF Does, On
  <2>2. h.on \in {"Success", "ErrInterrupt"}
    BY <2>1, StepKinds
  <2>3. QED
    BY <2>1, <2>2, Places DEF TodoOnce
<1>3. /\ u \in Seq(Steps) /\ Range(todo[g]) = {h} \cup Range(u)
      /\ \A a \in Range(u) : Place(a) # 6 => Place(a) # 5
  BY <1>2, OnceTail
<1>4. /\ Inc("MeetsSLO") \in Steps /\ Inc("FailsSLO") \in Steps
      /\ Place(Inc("MeetsSLO")) = 5 /\ Place(Inc("FailsSLO")) = 5
      /\ Place(js) = 5 /\ Place(ji) = 5
  BY Places, KindsOfSteps DEF Counters
<1>5. /\ Inc("MeetsSLO") \notin Range(u) /\ Inc("FailsSLO") \notin Range(u)
      /\ js \notin Range(u) /\ ji \notin Range(u)
  BY <1>3, <1>4
<1>6. \A c, e : /\ Inc(c) = Inc(e) <=> c = e
                /\ Inc(c) # Step("judge", e)
                /\ Step("judge", c) = Step("judge", e) <=> c = e
  BY DEF Inc, Step
<1> HIDE DEF h, u
<1>7. ASSUME NEW t \in Seq(Steps), todo' = [todo EXCEPT ![g] = t], NEW new,
             Range(t) = new \cup Range(u),
             \A c \in Counters \ {"MeetsSLO", "FailsSLO"} : Inc(c) \notin new
      PROVE  /\ \A c \in Counters \ {"MeetsSLO", "FailsSLO"} : Total(c)' = Total(c)
             /\ \A c \in {"MeetsSLO", "FailsSLO"} :
                  Total(c)' = Total(c) + IF Inc(c) \in new THEN 1 ELSE 0
             /\ js \notin new => Open(js)' = Open(js) - IF h = js THEN 1 ELSE 0
             /\ ji \notin new => Open(ji)' = Open(ji) - IF h = ji THEN 1 ELSE 0
  <2>1. ASSUME NEW c \in Counters
        PROVE  /\ c \notin {"MeetsSLO", "FailsSLO"} => Open(Inc(c))' = Open(Inc(c))
               /\ c \in {"MeetsSLO", "FailsSLO"} =>
                    Open(Inc(c))' = Open(Inc(c)) + IF Inc(c) \in new THEN 1 ELSE 0
    <3>1. PICK a : a = Inc(c)
      OBVIOUS
    <3>2. a # h
      BY <1>2, <1>6, <3>1
    <3>3. /\ Open(a) \in Nat
          /\ (a \in Range(t) <=> a \in Range(todo[g])) => Open(a)' = Open(a)
          /\ a \in Range(t) /\ a \notin Range(todo[g]) => Open(a)' = Open(a) + 1
      BY <1>7, OpenMoves
    <3>4. c \notin {"MeetsSLO", "FailsSLO"} => a \notin new
      BY <1>7, <3>1
    <3>5. c \in {"MeetsSLO", "FailsSLO"} => a \notin Range(u)
      BY <1>5, <3>1
    <3>6. /\ c \notin {"MeetsSLO", "FailsSLO"} => Open(a)' = Open(a)
          /\ c \in {"MeetsSLO", "FailsSLO"} =>
               Open(a)' = Open(a) + IF a \in new THEN 1 ELSE 0
      BY <1>3, <1>7, <3>2, <3>3, <3>4, <3>5
    <3>7. Open(Inc(c))' = Open(a)'
      BY <3>1 DEF Inc, Step, Open, Owes
    <3>8. QED
      BY <3>1, <3>6, <3>7
  <2>2. ASSUME NEW w \in {"Success", "ErrInterrupt"}, Step("judge", w) \notin new
        PROVE  Open(Step("judge", w))' =
                 Open(Step("judge", w)) - IF h = Step("judge", w) THEN 1 ELSE 0
    <3>1. PICK a : a = Step("judge", w)
      OBVIOUS
    <3>2. /\ Open(a) \in Nat
          /\ (a \in Range(t) <=> a \in Range(todo[g])) => Open(a)' = Open(a)
          /\ a \notin Range(t) /\ a \in Range(todo[g]) => Open(a)' = Open(a) - 1
      BY <1>7, OpenMoves
    <3>3. a \notin Range(t) /\ (a \in Range(todo[g]) <=> a = h)
      BY <1>3, <1>5, <1>7, <2>2, <3>1
    <3>4. Open(a)' = Open(a) - IF h = a THEN 1 ELSE 0
      BY <3>2, <3>3
    <3>5. Open(Step("judge", w))' = Open(a)'
      BY <3>1 DEF Step, Open, Owes
    <3>6. QED
      BY <3>1, <3>4, <3>5
  <2>3. \A c \in Counters : count[c] \in Nat /\ Open(Inc(c)) \in Nat
    BY TotalsAreNumbers DEF TypeOK
  <2>4. "MeetsSLO" \in Counters /\ "FailsSLO" \in Counters
    BY DEF Counters
  <2>5. \A c \in {"MeetsSLO", "FailsSLO"} :
          Total(c)' = Total(c) + IF Inc(c) \in new THEN 1 ELSE 0
    BY <1>1, <2>1, <2>3, <2>4 DEF Total
  <2>6. \A c \in Counters \ {"MeetsSLO", "FailsSLO"} : Total(c)' = Total(c)
    BY <1>1, <2>1, <2>3 DEF Total
  <2>7. QED
    BY <2>2, <2>5, <2>6
<1>8. /\ \A c \in Counters \ {"MeetsSLO", "FailsSLO"} : Total(c)' = Total(c)
      /\ \/ /\ Total("MeetsSLO")' = Total("MeetsSLO") /\ Total("FailsSLO")' = Total("FailsSLO")
            /\ Open(js)' = Open(js) /\ Open(ji)' = Open(ji) - 1 /\ excused' = excused + 1
         \/ /\ Total("MeetsSLO")' = Total("MeetsSLO") + 1 /\ Total("FailsSLO")' = Total("FailsSLO")
            /\ Open(js)' = Open(js) - 1 /\ Open(ji)' = Open(ji) /\ excused' = excused
         \/ /\ Total("MeetsSLO")' = Total("MeetsSLO") /\ Total("FailsSLO")' = Total("FailsSLO") + 1
            /\ excused' = excused
            /\ \/ Open(js)' = Open(js) - 1 /\ Open(ji)' = Open(ji)
               \/ Open(js)' = Open(js) /\ Open(ji)' = Open(ji) - 1
  <2>1. /\ \A c \in Counters : Total(c) \in Nat
        /\ Open(js) \in Nat /\ Open(ji) \in Nat
        /\ "MeetsSLO" \in Counters /\ "FailsSLO" \in Counters
        /\ js # ji /\ (h = js \/ h = ji) /\ (On(g) # "ErrInterrupt" => h = js)
        /\ (On(g) = "ErrInterrupt" => h = ji)
    BY <1>2, <1>6, TotalsAreNumbers DEF Counters
  <2>2. CASE On(g) = "ErrInterrupt" /\ Rest(g) /\ excused' = excused + 1
    <3>1. todo' = [todo EXCEPT ![g] = u] /\ Range(u) = {} \cup Range(u)
      BY <2>2 DEF Rest, u
    <3>2. /\ \A c \in Counters \ {"MeetsSLO", "FailsSLO"} : Total(c)' = Total(c)
          /\ \A c \in {"MeetsSLO", "FailsSLO"} : Total(c)' = Total(c) + 0
          /\ Open(js)' = Open(js) - IF h = js THEN 1 ELSE 0
          /\ Open(ji)' = Open(ji) - IF h = ji THEN 1 ELSE 0
      <4>1. PICK new : new = {}
        OBVIOUS
      <4>2. Range(u) = new \cup Range(u) /\ \A a : a \notin new
        BY <4>1
      <4>3. QED
        BY <1>3, <1>7, <3>1, <4>2
    <3>3. QED
      BY <2>1, <2>2, <3>2
  <2>3. ASSUME NEW c \in {"MeetsSLO", "FailsSLO"}, Instead(g, Inc(c))
        PROVE  /\ \A k \in Counters \ {"MeetsSLO", "FailsSLO"} : Total(k)' = Total(k)
               /\ \A k \in {"MeetsSLO", "FailsSLO"} :
                    Total(k)' = Total(k) + IF k = c THEN 1 ELSE 0
               /\ Open(js)' = Open(js) - IF h = js THEN 1 ELSE 0
               /\ Open(ji)' = Open(ji) - IF h = ji THEN 1 ELSE 0
    <3>1. PICK t : t = <<Inc(c)>> \o u
      OBVIOUS
    <3>2. PICK new : new = {Inc(c)}
      OBVIOUS
    <3>3. todo' = [todo EXCEPT ![g] = t]
      BY <2>3, <3>1 DEF Instead, u
    <3>4. Inc(c) \in Steps /\ Place(Inc(c)) = Place(Head(todo[g]))
      BY <1>2, <1>4 DEF h
    <3>5. t \in Seq(Steps) /\ Range(t) = new \cup Range(u)
      BY <1>2, <3>1, <3>2, <3>4, OnceInstead DEF u
    <3>6. /\ \A k : Inc(k) \in new <=> k = c
          /\ js \notin new /\ ji \notin new
      BY <1>6, <3>2
    <3>7. \A k \in Counters \ {"MeetsSLO", "FailsSLO"} : Inc(k) \notin new
      BY <3>6
    <3>8. QED
      BY <1>7, <3>3, <3>5, <3>6, <3>7
  <2>4. CASE On(g) # "ErrInterrupt" /\ Instead(g, Inc("MeetsSLO")) /\ excused' = excused
    BY <2>1, <2>3, <2>4
  <2>5. CASE Instead(g, Inc("FailsSLO")) /\ excused' = excused
    BY <2>1, <2>3, <2>5
  <2>6. QED
    BY <1>1, <2>2, <2>4, <2>5
<1>9. /\ calls \in Nat /\ Total("Success") \in Nat /\ Total("ErrBadRequest") \in Nat
      /\ Total("ErrInterrupt") \in Nat /\ Total("MeetsSLO") \in Nat /\ Total("FailsSLO") \in Nat
      /\ Open(js) \in Nat /\ Open(ji) \in Nat
  BY TotalsAreNumbers DEF BooksKept, Counters, Verdicts, Timed
<1>10. /\ Total("Success")' = Total("Success") /\ Total("ErrBadRequest")' = Total("ErrBadRequest")
       /\ Total("ErrInterrupt")' = Total("ErrInterrupt") /\ Total("attempts")' = Total("attempts")
       /\ Total("errors")' = Total("errors") /\ Total("ErrFailure")' = Total("ErrFailure")
       /\ Total("ErrTimeout")' = Total("ErrTimeout") /\ Total("Latencies")' = Total("Latencies")
       /\ Total("ErrConcurrencyLimitReject")' = Total("ErrConcurrencyLimitReject")
       /\ Total("ErrShortCircuit")' = Total("ErrShortCircuit")
  BY <1>8 DEF Counters, Verdicts, Timed, Failures
<1>11. calls = Total("MeetsSLO")' + Total("FailsSLO")' + Open(js)' + Open(ji)'
                 + Total("ErrBadRequest")' + excused'
  <2>1. calls = Total("MeetsSLO") + Total("FailsSLO") + Open(js) + Open(ji)
                  + Total("ErrBadRequest") + excused
    BY DEF BooksKept
  <2>2. QED
    BY <1>1, <1>8, <1>9, <1>10, <2>1
<1>12. Open(ji)' + excused' <= Total("ErrInterrupt")'
  <2>1. Open(ji) + excused <= Total("ErrInterrupt")
    BY DEF BooksKept
  <2>2. QED
    BY <1>1, <1>8, <1>9, <1>10, <2>1
<1>13. Total("MeetsSLO")' + Open(js)' <= Total("Success")'
  <2>1. Total("MeetsSLO") + Open(js) <= Total("Success")
    BY DEF BooksKept
  <2>2. QED
    BY <1>8, <1>9, <1>10, <2>1
<1>14. QED
  BY <1>1, <1>10, <1>11, <1>12, <1>13 DEF BooksKept

(* Every step keeps the books.                                             *)
LEMMA BooksStep ==
  ASSUME TypeOK, TodoOnce, BooksKept, [Next]_vars
  PROVE  BooksKept'
<1> DEFINE js == Step("judge", "Success")
           ji == Step("judge", "ErrInterrupt")
           Same == /\ \A c : Open(Inc(c))' = Open(Inc(c))
                   /\ Open(js)' = Open(js) /\ Open(ji)' = Open(ji)
<1>t. /\ todo \in [Goroutines -> Seq(Steps)] /\ count \in [Counters -> Nat]
      /\ \A c \in Counters : count[c] \in Nat /\ Open(Inc(c)) \in Nat
      /\ resetting \in BOOLEAN
  BY TotalsAreNumbers DEF TypeOK
<1>u. UNCHANGED todo => Same
  BY DEF Open, Owes, Inc, Step
<1> HIDE DEF Same
<1>f. ASSUME Same, UNCHANGED <<logic, calls, resetting, wasReset, excused>>,
             \A c \in Booked \cup OpenerCounters : count'[c] = count[c]
      PROVE  BooksKept'
  <2>1. \A c \in Booked \cup OpenerCounters : Total(c)' = Total(c)
    BY <1>f DEF Total, Same
  <2>2. Open(js)' = Open(js) /\ Open(ji)' = Open(ji)
    BY <1>f DEF Same
  <2>3. resetting' => wasReset'
    BY <1>f DEF BooksKept
  <2>4. QED
    BY <1>f, <2>1, <2>2, <2>3, BooksFrame
<1>2. ASSUME NEW g \in Goroutines, ErrorPercentageAt(g) PROVE BooksKept'
  <2>1. /\ todo' = [todo EXCEPT ![g] = PercentageSteps] /\ todo[g] = <<>>
        /\ UNCHANGED <<logic, count, resetting, calls, wasReset, excused>>
    BY <1>2 DEF ErrorPercentageAt, PercentageSteps
  <2>2. \A a : a.do \in {"inc", "judge"} =>
          (a \in Range(PercentageSteps) <=> a \in Range(todo[g]))
    BY <2>1, QuestionsTell, ShortRanges
  <2>3. Same
    BY <2>1, <2>2, SameTelling, PercentageInOrder DEF Same
  <2>4. QED
    BY <1>f, <2>1, <2>3
<1>3. ASSUME NEW g \in Goroutines, DoInc(g) PROVE BooksKept'
  <2>1. /\ Does(g, "inc") /\ Rest(g) /\ count' = [count EXCEPT ![On(g)] = count[On(g)] + 1]
        /\ UNCHANGED <<logic, resetting, calls, wasReset, excused>>
    BY <1>3 DEF DoInc
  <2>2. /\ todo[g] \in Seq(Steps) /\ todo[g] # <<>> /\ Head(todo[g]) = Inc(On(g))
        /\ On(g) \in Counters /\ Once(todo[g])
    BY <2>1, AtStep DEF Inc, TodoOnce
  <2> DEFINE u == Tail(todo[g])
  <2>3. /\ u \in Seq(Steps) /\ Range(todo[g]) = {Inc(On(g))} \cup Range(u)
        /\ \A a \in Range(u) : Place(a) # 6 => Place(Inc(On(g))) < Place(a)
    BY <2>2, OnceTail
  <2>4. todo' = [todo EXCEPT ![g] = u]
    BY <2>1 DEF Rest
  <2> HIDE DEF u
  <2>5. Inc(On(g)) \notin Range(u)
    <3>1. Place(Inc(On(g))) \in 1 .. 5
      BY DEF Place, Inc, Step
    <3>2. QED
      BY <2>3, <3>1
  <2>6. ASSUME NEW c \in Counters PROVE Total(c)' = Total(c)
    <3>1. PICK a : a = Inc(c)
      OBVIOUS
    <3>2. a = Inc(On(g)) <=> c = On(g)
      BY <3>1 DEF Inc, Step
    <3>3. /\ Open(a) \in Nat
          /\ (a \in Range(u) <=> a \in Range(todo[g])) => Open(a)' = Open(a)
          /\ a \notin Range(u) /\ a \in Range(todo[g]) => Open(a)' = Open(a) - 1
      BY <2>3, <2>4, OpenMoves
    <3>4. Open(a)' = Open(a) - IF c = On(g) THEN 1 ELSE 0
      BY <2>3, <2>5, <3>2, <3>3
    <3>5. count'[c] = count[c] + IF c = On(g) THEN 1 ELSE 0
      BY <1>t, <2>1, <2>2
    <3>6. Open(Inc(c))' = Open(a)' /\ Open(Inc(c)) = Open(a)
      BY <3>1 DEF Inc, Step, Open, Owes
    <3>7. Total(c)' = count'[c] + Open(a)' /\ Total(c) = count[c] + Open(a)
      BY <3>6 DEF Total
    <3>8. QED
      BY <1>t, <3>3, <3>4, <3>5, <3>7
  <2>7. ASSUME NEW w PROVE Open(Step("judge", w))' = Open(Step("judge", w))
    <3>1. PICK a : a = Step("judge", w)
      OBVIOUS
    <3>2. a # Inc(On(g))
      BY <3>1 DEF Inc, Step
    <3>3. a \in Range(u) <=> a \in Range(todo[g])
      BY <2>3, <3>2
    <3>4. Open(a)' = Open(a)
      BY <2>3, <2>4, <3>3, OpenMoves
    <3>5. QED
      BY <3>1, <3>4 DEF Step, Open, Owes
  <2>8. resetting' => wasReset'
    BY <2>1 DEF BooksKept
  <2>9. \A c \in Booked \cup OpenerCounters : Total(c)' = Total(c)
    BY <2>6, CounterNames
  <2>10. QED
    BY <2>1, <2>7, <2>8, <2>9, BooksFrame
<1>4. ASSUME NEW g \in Goroutines, NEW do \in {"load", "zero", "streak", "first", "second", "get", "return"},
             Does(g, do), Rest(g)
      PROVE  Same
  BY <1>4, AskingTells DEF Same
<1>5. ASSUME NEW g \in Goroutines, LoadStreak(g) PROVE BooksKept'
  <2>1. /\ Does(g, "load") /\ UNCHANGED <<logic, count, resetting, calls, wasReset, excused>>
        /\ Rest(g) \/ Instead(g, Step("zero", "consecutive"))
    BY <1>5 DEF LoadStreak
  <2>2. ASSUME Instead(g, Step("zero", "consecutive")) PROVE Same
    <3>1. PICK z : z = Step("zero", "consecutive")
      OBVIOUS
    <3>2. PICK t : t = <<z>> \o Tail(todo[g])
      OBVIOUS
    <3>3. /\ todo[g] \in Seq(Steps) /\ todo[g] # <<>> /\ Head(todo[g]) = Step("load", On(g))
          /\ Once(todo[g]) /\ Place(Head(todo[g])) = Place(z) /\ z \in Steps
      BY <2>1, <3>1, AtStep, Places, KindsOfSteps DEF TodoOnce
    <3>4. t \in Seq(Steps) /\ Range(t) = {z} \cup Range(Tail(todo[g]))
      BY <3>2, <3>3, OnceInstead
    <3>5. Range(todo[g]) = {Head(todo[g])} \cup Range(Tail(todo[g]))
      BY <3>3, OnceTail
    <3>6. z.do = "zero" /\ Head(todo[g]).do = "load"
      BY <3>1, <3>3 DEF Step
    <3>7. \A a : a.do \in {"inc", "judge"} => (a \in Range(t) <=> a \in Range(todo[g]))
      BY <3>4, <3>5, <3>6
    <3>8. todo' = [todo EXCEPT ![g] = t]
      BY <2>2, <3>1, <3>2 DEF Instead
    <3>9. QED
      BY <3>4, <3>7, <3>8, SameTelling DEF Same
  <2>3. QED
    BY <1>4, <1>f, <2>1, <2>2
<1>6. ASSUME NEW g \in Goroutines, ZeroStreak(g) PROVE BooksKept'
  <2>1. /\ Does(g, "zero") /\ Rest(g) /\ UNCHANGED <<logic, resetting, calls, wasReset, excused>>
        /\ count' = [count EXCEPT !["consecutive"] = 0]
    BY <1>6 DEF ZeroStreak
  <2>2. \A c \in Booked \cup OpenerCounters : count'[c] = count[c]
    BY <1>t, <2>1, CounterNames
  <2>3. QED
    BY <1>4, <1>f, <2>1, <2>2
<1>7. ASSUME NEW g \in Goroutines, ReadStreak(g) \/ ReadErrors(g) \/ DoReturn(g) PROVE BooksKept'
  <2>1. /\ Rest(g) /\ UNCHANGED <<logic, count, resetting, calls, wasReset, excused>>
        /\ Does(g, "streak") \/ Does(g, "second") \/ Does(g, "return")
    BY <1>7 DEF ReadStreak, ReadErrors, DoReturn, history
  <2>2. QED
    BY <1>4, <1>f, <2>1
<1>8. ASSUME NEW g \in Goroutines, ReadAttempts(g) \/ GetThreshold(g) PROVE BooksKept'
  <2>1. /\ Does(g, "first") \/ Does(g, "get")
        /\ UNCHANGED <<logic, count, resetting, calls, wasReset, excused>>
        /\ Rest(g) \/ todo' = [todo EXCEPT ![g] = Return]
    BY <1>8 DEF ReadAttempts, GetThreshold, history
  <2>2. ASSUME todo' = [todo EXCEPT ![g] = Return] PROVE Same
    <3>1. /\ todo[g] \in Seq(Steps) /\ todo[g] # <<>> /\ Head(todo[g]).do \in {"first", "get"}
          /\ Once(todo[g])
      BY <2>1, AtStep DEF Does, TodoOnce
    <3>2. \A a \in Range(todo[g]) : a.do \notin {"inc", "judge"}
      BY <3>1, NothingToldAfter
    <3>3. \A a : a.do \in {"inc", "judge"} => (a \in Range(Return) <=> a \in Range(todo[g]))
      BY <3>2, QuestionsTell
    <3>4. Return \in Seq(Steps)
      BY KindsOfSteps, ShortSequences DEF Return, Starts
    <3>5. QED
      BY <2>2, <3>3, <3>4, SameTelling DEF Same
  <2>3. QED
    BY <1>4, <1>f, <2>1, <2>2
<1>9. ASSUME ResetErrors \/ ResetAttempts PROVE BooksKept'
  <2>1. /\ UNCHANGED <<logic, calls, todo, excused>> /\ wasReset' /\ (resetting' => wasReset')
        /\ \/ count' = [count EXCEPT !["errors"] = 0]
           \/ count' = [count EXCEPT !["attempts"] = 0]
    BY <1>9 DEF ResetErrors, ResetAttempts, BooksKept
  <2>2. Same
    BY <1>u, <2>1
  <2>3. "errors" \notin Booked /\ "attempts" \notin Booked
    BY DEF Booked, Verdicts, Timed, Failures
  <2>4. \A c \in Booked : count'[c] = count[c]
    BY <1>t, <2>1, <2>3, CounterNames
  <2>5. \A c \in Booked : Total(c)' = Total(c)
    BY <2>2, <2>4 DEF Total, Same
  <2>6. QED
    BY <2>1, <2>2, <2>5, BooksFrame DEF Same
<1>10. ASSUME \/ ResetStreak
              \/ \E field \in Fields : \E value \in Settings[field] :
                   SetConfigThreadSafe(field, value)
              \/ UNCHANGED vars
       PROVE  BooksKept'
  <2>1. /\ UNCHANGED <<logic, calls, todo, resetting, wasReset, excused>>
        /\ count' = count \/ count' = [count EXCEPT !["consecutive"] = 0]
    BY <1>10 DEF ResetStreak, SetConfigThreadSafe, vars, history
  <2>2. \A c \in Booked \cup OpenerCounters : count'[c] = count[c]
    BY <1>t, <2>1, CounterNames
  <2>3. QED
    BY <1>u, <1>f, <2>1, <2>2
<1>11. QED
  BY <1>2, <1>3, <1>5, <1>6, <1>7, <1>8, <1>9, <1>10, ReportBooks, JudgeBooks DEF Next

(* In the end the three collectors agree: with nothing left to do, the     *)
(* opener's attempts and errors are those of the run statistics unless it  *)
(* was reset, every timed verdict has its latency, and the SLO judged      *)
(* every verdict once, but for the bad requests and exactly the interrupts *)
(* within the healthy time.                                                *)
THEOREM BooksSafe == Spec => []BooksBalance
<1>1. Init => TodoOnce /\ BooksKept
  <2>1. SUFFICES ASSUME Init PROVE TodoOnce /\ BooksKept
    OBVIOUS
  <2>2. \A g \in Goroutines : todo[g] = <<>>
    BY <2>1 DEF Init
  <2>3. ASSUME NEW a PROVE Open(a) = 0
    <3>1. Owes(a) = {}
      BY <2>2, ShortRanges DEF Owes
    <3>2. QED
      BY <3>1, FS_EmptySet DEF Open
  <2>4. \A c \in Counters : Total(c) = 0
    BY <2>1, <2>3 DEF Init, Total
  <2>5. TodoOnce
    BY <2>2, ShortSequences DEF TodoOnce, Once
  <2>6. \A c \in Booked \cup OpenerCounters : Total(c) = 0
    BY <2>4, CounterNames
  <2>7. calls = 0 /\ resetting = FALSE /\ excused = 0
    BY <2>1 DEF Init
  <2>8. QED
    BY <2>3, <2>5, <2>6, <2>7, CounterNames DEF BooksKept
<1>2. TypeOK /\ TodoOnce /\ BooksKept /\ [Next]_vars => TodoOnce' /\ BooksKept'
  BY OnceStep, BooksStep
<1>3. TypeOK /\ BooksKept => BooksBalance
  <2>1. SUFFICES ASSUME TypeOK, BooksKept, \A g \in Goroutines : todo[g] = <<>> PROVE BooksBalance
    BY DEF BooksBalance
  <2>2. ASSUME NEW a PROVE Open(a) = 0
    <3>1. Owes(a) = {}
      BY <2>1, ShortRanges DEF Owes
    <3>2. QED
      BY <3>1, FS_EmptySet DEF Open
  <2>3. \A c \in Booked \cup OpenerCounters : count[c] \in Nat /\ Total(c) = count[c]
    BY <2>1, <2>2, CounterNames DEF TypeOK, Total
  <2>4. /\ count["Success"] \in Nat /\ count["ErrFailure"] \in Nat /\ count["ErrTimeout"] \in Nat
        /\ count["ErrBadRequest"] \in Nat /\ count["ErrInterrupt"] \in Nat
        /\ count["ErrConcurrencyLimitReject"] \in Nat /\ count["ErrShortCircuit"] \in Nat
        /\ count["Latencies"] \in Nat /\ count["MeetsSLO"] \in Nat /\ count["FailsSLO"] \in Nat
        /\ calls \in Nat /\ excused \in Nat
    BY <2>1, <2>3, CounterNames DEF BooksKept, TypeOK
  <2>5. logic = "hystrix" /\ ~wasReset =>
          /\ count["errors"] = count["ErrFailure"] + count["ErrTimeout"]
          /\ count["attempts"] = count["errors"] + count["Success"]
    BY <2>1, <2>3, CounterNames DEF BooksKept
  <2>6. calls = count["Latencies"] + count["ErrConcurrencyLimitReject"] + count["ErrShortCircuit"]
    BY <2>1, <2>3, CounterNames DEF BooksKept
  <2>7. /\ Total("MeetsSLO") = count["MeetsSLO"] /\ Total("FailsSLO") = count["FailsSLO"]
        /\ Total("ErrBadRequest") = count["ErrBadRequest"] /\ Total("Success") = count["Success"]
        /\ Total("ErrInterrupt") = count["ErrInterrupt"]
        /\ Open(Step("judge", "Success")) = 0 /\ Open(Step("judge", "ErrInterrupt")) = 0
    BY <2>2, <2>3, CounterNames
  <2>8. /\ calls = count["MeetsSLO"] + count["FailsSLO"] + 0 + 0 + count["ErrBadRequest"] + excused
        /\ 0 + excused <= count["ErrInterrupt"]
        /\ count["MeetsSLO"] + 0 <= count["Success"]
    BY <2>1, <2>7 DEF BooksKept
  <2>9. /\ count["Latencies"] = calls - count["ErrConcurrencyLimitReject"] - count["ErrShortCircuit"]
        /\ count["MeetsSLO"] + count["FailsSLO"] = calls - count["ErrBadRequest"] - excused
        /\ count["MeetsSLO"] <= count["Success"] /\ excused <= count["ErrInterrupt"]
    BY <2>4, <2>6, <2>8
  <2>10. QED
    BY <2>5, <2>9 DEF BooksBalance
<1>4. QED
  BY <1>1, <1>2, <1>3, TypesAndOrder, PTL DEF Spec
=============================================================================
