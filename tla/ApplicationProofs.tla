-------------------------- MODULE ApplicationProofs --------------------------
(* Proofs about Application and the bucket of ToolPolicy that its tools/call       *)
(* draws on, for every burst, rate, clock and set of names; and about the URIs that  *)
(* its resources are registered under, for every text.                               *)
EXTENDS Application, UriCheck, SharedLemmas, SequenceTheorems, TLAPS

-----------------------------------------------------------------------------
(* The rate limit, by itself. *)

\* A product of naturals is one, which the solvers do not find by themselves.
LEMMA ProductIsNatural == ASSUME NEW m \in Nat, NEW n \in Nat PROVE m * n \in Nat
  OBVIOUS

\* So is the difference of a natural and a smaller one.
LEMMA DifferenceIsNatural ==
    ASSUME NEW m \in Nat, NEW n \in Nat, n <= m PROVE m - n \in Nat
  OBVIOUS

\* What fits with a token to spare fits without it.
LEMMA LessStillFits ==
    ASSUME NEW a \in Nat, NEW b \in Nat, NEW c \in Nat, NEW d \in Nat, a + (b + c) <= d
    PROVE  a + b <= d
  OBVIOUS

\* Time adds up, and so does what it earns.
LEMMA EarningsAdd ==
    ASSUME NEW a \in Nat, NEW b \in Nat, NEW c \in Nat, a <= b, b <= c
    PROVE  (c - a) * Rate = (b - a) * Rate + (c - b) * Rate
  BY RateAssumption

\* What is left in the bucket and what the handlers used since the window began
\* is no more than a full bucket and what the time has earned.
Budget == handled * Token + tokens <= Full + (latest - since) * Rate

\* The bucket's own clock is the latest time it was shown.
ClockShape == /\ clockStarted => last = latest
              /\ ~clockStarted => handled = 0 /\ tokens = Full
              /\ since <= latest

BucketInv == TypeOK /\ ClockShape /\ Budget

\* A full bucket and an unstarted clock satisfy the inductive invariant.
LEMMA InitHolds == Init => BucketInv
  <1> SUFFICES ASSUME Init PROVE BucketInv
    OBVIOUS
  <1>1. Full \in Nat
    BY BurstAssumption, TokenAssumption, ProductIsNatural DEF Full
  <1>2. 0 * Token = 0 /\ (0 - 0) * Rate = 0
    BY TokenAssumption, RateAssumption
  <1>3. Budget
    <2>1. handled * Token = 0 /\ (latest - since) * Rate = 0
      BY <1>2 DEF Init
    <2> QED  BY <1>1, <2>1 DEF Init, Budget
  <1>4. TypeOK
    <2>1. /\ tokens \in 0..Full
          /\ last \in 0..Horizon /\ latest \in 0..Horizon /\ since \in 0..Horizon
      BY <1>1, HorizonAssumption DEF Init
    <2>2. answer \in Answers /\ handled \in Nat /\ clockStarted \in BOOLEAN
      BY DEF Init, Answers
    <2> QED  BY <2>1, <2>2 DEF TypeOK
  <1>5. ClockShape
    BY DEF Init, ClockShape
  <1> QED  BY <1>3, <1>4, <1>5 DEF BucketInv

\* What consume does to the bucket, in terms of what the time since has earned.
LEMMA ConsumeKeeps ==
    ASSUME BucketInv, NEW now \in 0..Horizon, Consume(now)
    PROVE  /\ clockStarted'
           /\ tokens' \in 0..Full
           /\ last' = latest' /\ latest' \in 0..Horizon
           /\ since' \in 0..Horizon /\ since' <= latest'
           /\ handled * Token + (IF Granted(now) THEN tokens' + Token ELSE tokens')
                <= Full + (latest' - since') * Rate
  <1> USE HorizonAssumption DEF BucketInv, TypeOK, ClockShape
  <1>1. Full \in Nat /\ Rate \in Nat /\ Token \in Nat
    BY BurstAssumption, RateAssumption, TokenAssumption, ProductIsNatural DEF Full
  <1>2. handled * Token \in Nat
    BY <1>1, ProductIsNatural
  <1>3. CASE ~clockStarted
    <2>1. last' = now /\ latest' = now /\ since' = now
      BY <1>3 DEF Consume, Reference, Greater
    <2>2. Refilled(now) = Full
      BY <1>3 DEF Refilled, Reference
    <2>3. tokens' = IF Granted(now) THEN Full - Token ELSE Full
      BY <2>2 DEF Consume
    <2>4. Granted(now) => Full >= Token
      BY <2>2 DEF Granted
    <2>5. handled * Token = 0 /\ (now - now) * Rate = 0
      BY <1>1, <1>3
    <2> QED  BY <1>1, <2>1, <2>3, <2>4, <2>5 DEF Consume
  <1>4. CASE clockStarted
    <2> DEFINE earned == (latest' - last) * Rate
    <2>1. /\ last = latest
          /\ since' = since
          /\ latest' = Greater(now, latest) /\ last' = latest'
      BY <1>4 DEF Consume, Reference
    <2>2. latest' \in 0..Horizon /\ latest <= latest' /\ since <= latest
      BY <2>1 DEF Greater
    <2>3. earned \in Nat
      <3>1. latest' - last \in Nat
        BY <2>1, <2>2
      <3> QED  BY <1>1, <3>1, ProductIsNatural
    <2>4. Refilled(now) \in 0..Full /\ Refilled(now) <= tokens + earned
      <3>1. CASE now > last
        <4>1. latest' = now
          BY <2>1, <3>1 DEF Greater
        <4>2. Refilled(now) = Lesser(Full, tokens + earned)
          BY <1>4, <3>1, <4>1 DEF Refilled, Reference
        <4> HIDE DEF earned
        <4> QED  BY <1>1, <2>3, <4>2 DEF Lesser
      <3>2. CASE ~(now > last)
        <4>1. Refilled(now) = tokens
          BY <1>4, <3>2 DEF Refilled, Reference
        <4> HIDE DEF earned
        <4> QED  BY <1>1, <2>3, <4>1
      <3> QED  BY <3>1, <3>2
    <2>5. (latest' - since) * Rate = (latest - since) * Rate + earned
      <3>1. since \in Nat /\ latest \in Nat /\ latest' \in Nat
        BY <2>2
      <3> QED  BY <2>1, <2>2, <3>1, EarningsAdd
    <2>6. (latest - since) * Rate \in Nat
      <3>1. latest - since \in Nat
        BY <2>2
      <3> QED  BY <1>1, <3>1, ProductIsNatural
    <2>7. tokens' = IF Granted(now) THEN Refilled(now) - Token ELSE Refilled(now)
      BY DEF Consume
    <2>8. Granted(now) => Refilled(now) >= Token
      BY DEF Granted
    <2>9. handled * Token + tokens <= Full + (latest - since) * Rate
      BY DEF Budget
    <2> HIDE DEF earned
    <2>10. tokens' \in 0..Full
      BY <1>1, <2>4, <2>7, <2>8
    <2>11. handled * Token + Refilled(now) <= Full + ((latest - since) * Rate + earned)
      BY <1>1, <1>2, <2>3, <2>4, <2>6, <2>9
    <2>12. (IF Granted(now) THEN tokens' + Token ELSE tokens') = Refilled(now)
      BY <1>1, <2>4, <2>7
    <2> QED  BY <2>1, <2>2, <2>5, <2>10, <2>11, <2>12 DEF Consume
  <1> QED  BY <1>3, <1>4

\* So does what every call, granted, refused or limited, and every new window leaves.
LEMMA StepHolds == BucketInv /\ [Next]_vars => BucketInv'
  <1> SUFFICES ASSUME BucketInv, [Next]_vars PROVE BucketInv'
    OBVIOUS
  <1>1. Full \in Nat /\ Rate \in Nat /\ Token \in Nat /\ Full' = Full
    BY BurstAssumption, RateAssumption, TokenAssumption, ProductIsNatural DEF Full
  <1>2. handled * Token \in Nat
    BY <1>1, ProductIsNatural DEF BucketInv, TypeOK
  <1>3. CASE Refuse
    BY <1>1, <1>3 DEF Refuse, BucketInv, TypeOK, ClockShape, Budget, Answers, bucket, window
  <1>4. ASSUME NEW now \in 0..Horizon, Limit(now) \/ Mismatch(now)
        PROVE  BucketInv'
    <2>1. Consume(now) /\ handled' = handled /\ answer' \in Answers
      BY <1>4 DEF Limit, Mismatch, Answers
    <2>2. /\ tokens' \in 0..Full
          /\ handled * Token + (IF Granted(now) THEN tokens' + Token ELSE tokens')
               <= Full + (latest' - since') * Rate
      BY <2>1, ConsumeKeeps
    <2>3. /\ last' = latest' /\ latest' \in 0..Horizon
          /\ since' \in 0..Horizon /\ since' <= latest'
      BY <2>1, ConsumeKeeps
    <2>8. clockStarted'
      BY <2>1, ConsumeKeeps
    <2>4. (latest' - since') * Rate \in Nat
      <3>1. latest' \in Nat /\ since' \in Nat
        BY <2>3, HorizonAssumption
      <3>2. latest' - since' \in Nat
        BY <2>3, <3>1, DifferenceIsNatural
      <3> QED  BY <1>1, <3>2, ProductIsNatural
    <2> DEFINE used == handled * Token
               earned == (latest' - since') * Rate
    <2>5. used \in Nat /\ earned \in Nat
          /\ used + (IF Granted(now) THEN tokens' + Token ELSE tokens') <= Full + earned
      BY <1>2, <2>2, <2>4
    <2>6. used + tokens' <= Full + earned
      <3> HIDE DEF used, earned
      <3>1. tokens' \in Nat
        BY <1>1, <2>2
      <3>2. CASE Granted(now)
        <4>1. used + (tokens' + Token) <= Full + earned
          BY <2>5, <3>2
        <4>2. Full + earned \in Nat
          BY <1>1, <2>5
        <4> QED  BY <1>1, <2>5, <3>1, <4>1, <4>2, LessStillFits
      <3>3. CASE ~Granted(now)
        BY <2>5, <3>3
      <3> QED  BY <3>2, <3>3
    <2>7. Budget'
      BY <1>1, <2>1, <2>6 DEF Budget
    <2> QED  BY <1>1, <2>1, <2>2, <2>3, <2>8, <2>7 DEF BucketInv, TypeOK, ClockShape
  <1>5. ASSUME NEW now \in 0..Horizon, Handle(now)
        PROVE  BucketInv'
    <2>1. Consume(now) /\ Granted(now) /\ handled' = handled + 1 /\ answer' \in Answers
      BY <1>5 DEF Handle, Answers
    <2>2. /\ tokens' \in 0..Full
          /\ handled * Token + (tokens' + Token) <= Full + (latest' - since') * Rate
      BY <2>1, ConsumeKeeps
    <2>3. /\ last' = latest' /\ latest' \in 0..Horizon
          /\ since' \in 0..Horizon /\ since' <= latest'
      BY <2>1, ConsumeKeeps
    <2>8. clockStarted'
      BY <2>1, ConsumeKeeps
    <2>4. handled' * Token = handled * Token + Token
      BY <1>1, <2>1 DEF BucketInv, TypeOK
    <2>5. handled' * Token + tokens' = handled * Token + (tokens' + Token)
      BY <1>1, <1>2, <2>2, <2>4
    <2>6. Budget'
      BY <1>1, <2>2, <2>5 DEF Budget
    <2> QED  BY <1>1, <2>1, <2>2, <2>3, <2>8, <2>6 DEF BucketInv, TypeOK, ClockShape
  <1>6. CASE BeginWindow
    <2>1. 0 * Token = 0 /\ (latest - latest) * Rate = 0
      BY <1>1 DEF BucketInv, TypeOK
    <2> QED  BY <1>1, <1>6, <2>1, HorizonAssumption
             DEF BeginWindow, BucketInv, TypeOK, ClockShape, Budget, Answers, bucket
  <1>7. CASE UNCHANGED vars
    BY <1>1, <1>7 DEF vars, bucket, window, BucketInv, TypeOK, ClockShape, Budget, Answers
  <1> QED  BY <1>3, <1>4, <1>5, <1>6, <1>7 DEF Next, CallTool

\* The bucket is never overfull and never in debt, whatever the clock shows.
THEOREM BucketTypeCorrect == Spec => []TypeOK
  <1>1. BucketInv => TypeOK
    BY DEF BucketInv
  <1> QED  BY <1>1, InitHolds, StepHolds, PTL DEF Spec

\* In every window handlers run at most a burst and what the rate has earned,
\* even when the clock stands still, jumps ahead or goes back.
THEOREM RateIsBounded == Spec => []HandlerRateBounded
  <1>1. BucketInv => HandlerRateBounded
    <2> SUFFICES ASSUME BucketInv PROVE HandlerRateBounded
      OBVIOUS
    <2>1. Full \in Nat /\ handled * Token \in Nat /\ latest - since \in Nat
      BY BurstAssumption, TokenAssumption, ProductIsNatural, HorizonAssumption
      DEF BucketInv, TypeOK, ClockShape, Full
    <2>2. (latest - since) * Rate \in Nat
      BY <2>1, RateAssumption, ProductIsNatural
    <2> QED  BY <2>1, <2>2 DEF BucketInv, TypeOK, Budget, HandlerRateBounded
  <1> QED  BY <1>1, InitHolds, StepHolds, PTL DEF Spec

-----------------------------------------------------------------------------
(* Every request is a step of the policy, or none that the bucket notices. *)

\* A tool call passes the hook, the bucket, the schema and the handler in this order.
LEMMA PolicyStep == [AppNext]_appVars => [Next]_vars
  BY DEF AppNext, appVars, Register, Advance, Initialize, Initialized, List, RefuseTool,
         LimitTool, MismatchTool, HandleTool, RefusePrompt, GetPrompt, ReadResource,
         HandlerFails, UnknownMethod, Observe, Next, CallTool

(* The application implements the policy: no order of requests, registrations and      *)
(* replies makes a handler run that the bucket has not let through.                     *)
THEOREM ApplicationKeepsPolicy == AppSpec => Spec
  <1>1. AppInit => Init
    BY DEF AppInit
  <1> QED  BY <1>1, PolicyStep, PTL DEF AppSpec, Spec

(* The rate of handler calls is bounded for every host that is served.                  *)
THEOREM ApplicationRateIsBounded == AppSpec => []HandlerRateBounded
  BY ApplicationKeepsPolicy, RateIsBounded, PTL

-----------------------------------------------------------------------------
(* What is told and what is sent. *)

\* The registries freeze before the session begins, and the lists come after it.
SessionShape ==
    /\ session # "await_initialize" => lifecycle # "configuring"
    /\ reply.outcome = "listed" => session # "await_initialize"

AppInv == SessionShape /\ ToldStaysTrue /\ OutputVettedWhole

\* A server that is configured has told nothing and sent nothing.
LEMMA AppInitHolds == AppInit => AppInv
  BY DEF AppInit, AppInv, SessionShape, ToldStaysTrue, OutputVettedWhole, Error, Reply

\* start is past before the session begins, and does not come back.
LEMMA SessionStep ==
    ASSUME SessionShape, [AppNext]_appVars
    PROVE  SessionShape'
  <1> USE DEF SessionShape, registry, Error, Reply
  <1>1. CASE UNCHANGED appVars
    BY <1>1 DEF appVars
  <1>2. ASSUME NEW kind \in Kinds, NEW name \in Names[kind], Register(kind, name)
        PROVE  SessionShape'
    BY <1>2 DEF Register
  <1>3. CASE Advance \/ Initialize \/ Initialized
    BY <1>3 DEF Advance, Initialize, Initialized, Serving
  <1>4. CASE List
    BY <1>4 DEF List, Dispatches
  <1>5. ASSUME NEW now \in 0 .. Horizon, LimitTool(now) \/ MismatchTool(now) \/ HandleTool(now)
        PROVE  SessionShape'
    BY <1>5 DEF LimitTool, MismatchTool, HandleTool, ToolText, Dispatches
  <1>6. ASSUME NEW texts \in BoundedSeq(Texts, 2), GetPrompt(texts) PROVE SessionShape'
    BY <1>6 DEF GetPrompt, Dispatches
  <1>7. ASSUME NEW text \in Texts, ReadResource(text) PROVE SessionShape'
    BY <1>7 DEF ReadResource, Dispatches
  <1>8. CASE RefuseTool \/ RefusePrompt \/ HandlerFails \/ UnknownMethod \/ Observe
    BY <1>8 DEF RefuseTool, RefusePrompt, HandlerFails, UnknownMethod, Observe, Dispatches
  <1> QED
    BY <1>1, <1>2, <1>3, <1>4, <1>5, <1>6, <1>7, <1>8, Zenon DEF AppNext

\* No registration follows what the host has been told.
LEMMA ToldStep ==
    ASSUME SessionShape, ToldStaysTrue, [AppNext]_appVars
    PROVE  ToldStaysTrue'
  <1> USE DEF SessionShape, ToldStaysTrue, registry, Error, Reply, Kinds
  <1>1. CASE UNCHANGED appVars
    BY <1>1 DEF appVars
  <1>2. ASSUME NEW kind \in Kinds, NEW name \in Names[kind], Register(kind, name)
        PROVE  ToldStaysTrue'
    BY <1>2 DEF Register
  <1>3. CASE Advance \/ Initialize \/ Initialized
    BY <1>3 DEF Advance, Initialize, Initialized, Serving
  <1>4. CASE List
    BY <1>4 DEF List
  <1>5. ASSUME NEW now \in 0 .. Horizon, LimitTool(now) \/ MismatchTool(now) \/ HandleTool(now)
        PROVE  ToldStaysTrue'
    BY <1>5 DEF LimitTool, MismatchTool, HandleTool, ToolText
  <1>6. ASSUME NEW texts \in BoundedSeq(Texts, 2), GetPrompt(texts) PROVE ToldStaysTrue'
    BY <1>6 DEF GetPrompt
  <1>7. ASSUME NEW text \in Texts, ReadResource(text) PROVE ToldStaysTrue'
    BY <1>7 DEF ReadResource
  <1>8. CASE RefuseTool \/ RefusePrompt \/ HandlerFails \/ UnknownMethod \/ Observe
    BY <1>8 DEF RefuseTool, RefusePrompt, HandlerFails, UnknownMethod, Observe
  <1> QED
    BY <1>1, <1>2, <1>3, <1>4, <1>5, <1>6, <1>7, <1>8, Zenon DEF AppNext

\* What passes is the filter's own where there is one, and valid.
LEMMA PassedIsVetted ==
    ASSUME NEW text \in Texts, NEW passed \in Passed(text), passed # Rejected
    PROVE  passed = IF filtering THEN "filtered" ELSE "plain"
  BY DEF Texts, Passed, Rejected

\* A tool's reply has its one text, or none.
LEMMA ToolTextVetted ==
    ASSUME NEW text \in Texts, NEW outcome, ToolText(text, outcome), UNCHANGED filtering
    PROVE  OutputVettedWhole'
  <1>1. PICK passed \in Passed(text) :
          reply' = IF passed = Rejected THEN Error("tools/call", answer')
                   ELSE Reply("tools/call", outcome, <<passed>>, {})
    BY DEF ToolText
  <1>2. produced' = <<text>>
    BY DEF ToolText
  <1>3. CASE passed = Rejected
    BY <1>1, <1>3 DEF OutputVettedWhole, Error, Reply
  <1>4. CASE passed # Rejected
    <2>1. reply'.texts = <<passed>>
      BY <1>1, <1>4 DEF Reply
    <2>2. passed = IF filtering THEN "filtered" ELSE "plain"
      BY <1>4, PassedIsVetted
    <2> QED  BY <1>2, <2>1, <2>2 DEF OutputVettedWhole
  <1> QED  BY <1>3, <1>4

\* So has a prompt's: every message and the description, or none of them.
LEMMA PassedAllVetted ==
    ASSUME NEW texts \in BoundedSeq(Texts, 2), NEW passed \in PassedAll(texts),
           Rejected \notin ToSet(passed)
    PROVE  /\ Len(passed) = Len(texts)
           /\ \A i \in 1 .. Len(passed) : passed[i] = IF filtering THEN "filtered" ELSE "plain"
  <1>1. texts \in Seq(Texts)
    <2>1. PICK m \in 0 .. 2 : texts \in [1 .. m -> Texts]
      BY DEF BoundedSeq, SeqOf
    <2>2. [1 .. m -> Texts] \in {[1 .. n -> Texts] : n \in Nat}
      OBVIOUS
    <2> QED  BY <2>1, <2>2, SeqDef
  <1>2. /\ passed \in [1 .. Len(texts) -> {"plain", "control", "filtered", Rejected}]
        /\ \A i \in 1 .. Len(texts) : passed[i] \in Passed(texts[i])
    BY DEF PassedAll
  <1>3. Len(texts) \in Nat
    BY <1>1
  <1>4. passed \in Seq({"plain", "control", "filtered", Rejected})
    BY <1>2, <1>3, SeqDef
  <1>5. Len(passed) = Len(texts)
    BY <1>2, <1>3, <1>4
  <1>6. ASSUME NEW i \in 1 .. Len(passed)
        PROVE  passed[i] = IF filtering THEN "filtered" ELSE "plain"
    <2>1. texts[i] \in Texts /\ passed[i] \in Passed(texts[i])
      BY <1>1, <1>2, <1>5
    <2>2. passed[i] # Rejected
      BY <1>4 DEF ToSet
    <2> QED  BY <2>1, <2>2, PassedIsVetted
  <1> QED  BY <1>5, <1>6

\* A reply is made of the texts of its own call, or of none.
LEMMA VettedStep ==
    ASSUME OutputVettedWhole, [AppNext]_appVars
    PROVE  OutputVettedWhole'
  <1> USE DEF OutputVettedWhole, registry, Error, Reply
  <1>1. CASE UNCHANGED appVars
    BY <1>1 DEF appVars
  <1>2. ASSUME NEW kind \in Kinds, NEW name \in Names[kind], Register(kind, name)
        PROVE  OutputVettedWhole'
    BY <1>2 DEF Register
  <1>3. CASE Advance \/ Initialize \/ Initialized
    BY <1>3 DEF Advance, Initialize, Initialized, Serving
  <1>4. CASE List
    BY <1>4 DEF List
  <1>5. ASSUME NEW now \in 0 .. Horizon, LimitTool(now) \/ MismatchTool(now) \/ HandleTool(now)
        PROVE  OutputVettedWhole'
    <2>1. CASE LimitTool(now)
      BY <2>1 DEF LimitTool
    <2>2. ASSUME NEW text \in Texts, NEW outcome, ToolText(text, outcome), UNCHANGED registry
          PROVE  OutputVettedWhole'
      BY <2>2, ToolTextVetted DEF registry
    <2>3. CASE answer' = "internal_error" /\ reply' = Error("tools/call", answer')
      BY <2>3 DEF Error, Reply
    <2> HIDE DEF OutputVettedWhole, registry, Error, Reply
    <2> QED  BY <1>5, <2>1, <2>2, <2>3 DEF MismatchTool, HandleTool, Texts
  <1>6. ASSUME NEW texts \in BoundedSeq(Texts, 2), GetPrompt(texts) PROVE OutputVettedWhole'
    <2>1. CASE reply' = Error("prompts/get", "internal_error")
      BY <2>1 DEF Error, Reply
    <2>2. ASSUME NEW passed \in PassedAll(texts), Rejected \notin ToSet(passed),
                 reply' = Reply("prompts/get", "result", passed, {})
          PROVE  OutputVettedWhole'
      <3>1. produced' = texts /\ filtering' = filtering /\ reply'.texts = passed
        BY <1>6, <2>2 DEF GetPrompt
      <3> QED  BY <2>2, <3>1, PassedAllVetted
    <2> QED  BY <1>6, <2>1, <2>2 DEF GetPrompt
  <1>7. ASSUME NEW text \in Texts, ReadResource(text) PROVE OutputVettedWhole'
    <2>1. CASE produced' = <<>>
      BY <1>7, <2>1 DEF ReadResource
    <2>2. ASSUME NEW passed \in Passed(text), produced' = <<text>>,
                 reply' = IF passed = Rejected THEN Error("resources/read", "internal_error")
                          ELSE Reply("resources/read", "result", <<passed>>, {})
          PROVE  OutputVettedWhole'
      <3>1. filtering' = filtering
        BY <1>7 DEF ReadResource
      <3>2. CASE passed = Rejected
        BY <2>2, <3>2
      <3>3. CASE passed # Rejected
        <4>1. reply'.texts = <<passed>>
          BY <2>2, <3>3
        <4>2. passed = IF filtering THEN "filtered" ELSE "plain"
          BY <3>3, PassedIsVetted
        <4> QED  BY <2>2, <3>1, <4>1, <4>2
      <3> QED  BY <3>2, <3>3
    <2> HIDE DEF OutputVettedWhole, registry, Error, Reply
    <2> QED  BY <1>7, <2>1, <2>2 DEF ReadResource
  <1>8. CASE RefuseTool \/ RefusePrompt \/ HandlerFails \/ UnknownMethod \/ Observe
    BY <1>8 DEF RefuseTool, RefusePrompt, HandlerFails, UnknownMethod, Observe
  <1> QED
    BY <1>1, <1>2, <1>3, <1>4, <1>5, <1>6, <1>7, <1>8, Zenon DEF AppNext

\* Every step keeps the invariant.
LEMMA AppStepHolds == AppInv /\ [AppNext]_appVars => AppInv'
  BY SessionStep, ToldStep, VettedStep DEF AppInv

(* A reply carries every text of its call, valid and the filter's own where there is  *)
(* one, or no text at all, whatever handlers and hooks return.                         *)
THEOREM OutputIsVetted == AppSpec => []OutputVettedWhole
  BY AppInitHolds, AppStepHolds, PTL DEF AppSpec, AppInv

(* The advertised capabilities and the last list that was read agree with registries   *)
(* that the worker reads without a lock, for any set of names that threads register.   *)
THEOREM WhatWasToldIsTrue == AppSpec => []ToldStaysTrue
  BY AppInitHolds, AppStepHolds, PTL DEF AppSpec, AppInv
-----------------------------------------------------------------------------
(* A URI: the places where the validator cuts are the only ones where the grammar can.  *)

CharText == Seq(Characters)

\* A set of places has a first one.
LEMMA FirstIs ==
    ASSUME NEW places \in SUBSET (Nat \ {0})
    PROVE  \/ places = {} /\ First(places) = 0
           \/ First(places) \in places /\ \A j \in places : First(places) <= j
  <1> SUFFICES ASSUME NEW k \in places
               PROVE  First(places) \in places /\ \A j \in places : First(places) <= j
    BY DEF First
  <1> DEFINE Least(i) == i \in places /\ \A j \in places : i <= j
  <1>1. \E i : Least(i)
    <2> DEFINE R == {p \in Nat \X Nat : p[1] < p[2]}
    <2>1. IsWellFoundedOn(R, Nat)
      BY NatLessThanWellFounded DEF OpToRel
    <2>2. PICK m \in places : \A n \in places : <<n, m>> \notin R
      <3> HIDE DEF R
      <3> QED  BY <2>1, WFMin
    <2>3. \A n \in places : ~ (n < m)
      BY <2>2
    <2> QED  BY <2>2, <2>3
  <1>2. First(places) = CHOOSE i : Least(i)
    BY DEF First
  <1> QED  BY <1>1, <1>2

\* find gives the first place, or 0.
LEMMA FindFromIs ==
    ASSUME NEW text \in CharText, NEW ch, NEW from \in Nat \ {0}
    PROVE  LET f == FindFrom(text, ch, from) IN
           \/ f = 0 /\ \A i \in from .. Len(text) : text[i] # ch
           \/ f \in from .. Len(text) /\ text[f] = ch /\ \A i \in from .. f - 1 : text[i] # ch
  <1> DEFINE places == {i \in from .. Len(text) : text[i] = ch}
             f == FindFrom(text, ch, from)
  <1>1. places \in SUBSET (Nat \ {0}) /\ f = First(places)
    BY DEF FindFrom
  <1>2. \/ places = {} /\ f = 0
        \/ f \in places /\ \A j \in places : f <= j
    <2> HIDE DEF places, f
    <2> QED  BY <1>1, FirstIs
  <1> HIDE DEF f
  <1>3. ASSUME f \in places, NEW i \in from .. f - 1, \A j \in places : f <= j
        PROVE  text[i] # ch
    <2>1. Len(text) \in Nat
      BY DEF CharText
    <2>2. i \in from .. Len(text) /\ ~ (f <= i)
      BY <1>3, <2>1
    <2> QED  BY <1>3, <2>2
  <1> QED  BY <1>2, <1>3 DEF f

LEMMA FindIs ==
    ASSUME NEW text \in CharText, NEW ch
    PROVE  LET f == Find(text, ch) IN
           \/ f = 0 /\ \A i \in 1 .. Len(text) : text[i] # ch
           \/ f \in 1 .. Len(text) /\ text[f] = ch /\ \A i \in 1 .. f - 1 : text[i] # ch
  BY FindFromIs DEF Find

LEMMA FindPairIs ==
    ASSUME NEW text \in CharText
    PROVE  LET f == FindPair(text)
               Pair(i) == text[i] = ":" /\ text[i + 1] = ":" IN
           \/ f = 0 /\ \A i \in 1 .. Len(text) - 1 : ~Pair(i)
           \/ f \in 1 .. Len(text) - 1 /\ Pair(f) /\ \A i \in 1 .. f - 1 : ~Pair(i)
  <1> DEFINE Pair(i) == text[i] = ":" /\ text[i + 1] = ":"
             places == {i \in 1 .. Len(text) - 1 : Pair(i)}
             f == FindPair(text)
  <1>1. places \in SUBSET (Nat \ {0}) /\ f = First(places)
    BY DEF FindPair
  <1>2. \/ places = {} /\ f = 0
        \/ f \in places /\ \A j \in places : f <= j
    <2> HIDE DEF places, f
    <2> QED  BY <1>1, FirstIs
  <1> HIDE DEF f, Pair
  <1>3. ASSUME f \in places, NEW i \in 1 .. f - 1, \A j \in places : f <= j
        PROVE  ~Pair(i)
    <2>1. Len(text) \in Nat
      BY DEF CharText
    <2>2. i \in 1 .. Len(text) - 1 /\ ~ (f <= i)
      BY <1>3, <2>1
    <2> QED  BY <1>3, <2>2
  <1>4. \/ f = 0 /\ \A i \in 1 .. Len(text) - 1 : ~Pair(i)
        \/ f \in 1 .. Len(text) - 1 /\ Pair(f) /\ \A i \in 1 .. f - 1 : ~Pair(i)
    BY <1>2, <1>3
  <1> QED  BY <1>4 DEF f, Pair

\* A part of a text.
LEMMA SliceIs ==
    ASSUME NEW text \in CharText, NEW a \in 1 .. Len(text) + 1, NEW b \in a - 1 .. Len(text)
    PROVE  LET s == SubSeq(text, a, b) IN
           /\ s \in CharText /\ Len(s) = (b - a) + 1
           /\ \A i \in 1 .. (b - a) + 1 : s[i] = text[(a + i) - 1]
  <1>0. Len(text) \in Nat
    BY DEF CharText
  <1>1. a \in Int /\ b \in Int /\ \A i \in a .. b : i \in 1 .. Len(text)
    BY <1>0
  <1>2. \A i \in a .. b : text[i] \in Characters
    BY <1>1, ElementOfSeq DEF CharText
  <1>3. /\ SubSeq(text, a, b) \in Seq(Characters)
        /\ Len(SubSeq(text, a, b)) = IF a <= b THEN b - a + 1 ELSE 0
        /\ \A i \in 1 .. b - a + 1 : SubSeq(text, a, b)[i] = text[a + i - 1]
    BY <1>1, <1>2, SubSeqProperties
  <1> QED  BY <1>0, <1>3 DEF CharText

\* What is before and after a place.
LEMMA CutIs ==
    ASSUME NEW text \in CharText, NEW i \in 1 .. Len(text)
    PROVE  /\ Before(text, i) \in CharText /\ Len(Before(text, i)) = i - 1
           /\ \A j \in 1 .. i - 1 : Before(text, i)[j] = text[j]
           /\ After(text, i) \in CharText /\ Len(After(text, i)) = Len(text) - i
           /\ \A j \in 1 .. Len(text) - i : After(text, i)[j] = text[i + j]
  <1>0. Len(text) \in Nat
    BY DEF CharText
  <1>1. /\ 1 \in 1 .. Len(text) + 1 /\ i - 1 \in 1 - 1 .. Len(text)
        /\ i + 1 \in 1 .. Len(text) + 1 /\ Len(text) \in (i + 1) - 1 .. Len(text)
    BY <1>0
  <1>2. LET s == Before(text, i) IN
           /\ s \in CharText /\ Len(s) = ((i - 1) - 1) + 1
           /\ \A j \in 1 .. ((i - 1) - 1) + 1 : s[j] = text[(1 + j) - 1]
    BY <1>1, SliceIs DEF Before
  <1>3. LET s == After(text, i) IN
           /\ s \in CharText /\ Len(s) = (Len(text) - (i + 1)) + 1
           /\ \A j \in 1 .. (Len(text) - (i + 1)) + 1 : s[j] = text[((i + 1) + j) - 1]
    BY <1>1, SliceIs DEF After
  <1>4. /\ \A j \in 1 .. i - 1 : j \in 1 .. ((i - 1) - 1) + 1 /\ (1 + j) - 1 = j
        /\ \A j \in 1 .. Len(text) - i :
              j \in 1 .. (Len(text) - (i + 1)) + 1 /\ ((i + 1) + j) - 1 = i + j
        /\ ((i - 1) - 1) + 1 = i - 1 /\ (Len(text) - (i + 1)) + 1 = Len(text) - i
    BY <1>0
  <1> QED  BY <1>2, <1>3, <1>4

\* Where no part that is to come first has the delimiter, only its first place can be cut at.
NoneHas(texts, ch) == \A t \in texts \cap CharText : \A i \in 1 .. Len(t) : t[i] # ch
Splits(text, ch, left, right) == \E p \in Parts(text, ch) : p[1] \in left /\ p[2] \in right

LEMMA FirstCut ==
    ASSUME NEW text \in CharText, NEW ch, NEW whole, NEW left, NEW right, NEW f,
           NoneHas(whole, ch), NoneHas(left, ch), f = Find(text, ch)
    PROVE  (text \in whole \/ Splits(text, ch, left, right))
           <=> IF f = 0 THEN text \in whole
               ELSE Before(text, f) \in left /\ After(text, f) \in right
  <1> DEFINE Cuts(i) == /\ i \in 1 .. Len(text) /\ text[i] = ch
                        /\ Before(text, i) \in left /\ After(text, i) \in right
  <1>1. Splits(text, ch, left, right) <=> \E i : Cuts(i)
    <2>1. ASSUME NEW p \in Parts(text, ch), p[1] \in left, p[2] \in right PROVE \E i : Cuts(i)
      <3>1. PICK i \in {j \in 1 .. Len(text) : text[j] = ch} :
                p = <<Before(text, i), After(text, i)>>
        BY DEF Parts
      <3> QED  BY <2>1, <3>1
    <2>2. ASSUME NEW i, Cuts(i) PROVE \E p \in Parts(text, ch) : p[1] \in left /\ p[2] \in right
      <3>1. <<Before(text, i), After(text, i)>> \in Parts(text, ch)
        BY <2>2 DEF Parts
      <3> QED  BY <2>2, <3>1
    <2> HIDE DEF Cuts
    <2> QED  BY <2>1, <2>2 DEF Splits
  <1>2. \/ f = 0 /\ \A i \in 1 .. Len(text) : text[i] # ch
        \/ f \in 1 .. Len(text) /\ text[f] = ch /\ \A i \in 1 .. f - 1 : text[i] # ch
    BY FindIs
  <1>3. ASSUME f # 0, NEW i, Cuts(i) PROVE i = f
    <2>1. i \in 1 .. Len(text) /\ f \in 1 .. Len(text) /\ Len(text) \in Nat
      BY <1>2, <1>3 DEF CharText
    <2>2. ~ (i < f)
      BY <1>2, <1>3, <2>1
    <2>3. ASSUME f < i PROVE FALSE
      <3>1. f \in 1 .. i - 1
        BY <2>1, <2>3
      <3>2. /\ Before(text, i) \in CharText /\ Len(Before(text, i)) = i - 1
            /\ \A j \in 1 .. i - 1 : Before(text, i)[j] = text[j]
        BY <2>1, CutIs
      <3> QED  BY <1>2, <1>3, <3>1, <3>2 DEF NoneHas
    <2> QED  BY <2>1, <2>2, <2>3
  <1>4. CASE f = 0
    <2>1. ~ \E i : Cuts(i)
      BY <1>2, <1>4
    <2> HIDE DEF Cuts
    <2> QED  BY <1>1, <1>4, <2>1
  <1>5. CASE f # 0
    <2>1. text \notin whole
      BY <1>2, <1>5 DEF NoneHas
    <2>2. (\E i : Cuts(i)) <=> Cuts(f)
      <3> HIDE DEF Cuts
      <3> QED  BY <1>3, <1>5
    <2>3. Cuts(f) <=> Before(text, f) \in left /\ After(text, f) \in right
      BY <1>2, <1>5
    <2> HIDE DEF Cuts
    <2> QED  BY <1>1, <1>5, <2>1, <2>2, <2>3
  <1> QED  BY <1>4, <1>5
\* component takes what the grammar does.
LEMMA LooksClosed ==
    ASSUME NEW text, NEW i, NEW extra, NEW st \in Looks
    PROVE  LookAt(st, text, i, extra) \in Looks
  <1>1. st.ok \in BOOLEAN /\ st.skip \in 0 .. 2
    BY DEF Looks
  <1>2. \A ok \in BOOLEAN, skip \in 0 .. 2 : [ok |-> ok, skip |-> skip] \in Looks
    BY DEF Looks
  <1>3. Escape(text, i) \in BOOLEAN
    BY DEF Escape
  <1>4. (text[i] \in Unreserved \cup SubDelims \cup extra) \in BOOLEAN
    OBVIOUS
  <1>5. 0 \in 0 .. 2 /\ 2 \in 0 .. 2 /\ TRUE \in BOOLEAN
    OBVIOUS
  <1>6. st.skip > 0 => st.skip - 1 \in 0 .. 2
    BY <1>1
  <1>7. CASE ~st.ok
    BY <1>7 DEF LookAt
  <1>8. CASE st.ok /\ st.skip > 0
    <2>1. LookAt(st, text, i, extra) = [ok |-> TRUE, skip |-> st.skip - 1]
      BY <1>8 DEF LookAt
    <2> QED  BY <1>2, <1>5, <1>6, <1>8, <2>1
  <1>9. CASE st.ok /\ ~(st.skip > 0) /\ text[i] = "%"
    <2>1. LookAt(st, text, i, extra) = [ok |-> Escape(text, i), skip |-> 2]
      BY <1>9 DEF LookAt
    <2> QED  BY <1>2, <1>3, <1>5, <2>1
  <1>10. CASE st.ok /\ ~(st.skip > 0) /\ text[i] # "%"
    <2>1. LookAt(st, text, i, extra)
          = [ok |-> text[i] \in Unreserved \cup SubDelims \cup extra, skip |-> 0]
      BY <1>10 DEF LookAt
    <2> QED  BY <1>2, <1>4, <1>5, <2>1
  <1> QED  BY <1>7, <1>8, <1>9, <1>10

LEMMA LookedSteps ==
    ASSUME NEW text \in CharText, NEW extra
    PROVE  LET c == Looked(text, extra) IN
           /\ c[0] = [ok |-> TRUE, skip |-> 0]
           /\ \A i \in 1 .. Len(text) : c[i - 1] \in Looks => c[i] = LookAt(c[i - 1], text, i, extra)
  <1> DEFINE c == Looked(text, extra)
             start == [ok |-> TRUE, skip |-> 0]
             step == [i \in 1 .. Len(text) |-> [st \in Looks |-> LookAt(st, text, i, extra)]]
  <1>1. \A n \in Nat : c[n] = IF n = 0 THEN start ELSE step[n][c[n - 1]]
    <2>1. c = Iterate(start, step)
      BY DEF Looked
    <2> HIDE DEF c, step, start
    <2> QED  BY <2>1, IterateUnfolds
  <1> HIDE DEF c
  <1>2. c[0] = start
    <2> HIDE DEF step, start
    <2> QED  BY <1>1
  <1>3. ASSUME NEW i \in 1 .. Len(text), c[i - 1] \in Looks
        PROVE  c[i] = LookAt(c[i - 1], text, i, extra)
    <2>1. i \in Nat /\ i # 0
      OBVIOUS
    <2>2. c[i] = step[i][c[i - 1]]
      <3> HIDE DEF step
      <3> QED  BY <1>1, <2>1
    <2>3. step[i] = [st \in Looks |-> LookAt(st, text, i, extra)]
      OBVIOUS
    <2> HIDE DEF step
    <2> QED  BY <1>3, <2>2, <2>3
  <1> HIDE DEF step
  <1> QED  BY <1>2, <1>3 DEF c

\* How far into an escape the character at i is: the loop skips that many more.
SkipAt(text, i) == IF i >= 1 /\ text[i] = "%" THEN 2
                   ELSE IF i >= 2 /\ text[i - 1] = "%" THEN 1 ELSE 0
Fine(text, set, j) == text[j] \in set \/ (text[j] = "%" /\ Escape(text, j))
AllFine(text, set, i) == \A j \in 1 .. i : Fine(text, set, j)

LEMMA LookKeeps ==
    ASSUME NEW text \in CharText, NEW extra, "%" \notin extra,
           NEW i \in 0 .. Len(text) - 1, NEW st \in Looks,
           st.ok <=> AllFine(text, RegChars \cup extra, i),
           st.ok => st.skip = SkipAt(text, i)
    PROVE  LET next == LookAt(st, text, i + 1, extra) IN
           /\ next.ok <=> AllFine(text, RegChars \cup extra, i + 1)
           /\ next.ok => next.skip = SkipAt(text, i + 1)
  <1> DEFINE set == RegChars \cup extra
             next == LookAt(st, text, i + 1, extra)
             F(j) == Fine(text, set, j)
  <1>0. Len(text) \in Nat /\ i \in Nat /\ st.skip \in 0 .. 2 /\ st.ok \in BOOLEAN
    BY DEF Looks, CharText
  <1>1. "%" \notin set /\ Hex \subseteq set /\ "%" \notin Hex
    BY DEF RegChars, Unreserved, SubDelims, Alpha, Digit, Hex
  <1>2. set = Unreserved \cup SubDelims \cup extra
    BY DEF RegChars
  <1>31. (st.ok <=> AllFine(text, set, i)) /\ (st.ok => st.skip = SkipAt(text, i))
    OBVIOUS
  <1> HIDE DEF set
  <1>3. AllFine(text, set, i + 1) <=> AllFine(text, set, i) /\ F(i + 1)
    <2>1. \A j : j \in 1 .. i + 1 <=> j \in 1 .. i \/ j = i + 1
      BY <1>0
    <2> HIDE DEF F
    <2>2. AllFine(text, set, i + 1) <=> \A j \in 1 .. i + 1 : F(j)
      BY DEF AllFine, F
    <2>3. AllFine(text, set, i) <=> \A j \in 1 .. i : F(j)
      BY DEF AllFine, F
    <2> QED  BY <2>1, <2>2, <2>3, Zenon
  <1>4. CASE ~st.ok
    <2>1. next = st
      BY <1>4 DEF LookAt
    <2> QED  BY <1>3, <1>4, <2>1 DEF set
  <1>5. CASE st.ok /\ i >= 1 /\ text[i] = "%"
    <2>1. st.skip = 2
      BY <1>5 DEF SkipAt
    <2>2. next = [ok |-> TRUE, skip |-> 1]
      BY <1>5, <2>1 DEF LookAt
    <2>3. F(i)
      <3>1. i \in 1 .. i
        BY <1>0, <1>5
      <3> QED  BY <1>31, <1>5, <3>1 DEF AllFine
    <2>4. text[i + 1] \in Hex
      BY <1>1, <1>5, <2>3 DEF Fine, Escape
    <2>5. F(i + 1) /\ text[i + 1] # "%"
      BY <1>1, <2>4 DEF Fine
    <2>6. SkipAt(text, i + 1) = 1
      BY <1>0, <1>5, <2>5 DEF SkipAt
    <2> QED  BY <1>3, <1>5, <2>2, <2>5, <2>6 DEF set
  <1>6. CASE st.ok /\ ~(i >= 1 /\ text[i] = "%") /\ i >= 2 /\ text[i - 1] = "%"
    <2>1. st.skip = 1
      BY <1>6 DEF SkipAt
    <2>2. next = [ok |-> TRUE, skip |-> 0]
      BY <1>6, <2>1 DEF LookAt
    <2>3. F(i - 1) /\ (i - 1) + 2 = i + 1
      <3>1. i - 1 \in 1 .. i /\ (i - 1) + 2 = i + 1
        BY <1>0, <1>6
      <3> QED  BY <1>31, <1>6, <3>1 DEF AllFine
    <2>4. text[i + 1] \in Hex
      BY <1>1, <1>6, <2>3 DEF Fine, Escape
    <2>5. F(i + 1) /\ text[i + 1] # "%"
      BY <1>1, <2>4 DEF Fine
    <2>6. SkipAt(text, i + 1) = 0
      BY <1>0, <1>6, <2>5 DEF SkipAt
    <2> QED  BY <1>3, <1>6, <2>2, <2>5, <2>6 DEF set
  <1>7. CASE st.ok /\ ~(i >= 1 /\ text[i] = "%") /\ ~(i >= 2 /\ text[i - 1] = "%")
    <2>1. st.skip = 0
      BY <1>7 DEF SkipAt
    <2>2. ~(i + 1 >= 2 /\ text[(i + 1) - 1] = "%")
      BY <1>0, <1>7
    <2>3. CASE text[i + 1] = "%"
      <3>1. next = [ok |-> Escape(text, i + 1), skip |-> 2]
        BY <1>7, <2>1, <2>3 DEF LookAt
      <3>2. F(i + 1) <=> Escape(text, i + 1)
        BY <1>1, <2>3 DEF Fine
      <3>3. SkipAt(text, i + 1) = 2
        BY <1>0, <2>3 DEF SkipAt
      <3> QED  BY <1>3, <1>7, <3>1, <3>2, <3>3 DEF set
    <2>4. CASE text[i + 1] # "%"
      <3>1. next = [ok |-> text[i + 1] \in set, skip |-> 0]
        BY <1>2, <1>7, <2>1, <2>4 DEF LookAt
      <3>2. F(i + 1) <=> text[i + 1] \in set
        BY <2>4 DEF Fine
      <3>3. SkipAt(text, i + 1) = 0
        BY <2>2, <2>4 DEF SkipAt
      <3>4. next.ok = (text[i + 1] \in set) /\ next.skip = 0
        BY <3>1
      <3> QED  BY <1>3, <1>31, <1>7, <3>2, <3>3, <3>4 DEF set
    <2> QED  BY <2>3, <2>4
  <1> QED  BY <1>4, <1>5, <1>6, <1>7 DEF set

LEMMA ComponentIs ==
    ASSUME NEW text \in CharText, NEW extra, "%" \notin extra
    PROVE  Component(text, extra) <=> Chars(text, RegChars \cup extra)
  <1> DEFINE set == RegChars \cup extra
             N == Len(text)
             c == Looked(text, extra)
             Sound(i) == /\ c[i] \in Looks
                         /\ c[i].ok <=> AllFine(text, set, i)
                         /\ c[i].ok => c[i].skip = SkipAt(text, i)
             S == {i \in 0 .. N : Sound(i)}
  <1>0. N \in Nat
    BY DEF CharText
  <1>1. /\ c[0] = [ok |-> TRUE, skip |-> 0]
        /\ \A i \in 1 .. N : c[i - 1] \in Looks => c[i] = LookAt(c[i - 1], text, i, extra)
    BY LookedSteps
  <1> HIDE DEF c, set
  <1>2. Sound(0)
    <2>1. AllFine(text, set, 0)
      BY DEF AllFine
    <2>2. SkipAt(text, 0) = 0
      BY DEF SkipAt
    <2> QED  BY <1>1, <2>1, <2>2 DEF Looks
  <1>3. ASSUME NEW i \in 0 .. N, Sound(i), i < N PROVE Sound(i + 1)
    <2>1. i \in 0 .. N - 1 /\ i + 1 \in 1 .. N /\ (i + 1) - 1 = i
      BY <1>0, <1>3
    <2>2. c[i + 1] = LookAt(c[i], text, i + 1, extra)
      BY <1>1, <1>3, <2>1
    <2>3. c[i + 1] \in Looks
      BY <1>3, <2>2, LooksClosed
    <2>4. /\ c[i + 1].ok <=> AllFine(text, set, i + 1)
          /\ c[i + 1].ok => c[i + 1].skip = SkipAt(text, i + 1)
      BY <1>3, <2>1, <2>2, LookKeeps DEF set
    <2> QED  BY <2>3, <2>4
  <1> HIDE DEF Sound
  <1>4. 0 \in S /\ \A i \in 0 .. N : i \in S /\ i < N => i + 1 \in S
    <2>1. \A i \in 0 .. N : i < N => i + 1 \in 0 .. N
      BY <1>0
    <2>2. 0 \in 0 .. N
      BY <1>0
    <2> HIDE DEF N
    <2> QED  BY <1>2, <1>3, <2>1, <2>2
  <1>5. 0 .. N \subseteq S
    <2> HIDE DEF S, N
    <2> QED  BY <1>0, <1>4, Counting
  <1>6. Sound(N)
    BY <1>0, <1>5
  <1>7. Component(text, extra) <=> AllFine(text, set, N)
    BY <1>6 DEF Component, Sound, c
  <1>8. AllFine(text, set, N) <=> Chars(text, set)
    <2>1. \A i \in 1 .. N : Fine(text, set, i) <=>
                 \/ text[i] \in set
                 \/ text[i] = "%" /\ i + 2 <= Len(text) /\ {text[i + 1], text[i + 2]} \subseteq Hex
      BY DEF Fine, Escape
    <2> QED  BY <2>1 DEF AllFine, Chars
  <1> QED  BY <1>7, <1>8 DEF set
\* The groups of an IPv6 address: from one colon to the next.
LEMMA BehindSteps ==
    ASSUME NEW text \in CharText
    PROVE  LET b == Behind(text) IN
           /\ b[0] = {1}
           /\ \A n \in Nat : b[n] \subseteq 1 .. Len(text) + 1
           /\ \A n \in Nat : \A x :
              x \in b[n + 1] <=> /\ x \in 2 .. Len(text) + 1 /\ text[x - 1] = ":"
                                 /\ \E a \in b[n] : IsGroup(text, a, x - 2)
  <1> DEFINE N == Len(text)
             b == Behind(text)
             On(starts) == {c + 1 : c \in {i \in 1 .. N : /\ text[i] = ":"
                                                          /\ \E a \in starts : IsGroup(text, a, i - 1)}}
             step == [n \in Nat |-> [starts \in SUBSET (1 .. N + 1) |-> On(starts)]]
  <1>0. N \in Nat
    BY DEF CharText
  <1>1. \A n \in Nat : b[n] = IF n = 0 THEN {1} ELSE step[n][b[n - 1]]
    <2>1. b = Iterate({1}, step)
      BY DEF Behind
    <2> HIDE DEF b, step
    <2> QED  BY <2>1, IterateUnfolds
  <1> HIDE DEF b
  <1>2. b[0] = {1}
    <2> HIDE DEF step
    <2> QED  BY <1>1
  <1>3. ASSUME NEW n \in Nat, b[n] \in SUBSET (1 .. N + 1) PROVE b[n + 1] = On(b[n])
    <2>1. n + 1 \in Nat /\ n + 1 # 0 /\ (n + 1) - 1 = n
      OBVIOUS
    <2>2. b[n + 1] = step[n + 1][b[n]]
      <3> HIDE DEF step
      <3> QED  BY <1>1, <2>1
    <2>3. step[n + 1] = [starts \in SUBSET (1 .. N + 1) |-> On(starts)]
      <3> HIDE DEF On
      <3> QED  BY <2>1
    <2> HIDE DEF step, On
    <2> QED  BY <1>3, <2>2, <2>3
  <1>4. \A starts : On(starts) \in SUBSET (1 .. N + 1)
    BY <1>0
  <1>5. \A starts, x : x \in On(starts) <=>
              x \in 2 .. N + 1 /\ text[x - 1] = ":" /\ \E a \in starts : IsGroup(text, a, x - 2)
    <2>1. ASSUME NEW starts, NEW x \in On(starts)
          PROVE  x \in 2 .. N + 1 /\ text[x - 1] = ":" /\ \E a \in starts : IsGroup(text, a, x - 2)
      <3>1. PICK c \in 1 .. N : /\ x = c + 1 /\ text[c] = ":"
                                /\ \E a \in starts : IsGroup(text, a, c - 1)
        OBVIOUS
      <3>2. x - 1 = c /\ x - 2 = c - 1 /\ x \in 2 .. N + 1
        BY <1>0, <3>1
      <3> QED  BY <3>1, <3>2
    <2>2. ASSUME NEW starts, NEW x \in 2 .. N + 1, text[x - 1] = ":",
                 NEW a \in starts, IsGroup(text, a, x - 2)
          PROVE  x \in On(starts)
      <3>1. x - 1 \in 1 .. N /\ (x - 1) + 1 = x /\ (x - 1) - 1 = x - 2
        BY <1>0
      <3> QED  BY <2>2, <3>1
    <2> HIDE DEF On
    <2> QED  BY <2>1, <2>2
  <1> HIDE DEF On, step
  <1>6. ASSUME NEW M \in Nat PROVE b[M] \in SUBSET (1 .. N + 1)
    <2> DEFINE S == {n \in 0 .. M : b[n] \in SUBSET (1 .. N + 1)}
    <2>1. 0 \in S
      BY <1>0, <1>2
    <2>2. \A n \in 0 .. M : n \in S /\ n < M => n + 1 \in S
      <3> SUFFICES ASSUME NEW n \in 0 .. M, b[n] \in SUBSET (1 .. N + 1), n < M
                   PROVE  n + 1 \in 0 .. M /\ b[n + 1] \in SUBSET (1 .. N + 1)
        OBVIOUS
      <3>1. n \in Nat /\ n + 1 \in 0 .. M
        OBVIOUS
      <3> QED  BY <1>3, <1>4, <3>1
    <2>3. 0 .. M \subseteq S
      <3> HIDE DEF S
      <3> QED  BY <2>1, <2>2, Counting
    <2> QED  BY <2>3
  <1>7. \A n \in Nat : \A x : x \in b[n + 1] <=>
              x \in 2 .. N + 1 /\ text[x - 1] = ":" /\ \E a \in b[n] : IsGroup(text, a, x - 2)
    <2> SUFFICES ASSUME NEW n \in Nat
                 PROVE  \A x : x \in b[n + 1] <=>
                    x \in 2 .. N + 1 /\ text[x - 1] = ":" /\ \E a \in b[n] : IsGroup(text, a, x - 2)
      OBVIOUS
    <2>1. b[n + 1] = On(b[n])
      BY <1>3, <1>6
    <2> QED  BY <1>5, <2>1
  <1> QED  BY <1>2, <1>6, <1>7 DEF b

\* From a place, only the first colon ends the group; behind none, there is nothing.
LEMMA BehindNext ==
    ASSUME NEW text \in CharText, NEW n \in Nat, NEW at, Behind(text)[n] = {at}
    PROVE  LET f == FindFrom(text, ":", at) IN
           Behind(text)[n + 1] = IF f # 0 /\ IsGroup(text, at, f - 1) THEN {f + 1} ELSE {}
  <1> DEFINE f == FindFrom(text, ":", at)
             b == Behind(text)
             N == Len(text)
  <1>0. N \in Nat
    BY DEF CharText
  <1>1. at \in 1 .. N + 1
    BY BehindSteps
  <1>2. at \in Nat \ {0}
    BY <1>0, <1>1
  <1>3. \/ f = 0 /\ \A i \in at .. N : text[i] # ":"
        \/ f \in at .. N /\ text[f] = ":" /\ \A i \in at .. f - 1 : text[i] # ":"
    BY <1>2, FindFromIs
  <1>4. \A x : x \in b[n + 1] <=> x \in 2 .. N + 1 /\ text[x - 1] = ":" /\ IsGroup(text, at, x - 2)
    BY BehindSteps
  <1>5. \A i, j \in Int : IsGroup(text, i, j) => i <= j /\ \A k \in i .. j : text[k] # ":"
    BY DEF IsGroup, Hex
  <1> HIDE DEF f, b, N
  <1>6. ASSUME NEW x \in b[n + 1] PROVE f # 0 /\ x = f + 1 /\ IsGroup(text, at, f - 1)
    <2>1. x \in 2 .. N + 1 /\ text[x - 1] = ":" /\ IsGroup(text, at, x - 2)
      BY <1>4
    <2>2. at <= x - 2 /\ \A k \in at .. x - 2 : text[k] # ":"
      BY <1>0, <1>1, <1>5, <2>1
    <2>3. x - 1 \in at .. N
      BY <1>0, <1>1, <2>1, <2>2
    <2>4. f \in at .. N /\ text[f] = ":" /\ \A i \in at .. f - 1 : text[i] # ":"
      BY <1>3, <2>1, <2>3
    <2>5. ~ (x - 1 < f)
      <3>1. x - 1 < f => x - 1 \in at .. f - 1
        BY <1>0, <1>1, <2>3, <2>4
      <3> QED  BY <2>1, <2>4, <3>1
    <2>6. ~ (f < x - 1)
      <3>1. f < x - 1 => f \in at .. x - 2
        BY <1>0, <1>1, <2>1, <2>4
      <3> QED  BY <2>2, <2>4, <3>1
    <2>7. f = x - 1
      BY <1>0, <1>1, <2>1, <2>4, <2>5, <2>6
    <2>8. f # 0 /\ x = f + 1 /\ f - 1 = x - 2
      BY <1>0, <1>1, <2>1, <2>4, <2>7
    <2> QED  BY <2>1, <2>8
  <1>7. ASSUME f # 0, IsGroup(text, at, f - 1) PROVE f + 1 \in b[n + 1]
    <2>1. f \in at .. N /\ text[f] = ":"
      BY <1>3, <1>7
    <2>2. at <= f - 1
      BY <1>7 DEF IsGroup
    <2>3. f + 1 \in 2 .. N + 1 /\ (f + 1) - 1 = f /\ (f + 1) - 2 = f - 1
      BY <1>0, <1>1, <2>1
    <2> QED  BY <1>4, <1>7, <2>1, <2>3
  <1>8. b[n + 1] = IF f # 0 /\ IsGroup(text, at, f - 1) THEN {f + 1} ELSE {}
    BY <1>6, <1>7
  <1> QED  BY <1>8 DEF f, b

LEMMA BehindNothing ==
    ASSUME NEW text \in CharText, NEW n \in Nat, Behind(text)[n] = {}
    PROVE  \A m \in Nat : m >= n => Behind(text)[m] = {}
  <1> SUFFICES ASSUME NEW m \in Nat, m >= n PROVE Behind(text)[m] = {}
    OBVIOUS
  <1> DEFINE b == Behind(text)
             S == {k \in n .. m : b[k] = {}}
  <1>1. \A k \in Nat : \A x :
              x \in b[k + 1] <=> /\ x \in 2 .. Len(text) + 1 /\ text[x - 1] = ":"
                                 /\ \E a \in b[k] : IsGroup(text, a, x - 2)
    BY BehindSteps
  <1>2. n \in S
    OBVIOUS
  <1> HIDE DEF b
  <1>3. \A k \in n .. m : k \in S /\ k < m => k + 1 \in S
    <2> SUFFICES ASSUME NEW k \in n .. m, b[k] = {}, k < m PROVE k + 1 \in n .. m /\ b[k + 1] = {}
      OBVIOUS
    <2>1. k \in Nat /\ k + 1 \in n .. m
      OBVIOUS
    <2> QED  BY <1>1, <2>1
  <1>4. n .. m \subseteq S
    <2> HIDE DEF S
    <2> QED  BY <1>2, <1>3, CountingFrom
  <1> QED  BY <1>4 DEF b

\* Before such a place there are groups and single colons.
Tidy(text, a) == /\ \A j \in 1 .. a - 1 : text[j] \in Hex \cup {":"}
                 /\ \A j \in 1 .. a - 2 : ~(text[j] = ":" /\ text[j + 1] = ":")

LEMMA TidyGroup ==
    ASSUME NEW text \in CharText, NEW a \in Nat \ {0}, NEW e \in Nat, Tidy(text, a),
           IsGroup(text, a, e)
    PROVE  /\ \A j \in 1 .. e : text[j] \in Hex \cup {":"}
           /\ \A j \in 1 .. e - 1 : ~(text[j] = ":" /\ text[j + 1] = ":")
           /\ text[e] \in Hex
  <1>1. a <= e /\ \A j \in a .. e : text[j] \in Hex
    BY DEF IsGroup
  <1>2. ":" \notin Hex
    BY DEF Hex
  <1>3. ASSUME NEW j \in 1 .. e PROVE text[j] \in Hex \cup {":"}
    <2>1. j \in 1 .. a - 1 \/ j \in a .. e
      OBVIOUS
    <2> QED  BY <1>1, <2>1 DEF Tidy
  <1>4. ASSUME NEW j \in 1 .. e - 1 PROVE ~(text[j] = ":" /\ text[j + 1] = ":")
    <2>1. j \in 1 .. a - 2 \/ j + 1 \in a .. e
      OBVIOUS
    <2> QED  BY <1>1, <1>2, <2>1 DEF Tidy
  <1>5. e \in a .. e
    BY <1>1
  <1> QED  BY <1>1, <1>3, <1>4, <1>5

LEMMA BehindTidy ==
    ASSUME NEW text \in CharText, NEW m \in Nat
    PROVE  \A a \in Behind(text)[m] : Tidy(text, a)
  <1> DEFINE b == Behind(text)
             AllTidy(n) == \A a \in b[n] : Tidy(text, a)
             S == {n \in 0 .. m : AllTidy(n)}
  <1>0. Len(text) \in Nat
    BY DEF CharText
  <1>1. /\ b[0] = {1}
        /\ \A n \in Nat : b[n] \subseteq 1 .. Len(text) + 1
        /\ \A n \in Nat : \A x :
              x \in b[n + 1] <=> /\ x \in 2 .. Len(text) + 1 /\ text[x - 1] = ":"
                                 /\ \E a \in b[n] : IsGroup(text, a, x - 2)
    BY BehindSteps
  <1> HIDE DEF b
  <1>2. AllTidy(0)
    <2>1. Tidy(text, 1)
      BY DEF Tidy
    <2> QED  BY <1>1, <2>1
  <1>3. ASSUME NEW n \in Nat, AllTidy(n) PROVE AllTidy(n + 1)
    <2> SUFFICES ASSUME NEW x \in b[n + 1] PROVE Tidy(text, x)
      OBVIOUS
    <2>1. PICK a \in b[n] : x \in 2 .. Len(text) + 1 /\ text[x - 1] = ":" /\ IsGroup(text, a, x - 2)
      BY <1>1
    <2>2. a \in Nat \ {0} /\ x - 2 \in Nat /\ Tidy(text, a) /\ x \in Nat
      BY <1>0, <1>1, <1>3, <2>1
    <2>3. /\ \A j \in 1 .. x - 2 : text[j] \in Hex \cup {":"}
          /\ \A j \in 1 .. (x - 2) - 1 : ~(text[j] = ":" /\ text[j + 1] = ":")
          /\ text[x - 2] \in Hex
      BY <2>1, <2>2, TidyGroup
    <2>4. ASSUME NEW j \in 1 .. x - 1 PROVE text[j] \in Hex \cup {":"}
      <3>1. j \in 1 .. x - 2 \/ j = x - 1
        BY <2>2
      <3> QED  BY <2>1, <2>3, <3>1
    <2>5. ASSUME NEW j \in 1 .. x - 2 PROVE ~(text[j] = ":" /\ text[j + 1] = ":")
      <3>1. j \in 1 .. (x - 2) - 1 \/ j = x - 2
        BY <2>2
      <3>2. ":" \notin Hex
        BY DEF Hex
      <3> QED  BY <2>3, <3>1, <3>2
    <2> QED  BY <2>4, <2>5 DEF Tidy
  <1> HIDE DEF AllTidy
  <1>4. 0 \in S /\ \A n \in 0 .. m : n \in S /\ n < m => n + 1 \in S
    <2>1. \A n \in 0 .. m : n \in Nat /\ (n < m => n + 1 \in 0 .. m)
      OBVIOUS
    <2> QED  BY <1>2, <1>3, <2>1
  <1>5. 0 .. m \subseteq S
    <2> HIDE DEF S
    <2> QED  BY <1>4, Counting
  <1>6. AllTidy(m)
    BY <1>5
  <1> QED  BY <1>6 DEF AllTidy, b
LEMMA PiecesTidy ==
    ASSUME NEW text \in CharText, NEW n \in Nat, NEW tail \in BOOLEAN, Pieces(text, n, tail)
    PROVE  /\ \A j \in 1 .. Len(text) : text[j] \in Hex \cup {":", "4"}
           /\ \A j \in 1 .. Len(text) - 1 : ~(text[j] = ":" /\ text[j + 1] = ":")
           /\ Len(text) # 0 => text[Len(text)] # ":"
  <1>0. Len(text) \in Nat /\ ":" \notin Hex
    BY DEF CharText, Hex
  <1>1. ASSUME NEW m \in Nat, NEW a \in Behind(text)[m]
        PROVE  a \in Nat \ {0} /\ Tidy(text, a)
    <2>1. a \in 1 .. Len(text) + 1
      BY BehindSteps
    <2> QED  BY <1>0, <2>1, BehindTidy
  <1>2. CASE text = <<>>
    BY <1>2
  <1>3. ASSUME n > 0, NEW a \in Behind(text)[n - 1], IsGroup(text, a, Len(text))
        PROVE  /\ \A j \in 1 .. Len(text) : text[j] \in Hex \cup {":", "4"}
               /\ \A j \in 1 .. Len(text) - 1 : ~(text[j] = ":" /\ text[j + 1] = ":")
               /\ text[Len(text)] # ":"
    <2>1. n - 1 \in Nat
      BY <1>3
    <2>2. a \in Nat \ {0} /\ Tidy(text, a)
      BY <1>1, <2>1
    <2>3. /\ \A j \in 1 .. Len(text) : text[j] \in Hex \cup {":"}
          /\ \A j \in 1 .. Len(text) - 1 : ~(text[j] = ":" /\ text[j + 1] = ":")
          /\ text[Len(text)] \in Hex
      BY <1>0, <1>3, <2>2, TidyGroup
    <2> QED  BY <1>0, <2>3
  <1>4. ASSUME n > 1, NEW a \in Behind(text)[n - 2], a = Len(text), text[a] = "4"
        PROVE  /\ \A j \in 1 .. Len(text) : text[j] \in Hex \cup {":", "4"}
               /\ \A j \in 1 .. Len(text) - 1 : ~(text[j] = ":" /\ text[j + 1] = ":")
               /\ text[Len(text)] # ":"
    <2>1. n - 2 \in Nat
      BY <1>4
    <2>2. a \in Nat \ {0} /\ Tidy(text, a)
      BY <1>1, <2>1
    <2>3. ASSUME NEW j \in 1 .. Len(text) PROVE text[j] \in Hex \cup {":", "4"}
      <3>1. j \in 1 .. a - 1 \/ j = a
        BY <1>0, <1>4
      <3> QED  BY <1>4, <2>2, <3>1 DEF Tidy
    <2>4. ASSUME NEW j \in 1 .. Len(text) - 1 PROVE ~(text[j] = ":" /\ text[j + 1] = ":")
      <3>1. j \in 1 .. a - 2 \/ j + 1 = a
        BY <1>0, <1>4
      <3> QED  BY <1>4, <2>2, <3>1 DEF Tidy
    <2> QED  BY <1>4, <2>3, <2>4
  <1> QED  BY <1>2, <1>3, <1>4 DEF Pieces

\* How far the count is: either at the next group, or done.
AtGroup(part, at, groups) ==
    /\ Behind(part)[groups] = {at}
    /\ \A m \in 0 .. groups - 1 : \A b \in Behind(part)[m] : FindFrom(part, ":", b) # 0

CountSound(part, tail, st) ==
    /\ st \in Counts /\ st.at \in 1 .. Len(part) + 1
    /\ st.ok /\ st.at <= Len(part) => AtGroup(part, st.at, st.groups)
    /\ st.ok /\ st.at = Len(part) + 1 => \A n \in Nat : Pieces(part, n, tail) <=> n = st.groups
    /\ ~st.ok => st.at = Len(part) + 1 /\ \A n \in Nat : ~Pieces(part, n, tail)

\* No reading ends at a group that a colon ends.
LEMMA NoEarlyEnd ==
    ASSUME NEW part \in CharText, NEW b \in 1 .. Len(part) + 1, FindFrom(part, ":", b) # 0
    PROVE  ~IsGroup(part, b, Len(part)) /\ ~(b = Len(part) /\ part[b] = "4")
  <1>0. Len(part) \in Nat /\ b \in Nat \ {0}
    BY DEF CharText
  <1> DEFINE f == FindFrom(part, ":", b)
  <1>1. f \in b .. Len(part) /\ part[f] = ":"
    BY <1>0, FindFromIs
  <1> HIDE DEF f
  <1>2. ":" \notin Hex
    BY DEF Hex
  <1>3. b = Len(part) => f = b
    BY <1>0, <1>1
  <1> QED  BY <1>1, <1>2, <1>3 DEF IsGroup

\* Behind the group where the count is, either a next one begins or no reading has another.
LEMMA ReadingsFrom ==
    ASSUME NEW part \in CharText, NEW tail \in BOOLEAN, NEW groups \in Nat,
           NEW at \in 1 .. Len(part), AtGroup(part, at, groups)
    PROVE  LET f == FindFrom(part, ":", at) IN
           /\ f = 0 => \A n \in Nat : Pieces(part, n, tail) <=>
                  \/ n = groups + 1 /\ IsGroup(part, at, Len(part))
                  \/ tail /\ n = groups + 2 /\ at = Len(part) /\ part[at] = "4"
           /\ f # 0 /\ ~IsGroup(part, at, f - 1) => \A n \in Nat : ~Pieces(part, n, tail)
           /\ f # 0 /\ IsGroup(part, at, f - 1) =>
                  AtGroup(part, f + 1, groups + 1)
  <1> DEFINE f == FindFrom(part, ":", at)
             b == Behind(part)
             N == Len(part)
             Four(a) == a = N /\ part[a] = "4"
  <1>0. N \in Nat /\ groups + 1 \in Nat
    BY DEF CharText
  <1>1. /\ b[groups] = {at}
        /\ \A m \in 0 .. groups - 1 : \A a \in b[m] : FindFrom(part, ":", a) # 0
    BY DEF AtGroup
  <1>2. b[groups + 1] = IF f # 0 /\ IsGroup(part, at, f - 1) THEN {f + 1} ELSE {}
    BY <1>1, BehindNext
  <1>3. \A m \in Nat : b[m] \subseteq 1 .. N + 1
    BY BehindSteps
  <1>4. part # <<>>
    BY <1>0
  <1>5. ASSUME NEW n \in Nat
        PROVE  Pieces(part, n, tail) <=> \/ n > 0 /\ \E a \in b[n - 1] : IsGroup(part, a, N)
                                         \/ tail /\ n > 1 /\ \E a \in b[n - 2] : Four(a)
    BY <1>4 DEF Pieces
  <1> HIDE DEF f, b
  <1>6. ASSUME NEW m \in 0 .. groups - 1, NEW a \in b[m]
        PROVE  ~IsGroup(part, a, N) /\ ~Four(a)
    <2>1. FindFrom(part, ":", a) # 0 /\ a \in 1 .. N + 1
      BY <1>1, <1>3, <1>6
    <2> QED  BY <2>1, NoEarlyEnd
  <1> HIDE DEF Four, N
  <1>7. ASSUME b[groups + 1] = {}, NEW m \in Nat, m > groups PROVE b[m] = {}
    <2>1. m >= groups + 1
      BY <1>7
    <2> QED  BY <1>0, <1>7, <2>1, BehindNothing DEF b
  <1>8. ASSUME b[groups + 1] = {}, NEW m \in Nat
        PROVE  /\ (\E a \in b[m] : IsGroup(part, a, N)) <=> m = groups /\ IsGroup(part, at, N)
               /\ (\E a \in b[m] : Four(a)) <=> m = groups /\ Four(at)
    <2>1. CASE m < groups
      <3>1. m \in 0 .. groups - 1 /\ m # groups
        BY <2>1
      <3> QED  BY <1>6, <3>1
    <2>2. CASE m > groups
      <3>1. b[m] = {} /\ m # groups
        BY <1>7, <1>8, <2>2
      <3> QED  BY <3>1
    <2>3. CASE m = groups
      BY <1>1, <2>3
    <2> QED  BY <2>1, <2>2, <2>3
  <1>9. ASSUME b[groups + 1] = {}, NEW n \in Nat
        PROVE  Pieces(part, n, tail) <=> \/ n = groups + 1 /\ IsGroup(part, at, N)
                                         \/ tail /\ n = groups + 2 /\ Four(at)
    <2>1. n > 0 => n - 1 \in Nat /\ (n - 1 = groups <=> n = groups + 1)
      OBVIOUS
    <2>2. n > 1 => n - 2 \in Nat /\ (n - 2 = groups <=> n = groups + 2)
      OBVIOUS
    <2>3. (n = groups + 1 => n > 0) /\ (n = groups + 2 => n > 1)
      OBVIOUS
    <2>4. n > 0 => ((\E a \in b[n - 1] : IsGroup(part, a, N)) <=>
                       n = groups + 1 /\ IsGroup(part, at, N))
      BY <1>8, <1>9, <2>1
    <2>5. n > 1 => ((\E a \in b[n - 2] : Four(a)) <=> n = groups + 2 /\ Four(at))
      BY <1>8, <1>9, <2>2
    <2> QED  BY <1>5, <2>3, <2>4, <2>5
  <1>10. f = 0 => \A n \in Nat : Pieces(part, n, tail) <=>
                  \/ n = groups + 1 /\ IsGroup(part, at, N)
                  \/ tail /\ n = groups + 2 /\ Four(at)
    BY <1>2, <1>9
  <1>11. ASSUME f # 0, ~IsGroup(part, at, f - 1), NEW n \in Nat PROVE ~Pieces(part, n, tail)
    <2>1. b[groups + 1] = {}
      BY <1>2, <1>11
    <2>2. at \in 1 .. N + 1 /\ FindFrom(part, ":", at) # 0
      BY <1>0, <1>11 DEF f, N
    <2>3. ~IsGroup(part, at, N) /\ ~Four(at)
      BY <2>2, NoEarlyEnd DEF Four, N
    <2> QED  BY <1>9, <2>1, <2>3
  <1>12. ASSUME f # 0, IsGroup(part, at, f - 1) PROVE AtGroup(part, f + 1, groups + 1)
    <2>1. b[groups + 1] = {f + 1}
      BY <1>2, <1>12
    <2>2. ASSUME NEW m \in 0 .. (groups + 1) - 1, NEW a \in b[m]
          PROVE  FindFrom(part, ":", a) # 0
      <3>1. m \in 0 .. groups - 1 \/ m = groups
        OBVIOUS
      <3>2. CASE m = groups
        <4>1. a = at
          BY <1>1, <2>2, <3>2
        <4> QED  BY <1>12, <4>1 DEF f
      <3> QED  BY <1>1, <3>1, <3>2
    <2> QED  BY <2>1, <2>2 DEF AtGroup, b
  <1> QED  BY <1>10, <1>11, <1>12 DEF f, N, Four
\* No reading ends behind a colon.
LEMMA EndsInColon ==
    ASSUME NEW part \in CharText, NEW tail \in BOOLEAN, Len(part) # 0, part[Len(part)] = ":"
    PROVE  \A n \in Nat : ~Pieces(part, n, tail)
  BY PiecesTidy

LEMMA CountKeeps ==
    ASSUME NEW part \in CharText, NEW tail \in BOOLEAN, NEW st, CountSound(part, tail, st)
    PROVE  LET next == CountGroup(st, part, tail) IN
           /\ CountSound(part, tail, next)
           /\ st.at <= Len(part) => next.at > st.at
           /\ st.at > Len(part) => next = st
  <1> DEFINE N == Len(part)
             f == FindFrom(part, ":", st.at)
             end == IF f = 0 THEN N ELSE f - 1
             ipv4 == tail /\ f = 0 /\ st.at = end /\ part[end] = "4"
             next == CountGroup(st, part, tail)
  <1>0. N \in Nat
    BY DEF CharText
  <1>1. /\ st \in Counts /\ st.at \in 1 .. N + 1
        /\ st.at \in Nat \ {0} /\ st.groups \in Nat /\ st.ok \in BOOLEAN
    BY <1>0 DEF CountSound, Counts
  <1>2. \A at, groups \in Nat, ok \in BOOLEAN : [at |-> at, groups |-> groups, ok |-> ok] \in Counts
    BY DEF Counts
  <1> DEFINE refused == [at |-> N + 1, groups |-> st.groups, ok |-> FALSE]
  <1>21. refused \in Counts /\ refused.at = N + 1 /\ ~refused.ok
    BY <1>0, <1>1 DEF Counts
  <1>3. CASE st.at > N
    BY <1>0, <1>1, <1>3 DEF CountGroup
  <1>4. CASE st.at <= N
    <2>1. st.ok
      BY <1>0, <1>1, <1>4 DEF CountSound
    <2>2. AtGroup(part, st.at, st.groups) /\ st.at \in 1 .. N
      BY <1>0, <1>1, <1>4, <2>1 DEF CountSound
    <2>3. /\ f = 0 => \A n \in Nat : Pieces(part, n, tail) <=>
                  \/ n = st.groups + 1 /\ IsGroup(part, st.at, N)
                  \/ tail /\ n = st.groups + 2 /\ st.at = N /\ part[st.at] = "4"
          /\ f # 0 /\ ~IsGroup(part, st.at, f - 1) => \A n \in Nat : ~Pieces(part, n, tail)
          /\ f # 0 /\ IsGroup(part, st.at, f - 1) =>
                  AtGroup(part, f + 1, st.groups + 1)
      BY <1>1, <2>2, ReadingsFrom
    <2>4. f = 0 \/ f \in st.at .. N
      BY <1>1, FindFromIs
    <2>5. next = IF (~ipv4 /\ ~IsGroup(part, st.at, end)) \/ f = N
                 THEN [at |-> N + 1, groups |-> st.groups, ok |-> FALSE]
                 ELSE [at |-> end + (IF f = 0 THEN 1 ELSE 2),
                       groups |-> st.groups + (IF ipv4 THEN 2 ELSE 1), ok |-> TRUE]
      BY <1>0, <1>1, <1>4 DEF CountGroup
    <2> HIDE DEF f, next, N
    <2>6. CASE f = 0
      <3>1. end = N /\ f # N
        BY <1>0, <2>2, <2>6
      <3>2. ipv4 <=> tail /\ st.at = N /\ part[st.at] = "4"
        BY <2>6, <3>1
      <3>3. \A n \in Nat : Pieces(part, n, tail) <=>
                  \/ n = st.groups + 1 /\ IsGroup(part, st.at, N)
                  \/ n = st.groups + 2 /\ ipv4
        BY <2>3, <2>6, <3>2
      <3>4. ~(ipv4 /\ IsGroup(part, st.at, N))
        <4>1. ASSUME ipv4, IsGroup(part, st.at, N) PROVE FALSE
          <5>1. st.at \in st.at .. N /\ part[st.at] = "4"
            BY <2>2, <3>2, <4>1
          <5>2. part[st.at] \in Hex
            BY <4>1, <5>1 DEF IsGroup
          <5> QED  BY <5>1, <5>2 DEF Hex
        <4> QED  BY <4>1
      <3> HIDE DEF ipv4, end
      <3>5. CASE ~ipv4 /\ ~IsGroup(part, st.at, N)
        <4>1. next = [at |-> N + 1, groups |-> st.groups, ok |-> FALSE]
          BY <2>5, <3>1, <3>5
        <4>2. next \in Counts /\ next.at = N + 1 /\ ~next.ok
          BY <1>21, <4>1
        <4>3. \A n \in Nat : ~Pieces(part, n, tail)
          BY <3>3, <3>5
        <4> QED  BY <1>0, <1>1, <1>4, <4>2, <4>3 DEF CountSound, N, next
      <3>6. CASE ipv4 \/ IsGroup(part, st.at, N)
        <4>1. next = [at |-> N + 1, groups |-> st.groups + (IF ipv4 THEN 2 ELSE 1), ok |-> TRUE]
          BY <2>5, <2>6, <3>1, <3>6
        <4>2. st.groups + (IF ipv4 THEN 2 ELSE 1) \in Nat /\ N + 1 \in Nat
          BY <1>0, <1>1
        <4>3. /\ next \in Counts /\ next.at = N + 1 /\ next.ok
              /\ next.groups = st.groups + (IF ipv4 THEN 2 ELSE 1)
          BY <1>2, <4>1, <4>2
        <4>4. \A n \in Nat : Pieces(part, n, tail) <=> n = next.groups
          <5>1. CASE ipv4
            BY <3>3, <3>4, <4>3, <5>1
          <5>2. CASE ~ipv4
            BY <3>3, <3>6, <4>3, <5>2
          <5> QED  BY <5>1, <5>2
        <4>5. next.at \in 1 .. N + 1 /\ next.at > st.at /\ ~(next.at <= N)
          BY <1>0, <1>1, <1>4, <4>3
        <4> QED  BY <1>0, <1>1, <1>4, <4>3, <4>4, <4>5 DEF CountSound, N, next
      <3> QED  BY <3>5, <3>6
    <2>7. CASE f # 0
      <3>1. end = f - 1 /\ ~ipv4 /\ f \in st.at .. N
        BY <2>4, <2>7
      <3> HIDE DEF ipv4, end
      <3>2. CASE ~IsGroup(part, st.at, f - 1)
        <4>1. next = [at |-> N + 1, groups |-> st.groups, ok |-> FALSE]
          BY <2>5, <3>1, <3>2
        <4>2. next \in Counts /\ next.at = N + 1 /\ ~next.ok
          BY <1>21, <4>1
        <4>3. \A n \in Nat : ~Pieces(part, n, tail)
          BY <2>3, <2>7, <3>2
        <4> QED  BY <1>0, <1>1, <1>4, <4>2, <4>3 DEF CountSound, N, next
      <3>3. CASE IsGroup(part, st.at, f - 1)
        <4>1. AtGroup(part, f + 1, st.groups + 1)
          BY <2>3, <2>7, <3>3
        <4>2. CASE f = N
          <5>1. next = [at |-> N + 1, groups |-> st.groups, ok |-> FALSE]
            BY <2>5, <4>2
          <5>2. next \in Counts /\ next.at = N + 1 /\ ~next.ok
            BY <1>21, <5>1
          <5>3. \A n \in Nat : ~Pieces(part, n, tail)
            <6>1. N # 0 /\ part[N] = ":"
              BY <1>0, <1>1, <2>7, <3>1, <4>2, FindFromIs DEF f
            <6> QED  BY <6>1, EndsInColon DEF N
          <5> QED  BY <1>0, <1>1, <1>4, <5>2, <5>3 DEF CountSound, N, next
        <4>3. CASE f # N
          <5>1. next = [at |-> (f - 1) + 2, groups |-> st.groups + 1, ok |-> TRUE]
            BY <2>5, <2>7, <3>1, <3>3, <4>3
          <5>2. (f - 1) + 2 = f + 1 /\ f + 1 \in 1 .. N /\ f + 1 > st.at
                /\ f + 1 \in Nat /\ st.groups + 1 \in Nat
            BY <1>0, <1>1, <3>1, <4>3
          <5>3. /\ next \in Counts /\ next.at = f + 1 /\ next.ok /\ next.groups = st.groups + 1
            BY <1>2, <5>1, <5>2
          <5>4. next.at \in 1 .. N + 1 /\ next.at # N + 1 /\ next.at > st.at
            BY <1>0, <5>2, <5>3
          <5> QED  BY <1>0, <1>1, <1>4, <4>1, <5>3, <5>4 DEF CountSound, N, next
        <4> QED  BY <4>2, <4>3
      <3> QED  BY <3>2, <3>3
    <2> QED  BY <2>6, <2>7
  <1> QED  BY <1>0, <1>1, <1>3, <1>4

\* count_groups says what the grammar says, and how many groups there are.
LEMMA CountIs ==
    ASSUME NEW part \in CharText, NEW tail \in BOOLEAN
    PROVE  LET c == CountGroups(part, tail) IN
           /\ c.groups \in Nat
           /\ \A n \in Nat : Pieces(part, n, tail) <=> c.ok /\ c.groups = n
  <1> DEFINE N == Len(part)
             c == CountedGroups(part, tail)
             start == [at |-> 1, groups |-> 0, ok |-> TRUE]
             step == [i \in 1 .. N |-> [st \in Counts |-> CountGroup(st, part, tail)]]
             Sound(i) == CountSound(part, tail, c[i]) /\ (c[i].at > i \/ c[i].at > N)
             S == {i \in 0 .. N : Sound(i)}
  <1>0. N \in Nat
    BY DEF CharText
  <1>1. \A n \in Nat : c[n] = IF n = 0 THEN start ELSE step[n][c[n - 1]]
    <2>1. c = Iterate(start, step)
      BY DEF CountedGroups
    <2> HIDE DEF c, step, start
    <2> QED  BY <2>1, IterateUnfolds
  <1> HIDE DEF c
  <1>2. Sound(0)
    <2>1. c[0] = start
      <3> HIDE DEF step, start
      <3> QED  BY <1>1
    <2>2. start \in Counts /\ start.at = 1 /\ start.groups = 0 /\ start.ok
      BY DEF Counts
    <2>3. Behind(part)[0] = {1}
      BY BehindSteps
    <2>4. AtGroup(part, 1, 0)
      BY <2>3 DEF AtGroup
    <2>5. 1 = N + 1 => \A n \in Nat : Pieces(part, n, tail) <=> n = 0
      <3> SUFFICES ASSUME 1 = N + 1, NEW n \in Nat PROVE Pieces(part, n, tail) <=> n = 0
        OBVIOUS
      <3>1. N = 0 /\ part = <<>>
        BY <1>0 DEF CharText
      <3>2. \A m \in Nat : Behind(part)[m] \subseteq 1 .. 1
        BY <3>1, BehindSteps
      <3>3. \A m \in Nat : \A a \in Behind(part)[m] : a = 1 /\ ~(a <= N) /\ a # N
        BY <3>1, <3>2
      <3>4. n > 0 => n - 1 \in Nat
        OBVIOUS
      <3>5. n > 1 => n - 2 \in Nat
        OBVIOUS
      <3>6. n > 0 => ~ \E a \in Behind(part)[n - 1] : IsGroup(part, a, N)
        BY <3>3, <3>4 DEF IsGroup
      <3>7. n > 1 => ~ \E a \in Behind(part)[n - 2] : a = N /\ part[a] = "4"
        BY <3>3, <3>5
      <3> QED  BY <3>1, <3>6, <3>7 DEF Pieces
    <2>6. 1 \in 1 .. N + 1
      BY <1>0
    <2> HIDE DEF start
    <2>7. CountSound(part, tail, c[0])
      BY <2>1, <2>2, <2>4, <2>5, <2>6 DEF CountSound
    <2> QED  BY <2>1, <2>2, <2>7
  <1>3. ASSUME NEW i \in 0 .. N, Sound(i), i < N PROVE Sound(i + 1)
    <2>1. i + 1 \in 1 .. N /\ i + 1 \in Nat /\ i + 1 # 0 /\ (i + 1) - 1 = i
      BY <1>0, <1>3
    <2>2. c[i + 1] = step[i + 1][c[i]]
      <3> HIDE DEF step, start
      <3> QED  BY <1>1, <2>1
    <2>3. step[i + 1] = [st \in Counts |-> CountGroup(st, part, tail)]
      BY <2>1
    <2>4. c[i] \in Counts /\ c[i].at \in 1 .. N + 1
      BY <1>3 DEF CountSound
    <2>5. c[i + 1] = CountGroup(c[i], part, tail)
      <3> HIDE DEF step
      <3> QED  BY <2>2, <2>3, <2>4
    <2>6. /\ CountSound(part, tail, c[i + 1])
          /\ c[i].at <= N => c[i + 1].at > c[i].at
          /\ c[i].at > N => c[i + 1] = c[i]
      BY <1>3, <2>5, CountKeeps
    <2>7. c[i + 1].at \in 1 .. N + 1
      BY <2>6 DEF CountSound
    <2>8. c[i + 1].at > i + 1 \/ c[i + 1].at > N
      <3> DEFINE x == c[i].at
                 y == c[i + 1].at
      <3>1. /\ x \in 1 .. N + 1 /\ y \in 1 .. N + 1 /\ (x > i \/ x > N)
            /\ (x <= N => y > x) /\ (x > N => y = x)
        BY <1>3, <2>4, <2>6, <2>7
      <3> HIDE DEF x, y
      <3>2. y > i + 1 \/ y > N
        BY <1>0, <1>3, <3>1
      <3> QED  BY <3>2 DEF y
    <2> QED  BY <2>6, <2>8
  <1> HIDE DEF Sound
  <1>4. 0 \in S /\ \A i \in 0 .. N : i \in S /\ i < N => i + 1 \in S
    <2>1. 0 \in 0 .. N /\ \A i \in 0 .. N : i < N => i + 1 \in 0 .. N
      BY <1>0
    <2> HIDE DEF N
    <2> QED  BY <1>2, <1>3, <2>1
  <1>5. 0 .. N \subseteq S
    <2> HIDE DEF S, N
    <2> QED  BY <1>0, <1>4, Counting
  <1>6. Sound(N)
    BY <1>0, <1>5
  <1>7. CountSound(part, tail, c[N]) /\ c[N].at > N
    BY <1>6 DEF Sound
  <1>8. c[N].at = N + 1 /\ c[N].groups \in Nat /\ c[N].ok \in BOOLEAN
    <2>1. c[N].at \in 1 .. N + 1 /\ c[N] \in Counts
      BY <1>7 DEF CountSound
    <2> QED  BY <1>0, <1>7, <2>1 DEF Counts
  <1>9. \A n \in Nat : Pieces(part, n, tail) <=> c[N].ok /\ c[N].groups = n
    <2>1. CASE c[N].ok
      BY <1>7, <1>8, <2>1 DEF CountSound
    <2>2. CASE ~c[N].ok
      BY <1>7, <1>8, <2>2 DEF CountSound
    <2> QED  BY <2>1, <2>2
  <1> QED  BY <1>8, <1>9 DEF CountGroups, c
\* Where the two colons are is where the address is compressed: no group is empty.
LEMMA IpV6Is == ASSUME NEW text \in CharText PROVE IpV6(text) <=> RfcIpV6(text)
  <1> DEFINE f == FindPair(text)
             Pair(i) == text[i] = ":" /\ text[i + 1] = ":"
             all == CountGroups(text, TRUE)
             right(i) == After(text, i + 1)
             Sides(i, m, n) == Pieces(Before(text, i), m, FALSE) /\ Pieces(right(i), n, TRUE)
  <1>0. Len(text) \in Nat /\ Groups \in Nat \ {0}
    BY GroupsAssumption DEF CharText
  <1>1. \/ f = 0 /\ \A i \in 1 .. Len(text) - 1 : ~Pair(i)
        \/ f \in 1 .. Len(text) - 1 /\ Pair(f) /\ \A i \in 1 .. f - 1 : ~Pair(i)
    BY FindPairIs
  <1>2. ASSUME NEW i \in 1 .. Len(text) - 1
        PROVE  /\ i \in 1 .. Len(text) /\ i + 1 \in 1 .. Len(text)
               /\ Before(text, i) \in CharText /\ Len(Before(text, i)) = i - 1
               /\ \A j \in 1 .. i - 1 : Before(text, i)[j] = text[j]
               /\ right(i) \in CharText
    <2>1. i \in 1 .. Len(text) /\ i + 1 \in 1 .. Len(text)
      BY <1>0
    <2> QED  BY <2>1, CutIs
  <1> HIDE DEF f, right
  <1>3. RfcIpV6(text) <=> \/ Pieces(text, Groups, TRUE)
                          \/ \E i \in 1 .. Len(text) - 1, m, n \in 0 .. Groups - 1 :
                                Pair(i) /\ m + n < Groups /\ Sides(i, m, n)
    BY DEF RfcIpV6, right
  <1>4. CASE f = 0
    <2>1. IpV6(text) <=> all.ok /\ all.groups = Groups
      BY <1>4 DEF IpV6, f
    <2>2. Pieces(text, Groups, TRUE) <=> all.ok /\ all.groups = Groups
      BY <1>0, CountIs
    <2>3. \A i \in 1 .. Len(text) - 1 : ~Pair(i)
      BY <1>1, <1>4
    <2> HIDE DEF Pair, Sides, all
    <2> QED  BY <1>3, <2>1, <2>2, <2>3
  <1>5. CASE f # 0
    <2> DEFINE l == CountGroups(Before(text, f), FALSE)
               r == CountGroups(right(f), TRUE)
    <2>1. f \in 1 .. Len(text) - 1 /\ Pair(f) /\ \A i \in 1 .. f - 1 : ~Pair(i)
      BY <1>1, <1>5
    <2>2. Before(text, f) \in CharText /\ right(f) \in CharText
      BY <1>2, <2>1
    <2>3. /\ l.groups \in Nat /\ r.groups \in Nat
          /\ \A n \in Nat : Pieces(Before(text, f), n, FALSE) <=> l.ok /\ l.groups = n
          /\ \A n \in Nat : Pieces(right(f), n, TRUE) <=> r.ok /\ r.groups = n
      BY <2>2, CountIs
    <2>4. IpV6(text) <=> FindPair(right(f)) = 0 /\ l.ok /\ r.ok /\ l.groups + r.groups < Groups
      BY <1>5 DEF IpV6, f, right
    <2>5. ~Pieces(text, Groups, TRUE)
      BY <1>0, <2>1, PiecesTidy
    <2>6. ASSUME NEW i \in 1 .. Len(text) - 1, NEW m \in Nat, NEW n \in Nat, Pair(i), Sides(i, m, n)
          PROVE  i = f /\ FindPair(right(f)) = 0
      <3>1. /\ Before(text, i) \in CharText /\ Len(Before(text, i)) = i - 1
            /\ \A j \in 1 .. i - 1 : Before(text, i)[j] = text[j]
            /\ right(i) \in CharText
        BY <1>2
      <3>2. /\ \A j \in 1 .. (i - 1) - 1 : ~(/\ Before(text, i)[j] = ":"
                                             /\ Before(text, i)[j + 1] = ":")
            /\ i - 1 # 0 => Before(text, i)[i - 1] # ":"
        BY <2>6, <3>1, PiecesTidy
      <3>3. i \in Nat /\ f \in Nat /\ f >= 1 /\ f + 1 \in Nat
        BY <1>0, <2>1
      <3>4. ~(i < f)
        BY <2>1, <2>6, <3>3
      <3>5. i # f + 1
        <4>1. ASSUME i = f + 1 PROVE FALSE
          <5>1. i - 1 = f /\ i - 1 # 0 /\ f \in 1 .. i - 1
            BY <3>3, <4>1
          <5> QED  BY <2>1, <3>1, <3>2, <5>1
        <4> QED  BY <4>1
      <3>6. ~(i > f + 1)
        <4>1. ASSUME i > f + 1 PROVE FALSE
          <5>1. f \in 1 .. (i - 1) - 1 /\ f \in 1 .. i - 1 /\ f + 1 \in 1 .. i - 1
            BY <3>3, <4>1
          <5> QED  BY <2>1, <3>1, <3>2, <5>1
        <4> QED  BY <4>1
      <3>7. i = f
        BY <3>3, <3>4, <3>5, <3>6
      <3>8. \A j \in 1 .. Len(right(f)) - 1 : ~(right(f)[j] = ":" /\ right(f)[j + 1] = ":")
        BY <2>2, <2>6, <3>7, PiecesTidy
      <3>9. FindPair(right(f)) = 0
        BY <2>2, <3>8, FindPairIs
      <3> QED  BY <3>7, <3>9
    <2> HIDE DEF l, r, Pair
    <2>7. ASSUME RfcIpV6(text) PROVE IpV6(text)
      <3>1. PICK i \in 1 .. Len(text) - 1, m \in 0 .. Groups - 1, n \in 0 .. Groups - 1 :
                Pair(i) /\ m + n < Groups /\ Sides(i, m, n)
        <4> HIDE DEF Sides
        <4> QED  BY <1>3, <2>5, <2>7
      <3>2. m \in Nat /\ n \in Nat
        OBVIOUS
      <3>3. i = f /\ FindPair(right(f)) = 0
        BY <2>6, <3>1, <3>2
      <3>4. l.ok /\ l.groups = m /\ r.ok /\ r.groups = n
        BY <2>3, <3>1, <3>2, <3>3
      <3> QED  BY <2>4, <3>1, <3>3, <3>4
    <2>8. ASSUME IpV6(text) PROVE RfcIpV6(text)
      <3>1. l.ok /\ r.ok /\ l.groups + r.groups < Groups
        BY <2>4, <2>8
      <3>2. Sides(f, l.groups, r.groups)
        BY <2>3, <3>1
      <3>3. l.groups \in 0 .. Groups - 1 /\ r.groups \in 0 .. Groups - 1
        <4> DEFINE x == l.groups
                   y == r.groups
        <4>1. x \in Nat /\ y \in Nat /\ x + y < Groups
          BY <2>3, <3>1
        <4> HIDE DEF x, y
        <4>2. x \in 0 .. Groups - 1 /\ y \in 0 .. Groups - 1
          BY <1>0, <4>1
        <4> QED  BY <4>2 DEF x, y
      <3> HIDE DEF Sides
      <3> QED  BY <1>3, <2>1, <3>1, <3>2, <3>3
    <2> QED  BY <2>7, <2>8
  <1> QED  BY <1>4, <1>5

LEMMA IpV6Tidy ==
    ASSUME NEW text \in CharText, RfcIpV6(text)
    PROVE  \A j \in 1 .. Len(text) : text[j] \in Hex \cup {":", "4"}
  <1>0. Len(text) \in Nat /\ Groups \in Nat \ {0}
    BY GroupsAssumption DEF CharText
  <1>1. CASE Pieces(text, Groups, TRUE)
    BY <1>0, <1>1, PiecesTidy
  <1>2. ASSUME NEW i \in 1 .. Len(text) - 1, NEW m \in 0 .. Groups - 1, NEW n \in 0 .. Groups - 1,
               text[i] = ":", text[i + 1] = ":",
               Pieces(Before(text, i), m, FALSE), Pieces(After(text, i + 1), n, TRUE)
        PROVE  \A j \in 1 .. Len(text) : text[j] \in Hex \cup {":", "4"}
    <2>1. i \in 1 .. Len(text) /\ i + 1 \in 1 .. Len(text) /\ m \in Nat /\ n \in Nat
      BY <1>0
    <2>2. /\ Before(text, i) \in CharText /\ Len(Before(text, i)) = i - 1
          /\ \A j \in 1 .. i - 1 : Before(text, i)[j] = text[j]
          /\ After(text, i + 1) \in CharText /\ Len(After(text, i + 1)) = Len(text) - (i + 1)
          /\ \A j \in 1 .. Len(text) - (i + 1) : After(text, i + 1)[j] = text[(i + 1) + j]
      BY <2>1, CutIs
    <2>3. \A j \in 1 .. i - 1 : Before(text, i)[j] \in Hex \cup {":", "4"}
      BY <1>2, <2>1, <2>2, PiecesTidy
    <2>4. \A j \in 1 .. Len(text) - (i + 1) : After(text, i + 1)[j] \in Hex \cup {":", "4"}
      BY <1>2, <2>1, <2>2, PiecesTidy
    <2> SUFFICES ASSUME NEW j \in 1 .. Len(text) PROVE text[j] \in Hex \cup {":", "4"}
      OBVIOUS
    <2>5. CASE j \in 1 .. i - 1
      BY <2>2, <2>3, <2>5
    <2>6. CASE j = i \/ j = i + 1
      BY <1>2, <2>6
    <2>7. CASE j > i + 1
      <3>1. j - (i + 1) \in 1 .. Len(text) - (i + 1) /\ (i + 1) + (j - (i + 1)) = j
        BY <1>0, <2>7
      <3> QED  BY <2>2, <2>4, <3>1
    <2> QED  BY <2>5, <2>6, <2>7
  <1> QED  BY <1>1, <1>2 DEF RfcIpV6

FutureName == {t \in CharText : Len(t) > 1 /\ t[1] = "v" /\ AllIn(Tail(t), Hex)}
FutureRest == {t \in CharText : t # <<>> /\ AllIn(t, RegChars \cup {":"})}

LEMMA FutureNameIs ==
    ASSUME NEW t \in FutureName
    PROVE  t \in CharText /\ \A i \in 1 .. Len(t) : t[i] \in Hex \cup {"v"}
  <1>1. t \in CharText /\ Len(t) > 1 /\ t[1] = "v" /\ AllIn(Tail(t), Hex)
    BY DEF FutureName
  <1>2. t \in Seq(Characters) /\ t # <<>> /\ Len(t) \in Nat
    BY <1>1 DEF CharText
  <1>3. Len(Tail(t)) = Len(t) - 1 /\ \A i \in 1 .. Len(t) - 1 : Tail(t)[i] = t[i + 1]
    BY <1>2, HeadTailProperties
  <1>4. ASSUME NEW i \in 1 .. Len(t) PROVE t[i] \in Hex \cup {"v"}
    <2>1. CASE i = 1
      BY <1>1, <2>1
    <2>2. CASE i # 1
      <3>1. i - 1 \in 1 .. Len(t) - 1 /\ (i - 1) + 1 = i
        BY <1>2, <2>2
      <3>2. Tail(t)[i - 1] \in Hex
        BY <1>1, <1>3, <3>1 DEF AllIn
      <3> QED  BY <1>3, <3>1, <3>2
    <2> QED  BY <2>1, <2>2
  <1> QED  BY <1>1, <1>4

LEMMA IpFutureIs ==
    ASSUME NEW text \in CharText, text # <<>>, text[1] = "v"
    PROVE  IpFuture(text) <=> RfcIpFuture(text)
  <1> DEFINE f == Find(text, ".")
  <1>0. Len(text) \in Nat
    BY DEF CharText
  <1>1. f = 0 \/ f \in 1 .. Len(text)
    BY FindIs
  <1>2. \A i \in 1 .. Len(text) : Before(text, i) \in CharText /\ After(text, i) \in CharText
    BY CutIs
  <1>3. RfcIpFuture(text) <=> Splits(text, ".", FutureName, FutureRest)
    <2>1. \A p \in Parts(text, ".") : p[1] \in CharText /\ p[2] \in CharText
      <3> SUFFICES ASSUME NEW p \in Parts(text, ".") PROVE p[1] \in CharText /\ p[2] \in CharText
        OBVIOUS
      <3>1. PICK i \in {j \in 1 .. Len(text) : text[j] = "."} :
                p = <<Before(text, i), After(text, i)>>
        BY DEF Parts
      <3> QED  BY <1>2, <3>1
    <2> QED  BY <2>1 DEF RfcIpFuture, FutureName, FutureRest, Splits
  <1>4. NoneHas(FutureName, ".")
    <2>1. "." \notin Hex \cup {"v"}
      BY DEF Hex
    <2> QED  BY <2>1, FutureNameIs DEF NoneHas
  <1>5. RfcIpFuture(text) <=> f # 0 /\ Before(text, f) \in FutureName /\ After(text, f) \in FutureRest
    <2> DEFINE whole == {}
    <2>1. text \notin whole /\ NoneHas(whole, ".") /\ f = Find(text, ".")
      BY DEF NoneHas
    <2> HIDE DEF whole, f
    <2>3. (text \in whole \/ Splits(text, ".", FutureName, FutureRest))
          <=> IF f = 0 THEN text \in whole
              ELSE Before(text, f) \in FutureName /\ After(text, f) \in FutureRest
      BY <1>4, <2>1, FirstCut
    <2> QED  BY <1>3, <2>1, <2>3
  <1> HIDE DEF f
  <1>6. CASE f = 0
    <2>1. ~IpFuture(text)
      BY <1>6 DEF IpFuture, f
    <2> QED  BY <1>5, <1>6, <2>1
  <1>7. CASE f # 0
    <2> DEFINE b == Before(text, f)
               a == After(text, f)
    <2>1. f \in 1 .. Len(text)
      BY <1>1, <1>7
    <2>2. /\ b \in CharText /\ Len(b) = f - 1
          /\ \A j \in 1 .. f - 1 : b[j] = text[j]
          /\ a \in CharText /\ Len(a) = Len(text) - f
      BY <2>1, CutIs
    <2>3. b \in FutureName <=> f > 2 /\ AllIn(SubSeq(text, 2, f - 1), Hex)
      <3>1. CASE f > 2
        <4>1. b \in Seq(Characters) /\ b # <<>> /\ 1 \in 1 .. f - 1
          BY <1>0, <2>1, <2>2, <3>1 DEF CharText
        <4>2. Len(Tail(b)) = f - 2 /\ \A i \in 1 .. f - 2 : Tail(b)[i] = text[i + 1]
          <5>1. Len(Tail(b)) = Len(b) - 1 /\ \A i \in 1 .. Len(Tail(b)) : Tail(b)[i] = b[i + 1]
            BY <4>1, HeadTailProperties
          <5>2. \A i \in 1 .. f - 2 : i + 1 \in 1 .. f - 1
            BY <2>1
          <5> QED  BY <2>1, <2>2, <5>1, <5>2
        <4>3. LET s == SubSeq(text, 2, f - 1) IN
              Len(s) = f - 2 /\ \A i \in 1 .. f - 2 : s[i] = text[i + 1]
          <5>1. 2 \in 1 .. Len(text) + 1 /\ f - 1 \in 2 - 1 .. Len(text)
            BY <1>0, <2>1, <3>1
          <5>2. LET s == SubSeq(text, 2, f - 1) IN
                /\ Len(s) = ((f - 1) - 2) + 1
                /\ \A i \in 1 .. ((f - 1) - 2) + 1 : s[i] = text[(2 + i) - 1]
            BY <5>1, SliceIs
          <5>3. ((f - 1) - 2) + 1 = f - 2 /\ \A i \in 1 .. f - 2 : (2 + i) - 1 = i + 1
            BY <2>1
          <5> QED  BY <5>2, <5>3
        <4>4. AllIn(Tail(b), Hex) <=> AllIn(SubSeq(text, 2, f - 1), Hex)
          BY <4>2, <4>3 DEF AllIn
        <4>5. Len(b) > 1 /\ b[1] = "v"
          BY <2>1, <2>2, <3>1, <4>1
        <4> QED  BY <2>2, <3>1, <4>4, <4>5 DEF FutureName
      <3>2. CASE ~(f > 2)
        BY <2>1, <2>2, <3>2 DEF FutureName
      <3> QED  BY <3>1, <3>2
    <2>4. a \in FutureRest <=> /\ f < Len(text) /\ Find(a, "%") = 0 /\ Component(a, {":"})
      <3>1. a # <<>> <=> f < Len(text)
        <4>1. a # <<>> <=> Len(a) # 0
          BY <2>2 DEF CharText
        <4> QED  BY <1>0, <2>1, <2>2, <4>1
      <3>2. Find(a, "%") = 0 <=> \A i \in 1 .. Len(a) : a[i] # "%"
        BY <2>2, FindIs
      <3>3. Component(a, {":"}) <=> Chars(a, RegChars \cup {":"})
        BY <2>2, ComponentIs
      <3>4. "%" \notin RegChars \cup {":"}
        BY DEF RegChars, Unreserved, SubDelims, Alpha, Digit
      <3>5. AllIn(a, RegChars \cup {":"}) <=>
               (\A i \in 1 .. Len(a) : a[i] # "%") /\ Chars(a, RegChars \cup {":"})
        BY <3>4 DEF AllIn, Chars
      <3> HIDE DEF a
      <3> QED  BY <2>2, <3>1, <3>2, <3>3, <3>5 DEF FutureRest
    <2>5. IpFuture(text) <=> /\ f > 2 /\ f < Len(text)
                             /\ AllIn(SubSeq(text, 2, f - 1), Hex)
                             /\ Find(a, "%") = 0 /\ Component(a, {":"})
      BY DEF IpFuture, f
    <2> HIDE DEF a, b
    <2>6. RfcIpFuture(text) <=> b \in FutureName /\ a \in FutureRest
      BY <1>5, <1>7 DEF a, b
    <2> QED  BY <2>3, <2>4, <2>5, <2>6
  <1> QED  BY <1>6, <1>7

LEMMA IpFutureTidy ==
    ASSUME NEW text \in CharText, RfcIpFuture(text)
    PROVE  /\ text # <<>> /\ text[1] = "v"
           /\ \A j \in 1 .. Len(text) : text[j] \in RegChars \cup {":"}
  <1>1. PICK p \in Parts(text, ".") :
            /\ Len(p[1]) > 1 /\ p[1][1] = "v" /\ AllIn(Tail(p[1]), Hex)
            /\ p[2] # <<>> /\ AllIn(p[2], RegChars \cup {":"})
    BY DEF RfcIpFuture
  <1>2. PICK i \in 1 .. Len(text) : text[i] = "." /\ p = <<Before(text, i), After(text, i)>>
    BY DEF Parts
  <1>0. Len(text) \in Nat
    BY DEF CharText
  <1>3. /\ Before(text, i) \in CharText /\ Len(Before(text, i)) = i - 1
        /\ \A j \in 1 .. i - 1 : Before(text, i)[j] = text[j]
        /\ After(text, i) \in CharText /\ Len(After(text, i)) = Len(text) - i
        /\ \A j \in 1 .. Len(text) - i : After(text, i)[j] = text[i + j]
    BY CutIs
  <1>4. Before(text, i) \in FutureName
    BY <1>1, <1>2, <1>3 DEF FutureName
  <1>5. \A j \in 1 .. i - 1 : text[j] \in Hex \cup {"v"}
    BY <1>3, <1>4, FutureNameIs
  <1>6. Hex \cup {"v", "."} \subseteq RegChars
    BY DEF Hex, RegChars, Unreserved, Alpha, Digit
  <1>7. ASSUME NEW j \in 1 .. Len(text) PROVE text[j] \in RegChars \cup {":"}
    <2>1. CASE j \in 1 .. i - 1
      BY <1>5, <1>6, <2>1
    <2>2. CASE j = i
      BY <1>2, <1>6, <2>2
    <2>3. CASE j > i
      <3>1. j - i \in 1 .. Len(text) - i /\ i + (j - i) = j
        BY <1>0, <2>3
      <3>2. After(text, i)[j - i] \in RegChars \cup {":"}
        BY <1>1, <1>2, <1>3, <3>1 DEF AllIn
      <3> QED  BY <1>3, <3>1, <3>2
    <2> QED  BY <2>1, <2>2, <2>3
  <1>8. i > 2 /\ Before(text, i)[1] = "v"
    BY <1>1, <1>2, <1>3
  <1>9. text # <<>> /\ text[1] = "v"
    <2>1. 1 \in 1 .. i - 1 /\ Len(text) # 0
      BY <1>0, <1>8
    <2> QED  BY <1>3, <1>8, <2>1
  <1> QED  BY <1>7, <1>9
\* A property of every character of a part, told by the whole.
LEMMA AllInSlice ==
    ASSUME NEW text \in CharText, NEW a \in 1 .. Len(text) + 1, NEW b \in a - 1 .. Len(text), NEW set
    PROVE  AllIn(SubSeq(text, a, b), set) <=> \A j \in a .. b : text[j] \in set
  <1> DEFINE s == SubSeq(text, a, b)
             n == (b - a) + 1
  <1>0. Len(text) \in Nat
    BY DEF CharText
  <1>1. Len(s) = n /\ \A i \in 1 .. n : s[i] = text[(a + i) - 1]
    BY SliceIs
  <1>2. ASSUME NEW j \in a .. b PROVE (j - a) + 1 \in 1 .. n /\ (a + ((j - a) + 1)) - 1 = j
    BY <1>0
  <1>3. ASSUME NEW i \in 1 .. n PROVE (a + i) - 1 \in a .. b
    BY <1>0
  <1> HIDE DEF s, n
  <1>4. AllIn(s, set) <=> \A i \in 1 .. n : text[(a + i) - 1] \in set
    BY <1>1 DEF AllIn
  <1>5. ASSUME \A i \in 1 .. n : text[(a + i) - 1] \in set, NEW j \in a .. b PROVE text[j] \in set
    BY <1>2, <1>5
  <1>6. ASSUME \A j \in a .. b : text[j] \in set, NEW i \in 1 .. n PROVE text[(a + i) - 1] \in set
    BY <1>3, <1>6
  <1> QED  BY <1>4, <1>5, <1>6 DEF s

LEMMA PartsAre ==
    ASSUME NEW text \in CharText, NEW ch, NEW p \in Parts(text, ch)
    PROVE  /\ p[1] \in CharText /\ p[2] \in CharText
           /\ \E i \in 1 .. Len(text) : text[i] = ch /\ p = <<Before(text, i), After(text, i)>>
           /\ \A set : ch \in set /\ AllIn(p[1], set) /\ AllIn(p[2], set) => AllIn(text, set)
  <1>0. Len(text) \in Nat
    BY DEF CharText
  <1>1. PICK i \in 1 .. Len(text) : text[i] = ch /\ p = <<Before(text, i), After(text, i)>>
    BY DEF Parts
  <1>2. Before(text, i) \in CharText /\ After(text, i) \in CharText
    BY CutIs
  <1>3. ASSUME NEW set, ch \in set, AllIn(Before(text, i), set), AllIn(After(text, i), set)
        PROVE  AllIn(text, set)
    <2>1. /\ 1 \in 1 .. Len(text) + 1 /\ i - 1 \in 1 - 1 .. Len(text)
          /\ i + 1 \in 1 .. Len(text) + 1 /\ Len(text) \in (i + 1) - 1 .. Len(text)
      BY <1>0
    <2>2. \A j \in 1 .. i - 1 : text[j] \in set
      BY <1>3, <2>1, AllInSlice DEF Before
    <2>3. \A j \in i + 1 .. Len(text) : text[j] \in set
      BY <1>3, <2>1, AllInSlice DEF After
    <2>4. ASSUME NEW j \in 1 .. Len(text) PROVE text[j] \in set
      <3>1. j \in 1 .. i - 1 \/ j = i \/ j \in i + 1 .. Len(text)
        BY <1>0
      <3> QED  BY <1>1, <1>3, <2>2, <2>3, <3>1
    <2> QED  BY <2>4 DEF AllIn
  <1> QED  BY <1>1, <1>2, <1>3

LEMMA CharsIn == ASSUME NEW text, NEW set, Chars(text, set) PROVE AllIn(text, set \cup {"%"})
  BY DEF Chars, AllIn

LEMMA WiderIn == ASSUME NEW text, NEW set, NEW wider, set \subseteq wider, AllIn(text, set)
                 PROVE  AllIn(text, wider)
  BY DEF AllIn

\* The address between brackets.
Address(text) == RfcIpV6(text) \/ RfcIpFuture(text)

AddressChars == RegChars \cup {":", "4"}

LEMMA AddressIs ==
    ASSUME NEW a \in CharText
    PROVE  /\ (IF a # <<>> /\ a[1] = "v" THEN IpFuture(a) ELSE IpV6(a)) <=> Address(a)
           /\ Address(a) => AllIn(a, AddressChars)
  <1>0. Len(a) \in Nat
    BY DEF CharText
  <1>1. "v" \notin Hex \cup {":", "4"} /\ Hex \cup {":", "4"} \subseteq AddressChars
    BY DEF Hex, AddressChars, RegChars, Unreserved, Alpha, Digit
  <1>2. RfcIpV6(a) => AllIn(a, Hex \cup {":", "4"})
    BY IpV6Tidy DEF AllIn
  <1>3. RfcIpFuture(a) => a # <<>> /\ a[1] = "v" /\ AllIn(a, RegChars \cup {":"})
    BY IpFutureTidy DEF AllIn
  <1>4. AllIn(a, Hex \cup {":", "4"}) => ~(a # <<>> /\ a[1] = "v")
    <2>1. a # <<>> => 1 \in 1 .. Len(a)
      BY <1>0 DEF CharText
    <2> QED  BY <1>1, <2>1 DEF AllIn
  <1>5. RegChars \cup {":"} \subseteq AddressChars
    BY DEF AddressChars
  <1>6. Address(a) => AllIn(a, AddressChars)
    BY <1>1, <1>2, <1>3, <1>5, WiderIn DEF Address
  <1>7. CASE a # <<>> /\ a[1] = "v"
    <2>1. IpFuture(a) <=> RfcIpFuture(a)
      BY <1>7, IpFutureIs
    <2> QED  BY <1>2, <1>4, <1>6, <1>7, <2>1 DEF Address
  <1>8. CASE ~(a # <<>> /\ a[1] = "v")
    <2>1. IpV6(a) <=> RfcIpV6(a)
      BY IpV6Is
    <2> QED  BY <1>3, <1>6, <1>8, <2>1 DEF Address
  <1> QED  BY <1>7, <1>8

Literal(text) == /\ Len(text) >= 2 /\ text[1] = "[" /\ text[Len(text)] = "]"
                 /\ Address(SubSeq(text, 2, Len(text) - 1))

LEMMA HostIs ==
    ASSUME NEW text \in CharText
    PROVE  /\ RfcHost(text) <=> Chars(text, RegChars) \/ Literal(text)
           /\ text # <<>> /\ text[1] = "[" => ~Chars(text, RegChars)
           /\ ~(text # <<>> /\ text[1] = "[") => ~Literal(text)
  <1>0. Len(text) \in Nat /\ (text # <<>> <=> Len(text) # 0)
    BY DEF CharText
  <1>1. "[" \notin RegChars
    BY DEF RegChars, Unreserved, SubDelims, Alpha, Digit
  <1>2. text # <<>> => 1 \in 1 .. Len(text)
    BY <1>0
  <1>3. text # <<>> /\ text[1] = "[" => ~Chars(text, RegChars)
    BY <1>1, <1>2 DEF Chars
  <1>4. RfcHost(text) <=> Chars(text, RegChars) \/ Literal(text)
    BY DEF RfcHost, Literal, Address
  <1>5. ~(text # <<>> /\ text[1] = "[") => ~Literal(text)
    BY <1>0 DEF Literal
  <1> QED  BY <1>3, <1>4, <1>5

LEMMA FindAt ==
    ASSUME NEW text \in CharText, NEW ch, NEW k \in 1 .. Len(text), text[k] = ch,
           \A j \in 1 .. k - 1 : text[j] # ch
    PROVE  Find(text, ch) = k
  <1> DEFINE f == Find(text, ch)
  <1>1. \/ f = 0 /\ \A i \in 1 .. Len(text) : text[i] # ch
        \/ f \in 1 .. Len(text) /\ text[f] = ch /\ \A i \in 1 .. f - 1 : text[i] # ch
    BY FindIs
  <1>2. Len(text) \in Nat
    BY DEF CharText
  <1> HIDE DEF f
  <1>3. f \in 1 .. Len(text) /\ text[f] = ch /\ \A i \in 1 .. f - 1 : text[i] # ch
    BY <1>1
  <1>4. ~(f < k)
    BY <1>2, <1>3
  <1>5. ~(k < f)
    BY <1>2, <1>3
  <1>6. f = k
    BY <1>2, <1>3, <1>4, <1>5
  <1> QED  BY <1>6 DEF f

\* A bracketed address at the start of a text.
LEMMA LiteralStart ==
    ASSUME NEW text \in CharText, NEW k \in 2 .. Len(text)
    PROVE  /\ SubSeq(text, 2, k - 1) \in CharText
           /\ Literal(SubSeq(text, 1, k)) <=> /\ text[1] = "[" /\ text[k] = "]"
                                              /\ Address(SubSeq(text, 2, k - 1))
           /\ Literal(SubSeq(text, 1, k)) => Find(text, "]") = k
  <1> DEFINE b == SubSeq(text, 1, k)
             inner == SubSeq(b, 2, k - 1)
             outer == SubSeq(text, 2, k - 1)
  <1>0. Len(text) \in Nat
    BY DEF CharText
  <1>1. b \in CharText /\ Len(b) = k /\ \A i \in 1 .. k : b[i] = text[i]
    <2>1. 1 \in 1 .. Len(text) + 1 /\ k \in 1 - 1 .. Len(text)
      BY <1>0
    <2>2. /\ b \in CharText /\ Len(b) = (k - 1) + 1
          /\ \A i \in 1 .. (k - 1) + 1 : b[i] = text[(1 + i) - 1]
      BY <2>1, SliceIs
    <2>3. (k - 1) + 1 = k /\ \A i \in 1 .. k : (1 + i) - 1 = i
      BY <1>0
    <2> HIDE DEF b
    <2> QED  BY <2>2, <2>3
  <1> HIDE DEF b
  <1>2. /\ inner \in CharText /\ Len(inner) = ((k - 1) - 2) + 1
        /\ \A i \in 1 .. ((k - 1) - 2) + 1 : inner[i] = b[(2 + i) - 1]
    <2>1. 2 \in 1 .. Len(b) + 1 /\ k - 1 \in 2 - 1 .. Len(b)
      BY <1>0, <1>1
    <2> QED  BY <1>1, <2>1, SliceIs
  <1>3. /\ outer \in CharText /\ Len(outer) = ((k - 1) - 2) + 1
        /\ \A i \in 1 .. ((k - 1) - 2) + 1 : outer[i] = text[(2 + i) - 1]
    <2>1. 2 \in 1 .. Len(text) + 1 /\ k - 1 \in 2 - 1 .. Len(text)
      BY <1>0
    <2> QED  BY <2>1, SliceIs
  <1> HIDE DEF inner
  <1>4. inner = outer
    <2>1. \A i \in 1 .. Len(inner) : (2 + i) - 1 \in 1 .. k /\ i \in 1 .. ((k - 1) - 2) + 1
      BY <1>2
    <2> HIDE DEF outer
    <2>2. \A i \in 1 .. Len(inner) : inner[i] = outer[i]
      BY <1>1, <1>2, <1>3, <2>1
    <2>3. inner \in Seq(Characters) /\ outer \in Seq(Characters) /\ Len(inner) = Len(outer)
      BY <1>2, <1>3 DEF CharText
    <2> QED  BY <2>2, <2>3, SeqEqual
  <1>5. 1 \in 1 .. k /\ k \in 1 .. k /\ k >= 2
    BY <1>0
  <1>6. Literal(b) <=> text[1] = "[" /\ text[k] = "]" /\ Address(outer)
    BY <1>1, <1>4, <1>5 DEF Literal, inner
  <1>7. ASSUME text[1] = "[", text[k] = "]", Address(outer) PROVE Find(text, "]") = k
    <2>1. AllIn(outer, AddressChars)
      BY <1>3, <1>7, AddressIs
    <2>2. 2 \in 1 .. Len(text) + 1 /\ k - 1 \in 2 - 1 .. Len(text)
      BY <1>0
    <2>3. \A j \in 2 .. k - 1 : text[j] \in AddressChars
      BY <2>1, <2>2, AllInSlice
    <2>4. "]" \notin AddressChars
      BY DEF AddressChars, RegChars, Unreserved, SubDelims, Alpha, Digit
    <2>5. ASSUME NEW j \in 1 .. k - 1 PROVE text[j] # "]"
      <3>1. j = 1 \/ j \in 2 .. k - 1
        BY <1>0
      <3> QED  BY <1>7, <2>3, <2>4, <3>1
    <2>6. k \in 1 .. Len(text)
      BY <1>0
    <2> QED  BY <1>7, <2>5, <2>6, FindAt
  <1> QED  BY <1>3, <1>6, <1>7 DEF b
\* After a bracketed host there is nothing, or a port.
LEMMA BracketedIs ==
    ASSUME NEW text \in CharText, text # <<>>, text[1] = "["
    PROVE  Bracketed(text) <=> RfcHostPort(text)
  <1> DEFINE N == Len(text)
             e == Find(text, "]")
             suffix == After(text, e)
             Ported == suffix # <<>> => suffix[1] = ":" /\ AllIn(Tail(suffix), Digit)
             Reads(i) == RfcHost(Before(text, i)) /\ AllIn(After(text, i), Digit)
  <1>0. N \in Nat /\ N # 0
    BY DEF CharText
  <1>1. \/ e = 0 /\ \A i \in 1 .. N : text[i] # "]"
        \/ e \in 1 .. N /\ text[e] = "]" /\ \A i \in 1 .. e - 1 : text[i] # "]"
    BY FindIs
  <1>2. e # 1
    BY <1>1
  <1> HIDE DEF e
  <1>3. RfcHost(text) <=> Literal(text)
    BY HostIs
  <1>4. RfcHostPort(text) <=> Literal(text) \/ \E i \in 1 .. N : text[i] = ":" /\ Reads(i)
    <2>1. ASSUME NEW p \in Parts(text, ":"), RfcHost(p[1]), AllIn(p[2], Digit)
          PROVE  \E i \in 1 .. N : text[i] = ":" /\ Reads(i)
      <3>1. PICK i \in 1 .. N : text[i] = ":" /\ p = <<Before(text, i), After(text, i)>>
        BY PartsAre
      <3> QED  BY <2>1, <3>1
    <2>2. ASSUME NEW i \in 1 .. N, text[i] = ":", Reads(i)
          PROVE  \E p \in Parts(text, ":") : RfcHost(p[1]) /\ AllIn(p[2], Digit)
      <3>1. <<Before(text, i), After(text, i)>> \in Parts(text, ":")
        BY <2>2 DEF Parts
      <3> QED  BY <2>2, <3>1
    <2> HIDE DEF Reads
    <2> QED  BY <1>3, <2>1, <2>2 DEF RfcHostPort
  <1>5. e # 0 => e \in 2 .. N /\ e \in 1 .. N
    BY <1>0, <1>1, <1>2
  <1>6. ASSUME e # 0
        PROVE  Bracketed(text) <=> Literal(SubSeq(text, 1, e)) /\ Ported
    <2>1. e \in 2 .. N /\ text[e] = "]"
      BY <1>1, <1>5, <1>6
    <2>2. /\ SubSeq(text, 2, e - 1) \in CharText
          /\ Literal(SubSeq(text, 1, e)) <=> Address(SubSeq(text, 2, e - 1))
      BY <2>1, LiteralStart
    <2>3. Bracketed(text) <=> Address(SubSeq(text, 2, e - 1)) /\ Ported
      BY <1>6, <2>2, AddressIs DEF Bracketed, e
    <2> HIDE DEF Ported
    <2> QED  BY <2>2, <2>3
  <1>7. \A k \in 1 .. N : SubSeq(text, 1, k) = Before(text, k + 1)
    BY <1>0 DEF Before
  <1>8. SubSeq(text, 1, N) = text
    BY SubSeqFull DEF CharText
  <1>9. ASSUME e # 0, Literal(SubSeq(text, 1, e))
        PROVE  Ported <=> e = N \/ (e + 1 \in 1 .. N /\ text[e + 1] = ":" /\ Reads(e + 1))
    <2>1. e \in 1 .. N /\ suffix \in CharText /\ Len(suffix) = N - e
          /\ \A j \in 1 .. N - e : suffix[j] = text[e + j]
      BY <1>5, <1>9, CutIs
    <2>2. suffix # <<>> <=> e # N
      <3>1. suffix # <<>> <=> Len(suffix) # 0
        BY <2>1 DEF CharText
      <3> HIDE DEF suffix
      <3> QED  BY <1>0, <2>1, <3>1
    <2>3. CASE e = N
      BY <2>2, <2>3
    <2>4. CASE e # N
      <3>1. e + 1 \in 1 .. N /\ 1 \in 1 .. N - e /\ N \in e + 1 .. N
        BY <1>0, <2>1, <2>4
      <3>2. suffix[1] = text[e + 1]
        BY <2>1, <3>1
      <3>3. Tail(suffix) = After(text, e + 1)
        BY <3>1, HeadTailOfSubSeq DEF After, CharText
      <3>4. RfcHost(Before(text, e + 1))
        <4>1. Before(text, e + 1) \in CharText
          BY <3>1, CutIs
        <4>2. Literal(Before(text, e + 1))
          BY <1>7, <1>9, <2>1
        <4> QED  BY <4>1, <4>2, HostIs
      <3> HIDE DEF suffix
      <3> QED  BY <2>2, <2>4, <3>1, <3>2, <3>3, <3>4
    <2> QED  BY <2>3, <2>4
  <1>10. ASSUME NEW i \in 1 .. N, text[i] = ":", Reads(i)
         PROVE  e # 0 /\ i = e + 1 /\ Literal(SubSeq(text, 1, e))
    <2>1. i # 1
      BY <1>10
    <2> DEFINE b == Before(text, i)
    <2>2. b \in CharText /\ Len(b) = i - 1 /\ \A j \in 1 .. i - 1 : b[j] = text[j]
      BY CutIs
    <2>3. b # <<>> /\ b[1] = "["
      <3>1. 1 \in 1 .. i - 1 /\ i - 1 # 0
        BY <1>0, <2>1
      <3> QED  BY <2>2, <3>1
    <2>4. Literal(b)
      <3>1. RfcHost(b)
        BY <1>10
      <3> HIDE DEF b
      <3> QED  BY <2>2, <2>3, <3>1, HostIs
    <2>5. i - 1 >= 2
      BY <2>2, <2>4 DEF Literal
    <2>6. i - 1 \in 2 .. N /\ i - 1 \in 1 .. N /\ (i - 1) + 1 = i
      BY <1>0, <2>5
    <2>7. Literal(SubSeq(text, 1, i - 1))
      BY <1>7, <2>4, <2>6
    <2>8. e = i - 1
      BY <2>6, <2>7, LiteralStart DEF e
    <2> QED  BY <2>6, <2>7, <2>8
  <1>11. ASSUME Literal(text) PROVE e = N /\ e # 0 /\ Literal(SubSeq(text, 1, e))
    <2>1. N \in 2 .. N
      BY <1>0, <1>11 DEF Literal
    <2>2. e = N
      BY <1>8, <1>11, <2>1, LiteralStart DEF e
    <2> QED  BY <1>0, <1>8, <1>11, <2>2
  <1>12. CASE e = 0
    <2>1. ~Bracketed(text)
      BY <1>12 DEF Bracketed, e
    <2> HIDE DEF Reads
    <2> QED  BY <1>4, <1>10, <1>11, <1>12, <2>1
  <1>13. CASE e # 0
    <2>1. e = N => (Literal(SubSeq(text, 1, e)) <=> Literal(text))
      BY <1>8
    <2> HIDE DEF Reads, Ported
    <2> QED  BY <1>4, <1>6, <1>9, <1>10, <1>11, <1>13, <2>1
  <1> QED  BY <1>12, <1>13

LEMMA HostPortIs ==
    ASSUME NEW text \in CharText
    PROVE  HostPort(text) <=> RfcHostPort(text)
  <1>1. CASE text # <<>> /\ text[1] = "["
    <2>1. HostPort(text) <=> Bracketed(text)
      BY <1>1 DEF HostPort
    <2> QED  BY <1>1, <2>1, BracketedIs
  <1>2. CASE ~(text # <<>> /\ text[1] = "[")
    <2> DEFINE names == {t \in CharText : Chars(t, RegChars)}
               ports == {t \in CharText : AllIn(t, Digit)}
               f == Find(text, ":")
    <2>1. RfcHost(text) <=> text \in names
      BY <1>2, HostIs
    <2>2. (\E p \in Parts(text, ":") : RfcHost(p[1]) /\ AllIn(p[2], Digit))
          <=> Splits(text, ":", names, ports)
      <3>1. ASSUME NEW p \in Parts(text, ":")
            PROVE  (RfcHost(p[1]) <=> p[1] \in names) /\ (AllIn(p[2], Digit) <=> p[2] \in ports)
        <4>1. p[1] \in CharText /\ p[2] \in CharText
          BY PartsAre
        <4>2. PICK i \in 1 .. Len(text) : p = <<Before(text, i), After(text, i)>>
          BY PartsAre
        <4>3. ~(p[1] # <<>> /\ p[1][1] = "[")
          <5>1. ASSUME p[1] # <<>>, p[1][1] = "[" PROVE FALSE
            <6>1. Len(p[1]) = i - 1 /\ \A j \in 1 .. i - 1 : p[1][j] = text[j]
              BY <4>2, CutIs
            <6>2. Len(p[1]) # 0 /\ Len(text) \in Nat
              BY <4>1, <5>1 DEF CharText
            <6>3. 1 \in 1 .. i - 1 /\ Len(text) # 0
              BY <6>1, <6>2
            <6>4. text # <<>> /\ text[1] = "["
              BY <5>1, <6>1, <6>3
            <6> QED  BY <1>2, <6>4
          <5> QED  BY <5>1
        <4>4. RfcHost(p[1]) <=> Chars(p[1], RegChars)
          BY <4>1, <4>3, HostIs
        <4> QED  BY <4>1, <4>4
      <3> HIDE DEF names, ports
      <3> QED  BY <3>1 DEF Splits
    <2>3. NoneHas(names, ":")
      <3>1. ":" \notin RegChars \cup {"%"}
        BY DEF RegChars, Unreserved, SubDelims, Alpha, Digit
      <3> QED  BY <3>1, CharsIn DEF NoneHas, AllIn
    <2>4. RfcHostPort(text) <=> text \in names \/ Splits(text, ":", names, ports)
      <3> HIDE DEF names, ports
      <3> QED  BY <2>1, <2>2 DEF RfcHostPort
    <2>5. f = Find(text, ":") /\ (f = 0 \/ f \in 1 .. Len(text))
      BY FindIs
    <2>6. f # 0 => Before(text, f) \in CharText /\ After(text, f) \in CharText
      BY <2>5, CutIs
    <2>7. \A t \in CharText : Component(t, {}) <=> t \in names
      <3>1. \A t \in CharText : Component(t, {}) <=> Chars(t, RegChars \cup {})
        BY ComponentIs
      <3>2. RegChars \cup {} = RegChars
        OBVIOUS
      <3> QED  BY <3>1, <3>2
    <2>8. HostPort(text) <=> Component(Head1(text, ":"), {}) /\ AllIn(Tail1(text, ":"), Digit)
      BY <1>2 DEF HostPort
    <2>9. \A t \in CharText : AllIn(t, Digit) <=> t \in ports
      OBVIOUS
    <2>10. AllIn(<<>>, Digit)
      BY DEF AllIn
    <2>11. Head1(text, ":") = IF f = 0 THEN text ELSE Before(text, f)
      BY DEF Head1
    <2>12. Tail1(text, ":") = IF f = 0 THEN <<>> ELSE After(text, f)
      BY DEF Tail1
    <2> HIDE DEF names, ports, f
    <2>13. RfcHostPort(text) <=> IF f = 0 THEN text \in names
                                 ELSE Before(text, f) \in names /\ After(text, f) \in ports
      BY <2>3, <2>4, <2>5, FirstCut
    <2>14. CASE f = 0
      BY <2>7, <2>8, <2>10, <2>11, <2>12, <2>13, <2>14
    <2>15. CASE f # 0
      BY <2>6, <2>7, <2>8, <2>9, <2>11, <2>12, <2>13, <2>15
    <2> QED  BY <2>14, <2>15
  <1> QED  BY <1>1, <1>2

HostChars == AddressChars \cup {"%", "[", "]"}

LEMMA HostPortTidy ==
    ASSUME NEW text \in CharText, RfcHostPort(text)
    PROVE  AllIn(text, HostChars)
  <1>1. ASSUME NEW t \in CharText, RfcHost(t) PROVE AllIn(t, HostChars)
    <2>0. Len(t) \in Nat
      BY DEF CharText
    <2>1. CASE Chars(t, RegChars)
      <3>1. RegChars \cup {"%"} \subseteq HostChars
        BY DEF HostChars, AddressChars
      <3> QED  BY <2>1, <3>1, CharsIn, WiderIn
    <2>2. CASE Literal(t)
      <3>1. /\ Len(t) >= 2 /\ t[1] = "[" /\ t[Len(t)] = "]"
            /\ Address(SubSeq(t, 2, Len(t) - 1))
        BY <2>2 DEF Literal
      <3>2. 2 \in 1 .. Len(t) + 1 /\ Len(t) - 1 \in 2 - 1 .. Len(t)
        BY <2>0, <3>1
      <3>3. AllIn(SubSeq(t, 2, Len(t) - 1), AddressChars)
        BY <3>1, <3>2, SliceIs, AddressIs
      <3>4. \A j \in 2 .. Len(t) - 1 : t[j] \in AddressChars
        BY <3>2, <3>3, AllInSlice
      <3>5. ASSUME NEW j \in 1 .. Len(t) PROVE t[j] \in HostChars
        <4>1. j = 1 \/ j = Len(t) \/ j \in 2 .. Len(t) - 1
          BY <2>0
        <4> QED  BY <3>1, <3>4, <4>1 DEF HostChars
      <3> QED  BY <3>5 DEF AllIn
    <2> QED  BY <1>1, <2>1, <2>2, HostIs
  <1>2. CASE RfcHost(text)
    BY <1>1, <1>2
  <1>3. ASSUME NEW p \in Parts(text, ":"), RfcHost(p[1]), AllIn(p[2], Digit)
        PROVE  AllIn(text, HostChars)
    <2>1. ":" \in HostChars /\ Digit \subseteq HostChars
      BY DEF HostChars, AddressChars, RegChars, Unreserved
    <2>2. AllIn(p[1], HostChars) /\ AllIn(p[2], HostChars)
      BY <1>1, <1>3, <2>1, PartsAre, WiderIn
    <2> QED  BY <2>1, <2>2, PartsAre
  <1> QED  BY <1>2, <1>3 DEF RfcHostPort

AuthorityChars == HostChars \cup {"@"}

LEMMA AuthorityIs ==
    ASSUME NEW text \in CharText
    PROVE  /\ Authority(text) <=> RfcAuthority(text)
           /\ RfcAuthority(text) => AllIn(text, AuthorityChars)
  <1> DEFINE users == {t \in CharText : Chars(t, RegChars \cup {":"})}
             hosts == {t \in CharText : RfcHostPort(t)}
             f == Find(text, "@")
  <1>1. RfcAuthority(text) <=> text \in hosts \/ Splits(text, "@", users, hosts)
    <2>1. \A p \in Parts(text, "@") :
             /\ Chars(p[1], RegChars \cup {":"}) <=> p[1] \in users
             /\ RfcHostPort(p[2]) <=> p[2] \in hosts
      BY PartsAre
    <2>2. RfcHostPort(text) <=> text \in hosts
      OBVIOUS
    <2> HIDE DEF users, hosts
    <2> QED  BY <2>1, <2>2 DEF RfcAuthority, Splits
  <1>2. "@" \notin HostChars /\ "@" \notin (RegChars \cup {":"}) \cup {"%"}
    BY DEF HostChars, AddressChars, RegChars, Unreserved, SubDelims, Alpha, Digit
  <1>3. NoneHas(hosts, "@")
    BY <1>2, HostPortTidy DEF NoneHas, AllIn
  <1>4. NoneHas(users, "@")
    <2>1. \A t \in users : AllIn(t, (RegChars \cup {":"}) \cup {"%"})
      BY CharsIn
    <2> QED  BY <1>2, <2>1 DEF NoneHas, AllIn
  <1>5. f = Find(text, "@") /\ (f = 0 \/ f \in 1 .. Len(text))
    BY FindIs
  <1>6. f # 0 => Before(text, f) \in CharText /\ After(text, f) \in CharText
    BY <1>5, CutIs
  <1>7. \A t \in CharText : Component(t, {":"}) <=> t \in users
    <2>1. "%" \notin {":"}
      OBVIOUS
    <2> QED  BY <2>1, ComponentIs
  <1>8. \A t \in CharText : HostPort(t) <=> t \in hosts
    BY HostPortIs
  <1>9. Authority(text) <=> IF f = 0 THEN HostPort(text)
                            ELSE Component(Before(text, f), {":"}) /\ HostPort(After(text, f))
    BY DEF Authority
  <1>10. ASSUME RfcAuthority(text) PROVE AllIn(text, AuthorityChars)
    <2>1. HostChars \subseteq AuthorityChars /\ "@" \in AuthorityChars
          /\ (RegChars \cup {":"}) \cup {"%"} \subseteq AuthorityChars
      BY DEF AuthorityChars, HostChars, AddressChars
    <2>2. CASE RfcHostPort(text)
      BY <2>1, <2>2, HostPortTidy, WiderIn
    <2>3. ASSUME NEW p \in Parts(text, "@"), Chars(p[1], RegChars \cup {":"}), RfcHostPort(p[2])
          PROVE  AllIn(text, AuthorityChars)
      <3>1. AllIn(p[1], (RegChars \cup {":"}) \cup {"%"})
        BY <2>3, CharsIn
      <3>2. AllIn(p[2], HostChars)
        BY <2>3, PartsAre, HostPortTidy
      <3>3. AllIn(p[1], AuthorityChars) /\ AllIn(p[2], AuthorityChars)
        BY <2>1, <3>1, <3>2, WiderIn
      <3> QED  BY <2>1, <3>3, PartsAre
    <2> QED  BY <1>10, <2>2, <2>3 DEF RfcAuthority
  <1> HIDE DEF users, hosts, f
  <1>11. RfcAuthority(text) <=> IF f = 0 THEN text \in hosts
                                ELSE Before(text, f) \in users /\ After(text, f) \in hosts
    BY <1>1, <1>3, <1>4, <1>5, FirstCut
  <1>12. CASE f = 0
    BY <1>8, <1>9, <1>10, <1>11, <1>12
  <1>13. CASE f # 0
    BY <1>6, <1>7, <1>8, <1>9, <1>10, <1>11, <1>13
  <1> QED  BY <1>12, <1>13
\* A part of what follows the first two.
LEMMA RestOfSlice ==
    ASSUME NEW text \in CharText, Len(text) >= 2,
           NEW a \in 1 .. Len(text) - 1, NEW b \in a - 1 .. Len(text) - 2
    PROVE  SubSeq(After(text, 2), a, b) = SubSeq(text, a + 2, b + 2)
  <1> DEFINE rest == After(text, 2)
             inner == SubSeq(rest, a, b)
             outer == SubSeq(text, a + 2, b + 2)
             n == (b - a) + 1
  <1>0. Len(text) \in Nat
    BY DEF CharText
  <1>1. /\ rest \in CharText /\ Len(rest) = Len(text) - 2
        /\ \A j \in 1 .. Len(text) - 2 : rest[j] = text[2 + j]
    <2>1. 2 \in 1 .. Len(text)
      BY <1>0
    <2> QED  BY <2>1, CutIs
  <1> HIDE DEF rest
  <1>2. inner \in CharText /\ Len(inner) = n /\ \A i \in 1 .. n : inner[i] = rest[(a + i) - 1]
    <2>1. a \in 1 .. Len(rest) + 1 /\ b \in a - 1 .. Len(rest)
      BY <1>0, <1>1
    <2> QED  BY <1>1, <2>1, SliceIs
  <1>3. /\ outer \in CharText /\ Len(outer) = ((b + 2) - (a + 2)) + 1
        /\ \A i \in 1 .. ((b + 2) - (a + 2)) + 1 : outer[i] = text[((a + 2) + i) - 1]
    <2>1. a + 2 \in 1 .. Len(text) + 1 /\ b + 2 \in (a + 2) - 1 .. Len(text)
      BY <1>0
    <2> QED  BY <2>1, SliceIs
  <1>4. /\ ((b + 2) - (a + 2)) + 1 = n
        /\ \A i \in 1 .. n : /\ (a + i) - 1 \in 1 .. Len(text) - 2
                             /\ 2 + ((a + i) - 1) = ((a + 2) + i) - 1
    BY <1>0
  <1> HIDE DEF inner, outer, n
  <1>5. \A i \in 1 .. n : inner[i] = outer[i]
    BY <1>1, <1>2, <1>3, <1>4
  <1>6. inner \in Seq(Characters) /\ outer \in Seq(Characters) /\ Len(inner) = Len(outer)
    BY <1>2, <1>3, <1>4 DEF CharText
  <1>7. inner = outer
    BY <1>2, <1>5, <1>6, SeqEqual
  <1> QED  BY <1>7 DEF inner, outer, rest

HierChars == AuthorityChars \cup {"/"}

\* An authority ends at the first slash, where the path begins.
LEMMA HierarchyIs ==
    ASSUME NEW text \in CharText
    PROVE  /\ Hierarchy(text) <=> RfcHier(text)
           /\ RfcHier(text) => AllIn(text, HierChars)
  <1> DEFINE N == Len(text)
             Slashes == N >= 2 /\ text[1] = "/" /\ text[2] = "/"
  <1>0. N \in Nat
    BY DEF CharText
  <1>1. \A t \in CharText : Component(t, PathExtra) <=> Chars(t, PChars \cup {"/"})
    <2>1. "%" \notin PathExtra /\ RegChars \cup PathExtra = PChars \cup {"/"}
      BY DEF PathExtra, PChars
    <2> QED  BY <2>1, ComponentIs
  <1>2. /\ \A t : Chars(t, PChars \cup {"/"}) => AllIn(t, HierChars)
        /\ \A t : AllIn(t, AuthorityChars) => AllIn(t, HierChars)
        /\ "/" \in HierChars
    <2>1. (PChars \cup {"/"}) \cup {"%"} \subseteq HierChars /\ AuthorityChars \subseteq HierChars
      BY DEF HierChars, AuthorityChars, HostChars, AddressChars, PChars
    <2>2. "/" \in HierChars
      BY DEF HierChars
    <2>3. \A t : Chars(t, PChars \cup {"/"}) => AllIn(t, (PChars \cup {"/"}) \cup {"%"})
      BY CharsIn
    <2> DEFINE set == (PChars \cup {"/"}) \cup {"%"}
    <2>4. \A t : AllIn(t, set) => AllIn(t, HierChars)
      <3>1. set \subseteq HierChars
        BY <2>1
      <3> HIDE DEF set
      <3> QED  BY <3>1, WiderIn
    <2>5. \A t : AllIn(t, AuthorityChars) => AllIn(t, HierChars)
      BY <2>1, WiderIn
    <2> QED  BY <2>2, <2>3, <2>4, <2>5
  <1>3. CASE ~Slashes
    <2>1. Hierarchy(text) <=> Component(text, PathExtra)
      BY <1>0, <1>3 DEF Hierarchy
    <2>2. RfcHier(text) <=> Chars(text, PChars \cup {"/"})
      BY <1>3 DEF RfcHier
    <2> QED  BY <1>1, <1>2, <2>1, <2>2
  <1>4. CASE Slashes
    <2> DEFINE rest == After(text, 2)
               s == Find(rest, "/")
               path == IF s = 0 THEN <<>> ELSE SubSeq(rest, s, Len(rest))
               Reads(i) == /\ RfcAuthority(SubSeq(text, 3, i - 1))
                           /\ RfcPathAbempty(SubSeq(text, i, N))
    <2>1. N >= 2 /\ 2 \in 1 .. N
      BY <1>0, <1>4
    <2>2. /\ rest \in CharText /\ Len(rest) = N - 2
          /\ \A j \in 1 .. N - 2 : rest[j] = text[2 + j]
      BY <2>1, CutIs
    <2>3. Hierarchy(text) <=> Authority(Head1(rest, "/")) /\ Component(path, PathExtra)
      BY <1>0, <1>4 DEF Hierarchy
    <2>4. RfcHier(text) <=> \E i \in 3 .. N + 1 : Reads(i)
      BY <1>4 DEF RfcHier
    <2>5. \/ s = 0 /\ \A i \in 1 .. Len(rest) : rest[i] # "/"
          \/ s \in 1 .. Len(rest) /\ rest[s] = "/" /\ \A i \in 1 .. s - 1 : rest[i] # "/"
      BY <2>2, FindIs
    \* Where the authority ends in the text.
    <2> DEFINE stop == IF s = 0 THEN N + 1 ELSE s + 2
    <2> HIDE DEF rest, s
    <2>6. /\ stop \in 3 .. N + 1
          /\ stop <= N => text[stop] = "/"
          /\ \A j \in 3 .. stop - 1 : text[j] # "/"
      <3>1. CASE s = 0
        <4>1. \A j \in 3 .. N : j - 2 \in 1 .. N - 2 /\ 2 + (j - 2) = j
          BY <1>0
        <4>2. ASSUME NEW j \in 3 .. N PROVE text[j] # "/"
          <5>1. rest[j - 2] # "/" /\ rest[j - 2] = text[2 + (j - 2)]
            BY <2>2, <2>5, <3>1, <4>1
          <5> QED  BY <4>1, <5>1
        <4>3. stop = N + 1 /\ (N + 1) - 1 = N /\ N + 1 \in 3 .. N + 1 /\ ~(N + 1 <= N)
          BY <1>0, <2>1, <3>1
        <4> QED  BY <4>2, <4>3
      <3>2. CASE s # 0
        <4>1. s \in 1 .. N - 2 /\ rest[s] = "/" /\ \A i \in 1 .. s - 1 : rest[i] # "/"
          BY <2>2, <2>5, <3>2
        <4>2. stop = s + 2 /\ stop \in 3 .. N + 1 /\ text[stop] = "/"
          BY <1>0, <2>2, <3>2, <4>1
        <4>3. \A j \in 3 .. stop - 1 : j - 2 \in 1 .. s - 1 /\ j - 2 \in 1 .. N - 2 /\ 2 + (j - 2) = j
          BY <1>0, <4>1, <4>2
        <4>4. ASSUME NEW j \in 3 .. stop - 1 PROVE text[j] # "/"
          <5>1. rest[j - 2] # "/" /\ rest[j - 2] = text[2 + (j - 2)]
            BY <2>2, <4>1, <4>3
          <5> QED  BY <4>3, <5>1
        <4> QED  BY <4>2, <4>4
      <3> QED  BY <3>1, <3>2
    <2>7. Head1(rest, "/") = SubSeq(text, 3, stop - 1) /\ path = SubSeq(text, stop, N)
      <3>0. Head1(rest, "/") = IF s = 0 THEN rest ELSE Before(rest, s)
        BY DEF Head1, s
      <3>1. CASE s = 0
        <4>1. rest = SubSeq(text, 3, N)
          BY DEF rest, After
        <4>2. stop - 1 = N /\ stop > N
          BY <1>0, <3>1
        <4>3. SubSeq(text, stop, N) = <<>>
          BY <1>0, <2>6, <4>2, SubSeqEmpty
        <4> QED  BY <3>0, <3>1, <4>1, <4>2, <4>3
      <3>2. CASE s # 0
        <4>1. s \in 1 .. N - 2 /\ stop = s + 2
          BY <2>2, <2>5, <3>2
        <4>2. SubSeq(rest, 1, s - 1) = SubSeq(text, 3, stop - 1)
          BY <1>0, <4>1, RestOfSlice DEF rest
        <4>3. SubSeq(rest, s, Len(rest)) = SubSeq(text, stop, N)
          <5>1. /\ s \in 1 .. N - 1 /\ N - 2 \in s - 1 .. N - 2
                /\ s + 2 = stop /\ (N - 2) + 2 = N /\ Len(rest) = N - 2
            BY <1>0, <2>2, <4>1
          <5>2. SubSeq(rest, s, N - 2) = SubSeq(text, s + 2, (N - 2) + 2)
            BY <2>1, <5>1, RestOfSlice DEF rest
          <5> QED  BY <5>1, <5>2
        <4> QED  BY <3>0, <3>2, <4>2, <4>3 DEF Before
      <3> QED  BY <3>1, <3>2
    <2> HIDE DEF path, stop
    <2>8. \A i \in 3 .. N + 1 : /\ SubSeq(text, 3, i - 1) \in CharText
                                /\ SubSeq(text, i, N) \in CharText
                                /\ i <= N => /\ SubSeq(text, i, N) # <<>>
                                             /\ SubSeq(text, i, N)[1] = text[i]
                                /\ i > N => SubSeq(text, i, N) = <<>>
      <3> SUFFICES ASSUME NEW i \in 3 .. N + 1
                   PROVE  /\ SubSeq(text, 3, i - 1) \in CharText
                          /\ SubSeq(text, i, N) \in CharText
                          /\ i <= N => /\ SubSeq(text, i, N) # <<>>
                                       /\ SubSeq(text, i, N)[1] = text[i]
                          /\ i > N => SubSeq(text, i, N) = <<>>
        OBVIOUS
      <3>1. /\ 3 \in 1 .. N + 1 /\ i - 1 \in 3 - 1 .. N
            /\ i \in 1 .. N + 1 /\ N \in i - 1 .. N
        BY <1>0, <2>1
      <3>2. SubSeq(text, 3, i - 1) \in CharText
        BY <3>1, SliceIs
      <3> DEFINE q == SubSeq(text, i, N)
      <3>3. /\ q \in CharText /\ Len(q) = (N - i) + 1
            /\ \A j \in 1 .. (N - i) + 1 : q[j] = text[(i + j) - 1]
        BY <3>1, SliceIs
      <3> HIDE DEF q
      <3>4. i <= N => 1 \in 1 .. (N - i) + 1 /\ (i + 1) - 1 = i /\ Len(q) # 0
        BY <1>0, <3>3
      <3>5. i > N => Len(q) = 0
        BY <1>0, <3>3
      <3>6. q = <<>> <=> Len(q) = 0
        BY <3>3 DEF CharText
      <3> QED  BY <3>2, <3>3, <3>4, <3>5, <3>6 DEF q
    <2>9. ASSUME NEW i \in 3 .. N + 1, Reads(i) PROVE i = stop
      <3>1. AllIn(SubSeq(text, 3, i - 1), AuthorityChars)
        BY <2>8, <2>9, AuthorityIs
      <3>2. 3 \in 1 .. N + 1 /\ i - 1 \in 3 - 1 .. N
        BY <1>0, <2>1
      <3>3. \A j \in 3 .. i - 1 : text[j] \in AuthorityChars
        BY <3>1, <3>2, AllInSlice
      <3>4. "/" \notin AuthorityChars
        BY DEF AuthorityChars, HostChars, AddressChars, RegChars, Unreserved, SubDelims, Alpha, Digit
      <3>5. i <= N => text[i] = "/"
        BY <2>8, <2>9 DEF RfcPathAbempty
      <3>6. ~(i < stop)
        <4>1. ASSUME i < stop PROVE FALSE
          <5>1. i <= N /\ i \in 3 .. stop - 1
            BY <1>0, <2>6, <4>1
          <5> QED  BY <2>6, <3>5, <5>1
        <4> QED  BY <4>1
      <3>7. ~(stop < i)
        <4>1. ASSUME stop < i PROVE FALSE
          <5>1. stop <= N /\ stop \in 3 .. i - 1
            BY <1>0, <2>6, <4>1
          <5> QED  BY <2>6, <3>3, <3>4, <5>1
        <4> QED  BY <4>1
      <3> QED  BY <1>0, <2>6, <3>6, <3>7
    <2>10. RfcHier(text) <=> Reads(stop)
      <3> HIDE DEF Reads
      <3> QED  BY <2>4, <2>6, <2>9
    <2>11. RfcPathAbempty(SubSeq(text, stop, N)) <=> Chars(SubSeq(text, stop, N), PChars \cup {"/"})
      <3>1. stop <= N \/ stop > N
        BY <1>0, <2>6
      <3>2. SubSeq(text, stop, N) = <<>> \/ SubSeq(text, stop, N)[1] = "/"
        BY <2>6, <2>8, <3>1
      <3> QED  BY <3>2 DEF RfcPathAbempty
    <2>12. SubSeq(text, 3, stop - 1) \in CharText /\ SubSeq(text, stop, N) \in CharText
      BY <2>6, <2>8
    <2>13. Hierarchy(text) <=> RfcHier(text)
      BY <1>1, <2>3, <2>7, <2>10, <2>11, <2>12, AuthorityIs
    <2>14. ASSUME RfcHier(text) PROVE AllIn(text, HierChars)
      <3>1. /\ AllIn(SubSeq(text, 3, stop - 1), HierChars)
            /\ AllIn(SubSeq(text, stop, N), HierChars)
        BY <1>2, <2>10, <2>11, <2>12, <2>14, AuthorityIs
      <3>2. /\ 3 \in 1 .. N + 1 /\ stop - 1 \in 3 - 1 .. N
            /\ stop \in 1 .. N + 1 /\ N \in stop - 1 .. N
        BY <1>0, <2>1, <2>6
      <3>3. /\ \A j \in 3 .. stop - 1 : text[j] \in HierChars
            /\ \A j \in stop .. N : text[j] \in HierChars
        BY <3>1, <3>2, AllInSlice
      <3>4. ASSUME NEW j \in 1 .. N PROVE text[j] \in HierChars
        <4>1. j = 1 \/ j = 2 \/ j \in 3 .. stop - 1 \/ j \in stop .. N
          BY <1>0, <2>6
        <4> QED  BY <1>2, <1>4, <3>3, <4>1
      <3> QED  BY <3>4 DEF AllIn
    <2> QED  BY <2>13, <2>14
  <1> QED  BY <1>3, <1>4

QueryChars == PChars \cup {"/", "?"}

\* A query, and then a fragment, are cut off at the first of their delimiters.
LEMMA QueryIs ==
    /\ \A t \in CharText : Component(t, QueryExtra) <=> Chars(t, QueryChars)
    /\ Component(<<>>, QueryExtra)
  <1>1. "%" \notin QueryExtra /\ RegChars \cup QueryExtra = QueryChars
    BY DEF QueryExtra, PathExtra, QueryChars, PChars
  <1>2. \A t \in CharText : Component(t, QueryExtra) <=> Chars(t, QueryChars)
    BY <1>1, ComponentIs
  <1>3. <<>> \in CharText
    BY DEF CharText
  <1>4. Chars(<<>>, QueryChars)
    BY DEF Chars
  <1> QED  BY <1>2, <1>3, <1>4

Hierarchies == {t \in CharText : RfcHier(t)}
Queries == {t \in CharText : Chars(t, QueryChars)}
Querieds == {t \in CharText : RfcQueried(t)}

LEMMA QueriedIs ==
    ASSUME NEW text \in CharText
    PROVE  /\ RfcQueried(text) <=> /\ Component(Tail1(text, "?"), QueryExtra)
                                   /\ Hierarchy(Head1(text, "?"))
           /\ RfcQueried(text) => AllIn(text, HierChars \cup {"?"})
  <1> DEFINE f == Find(text, "?")
  <1>1. RfcQueried(text) <=> text \in Hierarchies \/ Splits(text, "?", Hierarchies, Queries)
    BY PartsAre DEF RfcQueried, Splits, Hierarchies, Queries, QueryChars
  <1>2. NoneHas(Hierarchies, "?")
    <2>1. "?" \notin HierChars
      BY DEF HierChars, AuthorityChars, HostChars, AddressChars, RegChars, Unreserved, SubDelims,
             Alpha, Digit
    <2> QED  BY <2>1, HierarchyIs DEF NoneHas, AllIn, Hierarchies
  <1>3. f = Find(text, "?") /\ (f = 0 \/ f \in 1 .. Len(text))
    BY FindIs
  <1>4. f # 0 => Before(text, f) \in CharText /\ After(text, f) \in CharText
    BY <1>3, CutIs
  <1>5. /\ Head1(text, "?") = IF f = 0 THEN text ELSE Before(text, f)
        /\ Tail1(text, "?") = IF f = 0 THEN <<>> ELSE After(text, f)
    BY DEF Head1, Tail1
  <1>6. \A t \in CharText : Hierarchy(t) <=> t \in Hierarchies
    BY HierarchyIs DEF Hierarchies
  <1>7. \A t \in CharText : Component(t, QueryExtra) <=> t \in Queries
    BY QueryIs DEF Queries
  <1>8. ASSUME RfcQueried(text) PROVE AllIn(text, HierChars \cup {"?"})
    <2>1. HierChars \subseteq HierChars \cup {"?"}
          /\ QueryChars \cup {"%"} \subseteq HierChars \cup {"?"}
      BY DEF QueryChars, HierChars, AuthorityChars, HostChars, AddressChars, PChars
    <2>2. CASE RfcHier(text)
      BY <2>1, <2>2, HierarchyIs, WiderIn
    <2>3. ASSUME NEW p \in Parts(text, "?"), RfcHier(p[1]), Chars(p[2], QueryChars)
          PROVE  AllIn(text, HierChars \cup {"?"})
      <3>1. AllIn(p[1], HierChars) /\ AllIn(p[2], QueryChars \cup {"%"})
        BY <2>3, PartsAre, HierarchyIs, CharsIn
      <3>2. AllIn(p[1], HierChars \cup {"?"}) /\ AllIn(p[2], HierChars \cup {"?"})
        BY <2>1, <3>1, WiderIn
      <3> QED  BY <3>2, PartsAre
    <2> QED  BY <1>8, <2>2, <2>3 DEF RfcQueried, QueryChars
  <1> HIDE DEF f
  <1>9. RfcQueried(text) <=> IF f = 0 THEN text \in Hierarchies
                             ELSE Before(text, f) \in Hierarchies /\ After(text, f) \in Queries
    BY <1>1, <1>2, <1>3, FirstCut
  <1>10. CASE f = 0
    BY <1>5, <1>6, <1>8, <1>9, <1>10, QueryIs
  <1>11. CASE f # 0
    BY <1>4, <1>5, <1>6, <1>7, <1>8, <1>9, <1>11
  <1> QED  BY <1>10, <1>11

Unfragmented(text) == Head1(text, "#")

LEMMA RestIs ==
    ASSUME NEW text \in CharText
    PROVE  RfcRest(text) <=> /\ Component(Tail1(text, "#"), QueryExtra)
                             /\ Component(Tail1(Unfragmented(text), "?"), QueryExtra)
                             /\ Hierarchy(Head1(Unfragmented(text), "?"))
  <1> DEFINE f == Find(text, "#")
             Right(t) == Component(Tail1(t, "?"), QueryExtra) /\ Hierarchy(Head1(t, "?"))
  <1>1. RfcRest(text) <=> text \in Querieds \/ Splits(text, "#", Querieds, Queries)
    BY PartsAre DEF RfcRest, Splits, Querieds, Queries, QueryChars
  <1>2. NoneHas(Querieds, "#")
    <2>1. "#" \notin HierChars \cup {"?"}
      BY DEF HierChars, AuthorityChars, HostChars, AddressChars, RegChars, Unreserved, SubDelims,
             Alpha, Digit
    <2> QED  BY <2>1, QueriedIs DEF NoneHas, AllIn, Querieds
  <1>3. f = Find(text, "#") /\ (f = 0 \/ f \in 1 .. Len(text))
    BY FindIs
  <1>4. f # 0 => Before(text, f) \in CharText /\ After(text, f) \in CharText
    BY <1>3, CutIs
  <1>5. /\ Unfragmented(text) = IF f = 0 THEN text ELSE Before(text, f)
        /\ Tail1(text, "#") = IF f = 0 THEN <<>> ELSE After(text, f)
    BY DEF Head1, Tail1, Unfragmented
  <1>6. \A t \in CharText : Right(t) <=> t \in Querieds
    BY QueriedIs DEF Querieds
  <1>7. \A t \in CharText : Component(t, QueryExtra) <=> t \in Queries
    BY QueryIs DEF Queries
  <1> HIDE DEF f, Right
  <1>8. RfcRest(text) <=> IF f = 0 THEN text \in Querieds
                          ELSE Before(text, f) \in Querieds /\ After(text, f) \in Queries
    BY <1>1, <1>2, <1>3, FirstCut
  <1>9. RfcRest(text) <=> Component(Tail1(text, "#"), QueryExtra) /\ Right(Unfragmented(text))
    <2>1. CASE f = 0
      BY <1>5, <1>6, <1>8, <2>1, QueryIs
    <2>2. CASE f # 0
      BY <1>4, <1>5, <1>6, <1>7, <1>8, <2>2
    <2> QED  BY <2>1, <2>2
  <1> QED  BY <1>9 DEF Right

\* The validator and the grammar are the same, for every text.
LEMMA ValidIs ==
    ASSUME NEW text \in CharText
    PROVE  Valid(text) <=> Rfc3986(text)
  <1> DEFINE f == Find(text, ":")
             schemes == {t \in CharText : Scheme(t)}
             rests == {t \in CharText : RfcRest(t)}
             whole == {}
  <1>1. Rfc3986(text) <=> text \in whole \/ Splits(text, ":", schemes, rests)
    BY PartsAre DEF Rfc3986, Splits
  <1>2. NoneHas(schemes, ":") /\ NoneHas(whole, ":")
    <2>1. ":" \notin Alpha \cup Digit \cup {"."}
      BY DEF Alpha, Digit
    <2> QED  BY <2>1 DEF NoneHas, AllIn, Scheme
  <1>3. f = Find(text, ":") /\ (f = 0 \/ f \in 1 .. Len(text))
    BY FindIs
  <1>4. f # 0 => Before(text, f) \in CharText /\ After(text, f) \in CharText
    BY <1>3, CutIs
  <1>5. text \notin whole
    OBVIOUS
  <1>6. f # 0 => Head1(text, ":") = Before(text, f) /\ Tail1(text, ":") = After(text, f)
    BY DEF Head1, Tail1
  <1>7. Valid(text) <=> /\ f # 0 /\ Scheme(Head1(text, ":"))
                        /\ Component(Tail1(Tail1(text, ":"), "#"), QueryExtra)
                        /\ Component(Tail1(Unfragmented(Tail1(text, ":")), "?"), QueryExtra)
                        /\ Hierarchy(Head1(Unfragmented(Tail1(text, ":")), "?"))
    BY DEF Valid, Unfragmented
  <1>8. \A t \in CharText : (Scheme(t) <=> t \in schemes) /\ (RfcRest(t) <=> t \in rests)
    OBVIOUS
  <1> HIDE DEF f, schemes, rests, whole
  <1>9. Rfc3986(text) <=> f # 0 /\ Before(text, f) \in schemes /\ After(text, f) \in rests
    <2>1. (text \in whole \/ Splits(text, ":", schemes, rests))
          <=> IF f = 0 THEN text \in whole
              ELSE Before(text, f) \in schemes /\ After(text, f) \in rests
      BY <1>2, <1>3, FirstCut
    <2> QED  BY <1>1, <1>5, <2>1
  <1>10. CASE f = 0
    BY <1>7, <1>9, <1>10
  <1>11. CASE f # 0
    <2>1. Rfc3986(text) <=> Scheme(Before(text, f)) /\ RfcRest(After(text, f))
      BY <1>4, <1>8, <1>9, <1>11
    <2> QED  BY <1>4, <1>6, <1>7, <1>11, <2>1, RestIs
  <1> QED  BY <1>10, <1>11

(* server.hpp:209: whatever a resource is called, and however many groups an address is  *)
(* to have, valid_resource_uri accepts the name exactly if it is an absolute URI.          *)
THEOREM AcceptsAbsoluteUris == UriSpec => []UriIsRfc3986
  <1> DEFINE Inv == uri \in CharText /\ verdicts \subseteq {Valid(uri)}
  <1>1. UriInit => Inv
    BY UrisAssumption DEF UriInit, CharText
  <1>2. Inv /\ [Validate]_uriVars => Inv'
    BY DEF Validate, uriVars
  <1>3. Inv => UriIsRfc3986
    <2> SUFFICES ASSUME Inv, NEW accepted \in verdicts PROVE accepted <=> Rfc3986(uri)
      BY DEF UriIsRfc3986
    <2>1. accepted = Valid(uri) /\ (Valid(uri) <=> Rfc3986(uri))
      BY ValidIs
    <2> QED  BY <2>1
  <1> HIDE DEF Inv
  <1> QED  BY <1>1, <1>2, <1>3, PTL DEF UriSpec
=============================================================================
