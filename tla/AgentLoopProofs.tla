-------------------------- MODULE AgentLoopProofs --------------------------
(***************************************************************************)
(* Proofs about AgentLoop for every limit, price and tool failure bound:   *)
(* its types, the overspending of a run, the log as the ledger of the run  *)
(* (what it adds up to is a sum over any number of events, by induction),  *)
(* the conversation, and the rip cord.                                     *)
(***************************************************************************)
EXTENDS AgentLoop, FiniteSetTheorems, SequenceTheorems, WellFoundedInduction, TLAPS

EventType == [type : EventNames, iteration : Nat, amount : Nat, used : Nat]
MessageType == [role : {"system", "user", "assistant", "tool"}, n : Nat]

\* TypeOK with what it needs to be inductive.
Inv == TypeOK /\ LoopInv

LEMMA EventTyped ==
  ASSUME NEW t \in EventNames, NEW i \in Nat, NEW a \in Nat, NEW u \in Nat
  PROVE  Event(t, i, a, u) \in EventType
  BY DEF Event, EventType

\* A call costs a natural number, whatever the provider reports.
LEMMA ChargeTyped ==
  ASSUME NEW u \in Usages, NEW reported \in ReportedCosts \cup {NoReport}
  PROVE  Charge(u, reported) \in Nat /\ TotalTokens(u) \in Nat
<1>1. u.prompt \in Nat /\ u.completion \in Nat /\ u.reasoning \in Nat
  BY AgentLoopAssumption
<1>2. \A a, b \in Nat : a * b \in Nat
  OBVIOUS
<1>3. CostOf(u) \in Nat
  <2>1. u.completion + u.reasoning \in Nat
    BY <1>1
  <2>2. /\ PromptPrice * u.prompt \in Nat
        /\ CompletionPrice * (u.completion + u.reasoning) \in Nat
    BY <1>1, <1>2, <2>1, AgentLoopAssumption
  <2> QED BY <2>2 DEF CostOf
<1> QED BY <1>1, <1>3, AgentLoopAssumption DEF Charge, TotalTokens

\* Appending typed events, one or two, keeps a log typed.
LEMMA LogTyped ==
  ASSUME NEW s \in Seq(EventType), NEW e \in EventType, NEW f \in EventType
  PROVE  /\ Append(s, e) \in Seq(EventType)
         /\ s \o <<e, f>> \in Seq(EventType)
         /\ Append(s \o <<e>>, f) \in Seq(EventType)
         /\ Append(s \o <<>>, e) \in Seq(EventType)
<1>1. <<e>> \in Seq(EventType) /\ <<e, f>> \in Seq(EventType) /\ <<>> \in Seq(EventType)
  OBVIOUS
<1>2. s \o <<e>> \in Seq(EventType) /\ s \o <<>> \in Seq(EventType)
      /\ s \o <<e, f>> \in Seq(EventType)
  BY <1>1, ConcatProperties
<1> QED BY <1>2, AppendProperties

\* What TypeOK says, with the names of this module.
LEMMA Types ==
  ASSUME TypeOK
  PROVE  /\ iterations \in Nat /\ iterations <= MaxIterations
         /\ tokens \in Nat /\ cost \in Nat /\ elapsed \in Nat
         /\ failures \in Nat /\ calls \in Nat /\ answered \in Nat
         /\ messages \in Seq(MessageType) /\ log \in Seq(EventType)
<1>1. MaxIterations \in Nat /\ MaxFailures \in Nat /\ MaxCalls \in Nat
  BY AgentLoopAssumption
<1>2. messages \in Seq(MessageType) /\ log \in Seq(EventType)
  BY DEF TypeOK, MessageType, EventType
<1>3. calls \in Nat
  BY <1>1 DEF TypeOK
<1> QED BY <1>1, <1>2, <1>3 DEF TypeOK

LEMMA MessagesTyped ==
  ASSUME NEW s \in Seq(MessageType), NEW n \in Nat,
         NEW r \in {"system", "user", "assistant", "tool"}
  PROVE  Append(s, Message(r, n)) \in Seq(MessageType)
<1>1. Message(r, n) \in MessageType
  BY DEF Message, MessageType
<1> QED BY <1>1, AppendProperties

LEMMA ReturnedTyped ==
  ASSUME NEW ok \in BOOLEAN, iterations \in Nat
  PROVE  Returned(ok) \in EventType /\ ToolCalled \in EventType
<1>1. ToolCalled \in EventType
  BY EventTyped DEF ToolCalled, EventNames
<1>2. CASE ok
  <2>1. Returned(ok) = Event("tool_returned", iterations, 1, 0)
    BY <1>2 DEF Returned
  <2> QED BY <1>1, <2>1, EventTyped DEF EventNames
<1>3. CASE ~ok
  <2>1. Returned(ok) = Event("tool_returned", iterations, 0, 0)
    BY <1>3 DEF Returned
  <2> QED BY <1>1, <2>1, EventTyped DEF EventNames
<1> QED BY <1>2, <1>3

LEMMA InvInit == Init => Inv
<1> SUFFICES ASSUME Init PROVE Inv
  OBVIOUS
<1>1. messages \in Seq([role : {"system", "user", "assistant", "tool"}, n : Nat])
  BY DEF Init, Message
<1>2. log = <<>> /\ log \in Seq([type : EventNames, iteration : Nat, amount : Nat, used : Nat])
  BY DEF Init
<1>3. /\ 0 \in 0..MaxIterations /\ 0 \in 0..MaxFailures /\ 0 \in 0..MaxCalls
      /\ 0 < MaxFailures
  BY AgentLoopAssumption
<1>4. TypeOK
  <2>1. /\ iterations = 0 /\ tokens = 0 /\ cost = 0 /\ elapsed = 0
        /\ failures = 0 /\ calls = 0 /\ answered = 0 /\ pc = "start"
    BY DEF Init
  <2>2. answered \in 0..calls
    BY <2>1
  <2>3. anyOk \in BOOLEAN /\ reason \in Reasons \cup {"none"}
    BY DEF Init
  <2> QED BY <1>1, <1>2, <1>3, <2>1, <2>2, <2>3 DEF TypeOK
<1>5. LoopInv
  BY <1>3 DEF Init, LoopInv
<1> QED BY <1>4, <1>5 DEF Inv

LEMMA StartInv == Inv /\ Start => Inv'
<1> SUFFICES ASSUME Inv, Start PROVE Inv'
  OBVIOUS
<1>1. TypeOK /\ LoopInv
  BY DEF Inv
<1>2. Event("run_started", 0, 0, 0) \in EventType
  BY EventTyped DEF EventNames
<1>3. log' \in Seq(EventType)
  BY <1>1, <1>2, Types, LogTyped DEF Start
<1>4. TypeOK'
  BY <1>1, <1>3 DEF Start, TypeOK, budget, EventType
<1>5. LoopInv'
  BY <1>1 DEF Start, LoopInv
<1> QED BY <1>4, <1>5 DEF Inv

LEMMA BeginInv == Inv /\ BeginIteration => Inv'
<1> SUFFICES ASSUME Inv, BeginIteration PROVE Inv'
  OBVIOUS
<1>1. TypeOK /\ LoopInv
  BY DEF Inv
<1>2. iterations' \in 0..MaxIterations /\ iterations' \in Nat
  <2>1. iterations' = iterations + 1 /\ ~(iterations >= MaxIterations)
    BY DEF BeginIteration, Exceeded
  <2>2. iterations \in Nat /\ MaxIterations \in Nat
    BY <1>1, Types, AgentLoopAssumption
  <2> QED BY <2>1, <2>2
<1>3. log' \in Seq(EventType)
  <2>1. Len(messages) \in Nat
    BY <1>1, Types, LenProperties
  <2>2. /\ Event("iteration_started", iterations', 0, 0) \in EventType
        /\ Event("model_called", iterations', 0, Len(messages)) \in EventType
    BY <1>2, <2>1, EventTyped DEF EventNames
  <2>3. log' = log \o <<Event("iteration_started", iterations', 0, 0),
                        Event("model_called", iterations', 0, Len(messages))>>
    BY DEF BeginIteration
  <2> QED BY <1>1, <2>2, <2>3, Types, LogTyped
<1>4. Below(tokens, MaxTokens) /\ Below(cost, MaxCost)
  <2>1. ~Reached(tokens, MaxTokens) /\ ~Reached(cost, MaxCost)
    BY DEF BeginIteration, Exceeded
  <2> QED BY <1>1, <2>1, Types, AgentLoopAssumption DEF Reached, Below, Limits
<1>5. TypeOK'
  BY <1>1, <1>2, <1>3 DEF BeginIteration, TypeOK, EventType
<1>6. LoopInv'
  BY <1>1, <1>4 DEF BeginIteration, LoopInv, Below
<1> QED BY <1>5, <1>6 DEF Inv

LEMMA StopInv == Inv /\ StopOnBudget => Inv'
<1> SUFFICES ASSUME Inv, StopOnBudget PROVE Inv'
  OBVIOUS
<1>1. TypeOK /\ LoopInv
  BY DEF Inv
<1>2. iterations' = iterations /\ tokens' = tokens /\ cost' = cost
  BY DEF StopOnBudget, budget
<1>3. Event("run_finished", iterations', cost', 0) \in EventType
  BY <1>1, <1>2, Types, EventTyped DEF EventNames
<1>4. log' = Append(log \o <<>>, Event("run_finished", iterations', cost', 0))
  BY DEF StopOnBudget, Finish
<1>5. log' \in Seq(EventType)
  BY <1>1, <1>3, <1>4, Types, LogTyped
<1>6. TypeOK'
  BY <1>1, <1>2, <1>5 DEF StopOnBudget, Finish, TypeOK, EventType, Reasons
<1>7. LoopInv'
  BY <1>1 DEF StopOnBudget, Finish, LoopInv
<1> QED BY <1>6, <1>7 DEF Inv

LEMMA ModelAnswersInv ==
  ASSUME Inv, NEW d \in Durations, NEW u \in Usages,
         NEW c \in ReportedCosts \cup {NoReport}, NEW n \in 0..MaxCalls,
         ModelAnswers(u, c, n, d)
  PROVE  Inv'
<1> DEFINE responded == Event("model_responded", iterations, Charge(u, c), TotalTokens(u))
           finished  == Event("run_finished", iterations', cost', 0)
<1>1. TypeOK /\ LoopInv
  BY DEF Inv
<1>2. /\ Charge(u, c) \in Nat /\ TotalTokens(u) \in Nat
      /\ n \in Nat /\ d \in Nat
  BY ChargeTyped, AgentLoopAssumption
<1>3. /\ tokens' = tokens + TotalTokens(u) /\ cost' = cost + Charge(u, c)
      /\ elapsed' = elapsed + d /\ iterations' = iterations
  BY DEF ModelAnswers
<1>4. tokens' \in Nat /\ cost' \in Nat /\ elapsed' \in Nat
  <2>1. tokens \in Nat /\ cost \in Nat /\ elapsed \in Nat
    BY <1>1, Types
  <2>2. \A a, b \in Nat : a + b \in Nat
    OBVIOUS
  <2> QED BY <1>2, <1>3, <2>1, <2>2
<1>5. messages' \in Seq(MessageType)
  BY <1>1, <1>2, Types, MessagesTyped DEF ModelAnswers
<1>6. responded \in EventType /\ ToolCalled \in EventType /\ finished \in EventType
  BY <1>1, <1>2, <1>3, <1>4, Types, EventTyped DEF ToolCalled, EventNames
<1>7. /\ log' \in Seq(EventType)
      /\ pc' \in {"done", "tool"} /\ reason' \in Reasons \cup {"none"}
  <2>1. CASE n = 0
    <3>1. /\ pc' = "done" /\ reason' = "completed"
          /\ log' = Append(log \o <<responded>>, finished)
      BY <2>1 DEF ModelAnswers, Finish
    <3>2. log' \in Seq(EventType)
      BY <1>1, <1>6, <3>1, Types, LogTyped
    <3> QED BY <3>1, <3>2 DEF Reasons
  <2>2. CASE n # 0
    <3>1. /\ pc' = "tool" /\ reason' = reason
          /\ log' = log \o <<responded, ToolCalled>>
      BY <2>2 DEF ModelAnswers
    <3>2. log' \in Seq(EventType)
      BY <1>1, <1>6, <3>1, Types, LogTyped
    <3> QED BY <1>1, <3>1, <3>2 DEF TypeOK
  <2> QED BY <2>1, <2>2
<1>8. /\ calls' \in 0..MaxCalls /\ answered' \in 0..calls' /\ anyOk' \in BOOLEAN
      /\ failures' = failures
  <2>1. calls' = n /\ answered' = 0 /\ anyOk' = FALSE /\ failures' = failures
    BY DEF ModelAnswers
  <2>2. 0 \in 0..n
    BY <1>2
  <2> QED BY <2>1, <2>2
<1>9. TypeOK'
  BY <1>1, <1>3, <1>4, <1>5, <1>7, <1>8 DEF TypeOK, EventType, MessageType
<1>10. LoopInv'
  <2>1. pc = "model"
    BY DEF ModelAnswers
  <2> QED BY <1>1, <1>7, <1>8, <2>1 DEF LoopInv
<1> QED BY <1>9, <1>10 DEF Inv

LEMMA ProviderFailsInv ==
  ASSUME Inv, NEW d \in Durations, ProviderFails(d)
  PROVE  Inv'
<1>1. TypeOK /\ LoopInv
  BY DEF Inv
<1>2. iterations' = iterations /\ tokens' = tokens /\ cost' = cost /\ elapsed' = elapsed + d
  BY DEF ProviderFails, budget
<1>3. Event("run_finished", iterations', cost', 0) \in EventType
  BY <1>1, <1>2, Types, EventTyped DEF EventNames
<1>4. log' = Append(log \o <<>>, Event("run_finished", iterations', cost', 0))
  BY DEF ProviderFails, Finish
<1>5. log' \in Seq(EventType) /\ elapsed' \in Nat
  BY <1>1, <1>2, <1>3, <1>4, Types, LogTyped, AgentLoopAssumption
<1>6. TypeOK'
  BY <1>1, <1>2, <1>5 DEF ProviderFails, Finish, TypeOK, EventType, Reasons
<1>7. LoopInv'
  BY <1>1 DEF ProviderFails, Finish, LoopInv
<1> QED BY <1>6, <1>7 DEF Inv

LEMMA ToolReturnsInv ==
  ASSUME Inv, NEW d \in Durations, NEW ok \in BOOLEAN, ToolReturns(ok, d)
  PROVE  Inv'
<1>1. TypeOK /\ LoopInv
  BY DEF Inv
<1>2. /\ answered' = answered + 1 /\ answered + 1 < calls /\ elapsed' = elapsed + d
      /\ log' = log \o <<Returned(ok), ToolCalled>>
      /\ messages' = Append(messages, Message("tool", answered'))
      /\ anyOk' = (anyOk \/ ok)
  BY DEF ToolReturns
<1>3. answered' \in 0..calls /\ answered' \in Nat /\ elapsed' \in Nat
  <2>1. answered \in Nat /\ calls \in Nat /\ elapsed \in Nat /\ d \in Nat
    BY <1>1, Types, AgentLoopAssumption
  <2>2. answered' = answered + 1 /\ answered + 1 < calls /\ elapsed' = elapsed + d
    BY <1>2
  <2> QED BY <2>1, <2>2
<1>4. anyOk' \in BOOLEAN
  BY <1>1, <1>2 DEF TypeOK
<1>5. Returned(ok) \in EventType /\ ToolCalled \in EventType
  BY <1>1, Types, ReturnedTyped
<1>6. log' \in Seq(EventType) /\ messages' \in Seq(MessageType)
  BY <1>1, <1>2, <1>3, <1>5, Types, LogTyped, MessagesTyped
<1>7. TypeOK'
  BY <1>1, <1>3, <1>4, <1>6 DEF ToolReturns, TypeOK, budget, EventType, MessageType
<1>8. LoopInv'
  BY <1>1 DEF ToolReturns, LoopInv, budget
<1> QED BY <1>7, <1>8 DEF Inv

LEMMA LastToolReturnsInv ==
  ASSUME Inv, NEW d \in Durations, NEW ok \in BOOLEAN, LastToolReturns(ok, d)
  PROVE  Inv'
<1> DEFINE finished == Event("run_finished", iterations', cost', 0)
<1>1. TypeOK /\ LoopInv
  BY DEF Inv
<1>2. /\ answered' = calls /\ calls' = calls /\ elapsed' = elapsed + d
      /\ messages' = Append(messages, Message("tool", calls))
      /\ iterations' = iterations /\ tokens' = tokens /\ cost' = cost
      /\ pc = "tool"
  BY DEF LastToolReturns, budget
<1>3. answered' \in 0..calls' /\ elapsed' \in Nat
  BY <1>1, <1>2, Types, AgentLoopAssumption
<1>4. anyOk' \in BOOLEAN
  BY <1>1 DEF LastToolReturns, TypeOK
<1>5. failures' \in 0..MaxFailures
  <2>1. failures < MaxFailures
    BY <1>1, <1>2 DEF LoopInv
  <2>2. failures' = 0 \/ failures' = failures + 1
    BY DEF LastToolReturns, FailuresAfter
  <2> QED BY <1>1, <2>1, <2>2, Types, AgentLoopAssumption
<1>6. /\ Returned(ok) \in EventType /\ finished \in EventType
      /\ messages' \in Seq(MessageType)
  <2>1. Returned(ok) \in EventType
    BY <1>1, Types, ReturnedTyped
  <2>2. finished \in EventType
    BY <1>1, <1>2, Types, EventTyped DEF EventNames
  <2> QED BY <1>1, <1>2, <2>1, <2>2, Types, MessagesTyped
<1>7. /\ log' \in Seq(EventType) /\ reason' \in Reasons \cup {"none"}
      /\ \/ pc' = "done"
         \/ pc' = "ready" /\ failures' < MaxFailures
  <2>1. CASE failures' >= MaxFailures
    <3>1. /\ pc' = "done" /\ reason' = "tool_error_limit"
          /\ log' = Append(log \o <<Returned(ok)>>, finished)
      BY <2>1 DEF LastToolReturns, Finish
    <3>2. log' \in Seq(EventType)
      BY <1>1, <1>6, <3>1, Types, LogTyped
    <3> QED BY <3>1, <3>2 DEF Reasons
  <2>2. CASE ~(failures' >= MaxFailures)
    <3>1. /\ pc' = "ready" /\ reason' = reason /\ log' = Append(log, Returned(ok))
      BY <2>2 DEF LastToolReturns
    <3>2. failures' < MaxFailures
      BY <1>5, <2>2, AgentLoopAssumption
    <3>3. log' \in Seq(EventType)
      BY <1>1, <1>6, <3>1, Types, LogTyped
    <3> QED BY <1>1, <3>1, <3>2, <3>3 DEF TypeOK
  <2> QED BY <2>1, <2>2
<1>8. TypeOK'
  BY <1>1, <1>2, <1>3, <1>4, <1>5, <1>6, <1>7 DEF TypeOK, EventType, MessageType
<1>9. LoopInv'
  BY <1>7 DEF LoopInv
<1> QED BY <1>8, <1>9 DEF Inv

LEMMA InvStep == Inv /\ [Next]_vars => Inv'
<1> SUFFICES ASSUME Inv, [Next]_vars PROVE Inv'
  OBVIOUS
<1>1. CASE Raise
  <2>1. TypeOK'
    BY <1>1 DEF Inv, Raise, TypeOK, budget
  <2>2. LoopInv'
    BY <1>1 DEF Inv, Raise, LoopInv
  <2> QED BY <2>1, <2>2 DEF Inv
<1>2. CASE UNCHANGED vars
  BY <1>2 DEF Inv, TypeOK, LoopInv, Below, vars, budget
<1> QED BY <1>1, <1>2, StartInv, BeginInv, StopInv, ModelAnswersInv, ProviderFailsInv,
        ToolReturnsInv, LastToolReturnsInv DEF Next, Step

\* Every variable keeps its type, whatever the limits, prices and answers are: in particular
\* no run makes more than max_iterations iterations, and the model is never asked once the
\* tokens or the cost have reached their limit.
THEOREM LoopTypeCorrect == Spec => [](TypeOK /\ LoopInv)
<1>1. Inv => TypeOK /\ LoopInv
  BY DEF Inv
<1> QED BY InvInit, InvStep, <1>1, PTL DEF Spec
-----------------------------------------------------------------------------
(* The overspending of a run, on any log s with t tokens and c dollars spent. *)

Answers(s) == {i \in 1..Len(s) : s[i].type = "model_responded"}

Overshoot(s, t, c) ==
  \A i \in Answers(s) :
    (\A j \in Answers(s) : j <= i) =>
      Below(t - s[i].used, MaxTokens) /\ Below(c - s[i].amount, MaxCost)

\* An event that is no answer of the model changes nothing.
LEMMA OtherEvent ==
  ASSUME NEW s \in Seq(EventType), NEW e \in EventType, e.type # "model_responded",
         NEW t, NEW c, Overshoot(s, t, c)
  PROVE  Overshoot(Append(s, e), t, c) /\ Append(s, e) \in Seq(EventType)
<1>1. Append(s, e) \in Seq(EventType) /\ Len(Append(s, e)) = Len(s) + 1 /\ Len(s) \in Nat
  BY AppendProperties, LenProperties
<1>2. \A i \in 1..Len(s) : Append(s, e)[i] = s[i]
  BY AppendProperties
<1>3. Append(s, e)[Len(s) + 1] = e
  BY AppendProperties
<1>4. Answers(Append(s, e)) = Answers(s)
  <2>1. 1..Len(Append(s, e)) = (1..Len(s)) \cup {Len(s) + 1}
    BY <1>1
  <2> QED BY <1>2, <1>3, <2>1 DEF Answers
<1>5. \A i \in Answers(s) : Append(s, e)[i] = s[i]
  BY <1>2 DEF Answers
<1> QED BY <1>1, <1>4, <1>5 DEF Overshoot

\* After an answer only that answer counts.
LEMMA AnswerEvent ==
  ASSUME NEW s \in Seq(EventType), NEW e \in EventType, e.type = "model_responded",
         NEW t, NEW c, Below(t - e.used, MaxTokens), Below(c - e.amount, MaxCost)
  PROVE  Overshoot(Append(s, e), t, c) /\ Append(s, e) \in Seq(EventType)
<1>1. Append(s, e) \in Seq(EventType) /\ Len(Append(s, e)) = Len(s) + 1 /\ Len(s) \in Nat
  BY AppendProperties, LenProperties
<1>2. Append(s, e)[Len(s) + 1] = e
  BY AppendProperties
<1>3. Len(s) + 1 \in Answers(Append(s, e))
  BY <1>1, <1>2 DEF Answers
<1>4. \A i \in Answers(Append(s, e)) : i \in Int /\ i <= Len(s) + 1
  BY <1>1 DEF Answers
<1>5. ASSUME NEW i \in Answers(Append(s, e)), \A j \in Answers(Append(s, e)) : j <= i
      PROVE  i = Len(s) + 1
  BY <1>1, <1>3, <1>4, <1>5
<1> QED BY <1>1, <1>2, <1>5 DEF Overshoot

LEMMA TwoEvents ==
  ASSUME NEW s \in Seq(EventType), NEW e \in EventType, NEW f \in EventType
  PROVE  /\ s \o <<e, f>> = Append(Append(s, e), f)
         /\ Append(s \o <<e>>, f) = Append(Append(s, e), f)
         /\ Append(s \o <<>>, e) = Append(s, e)
<1>1. s \o <<e>> = Append(s, e) /\ s \o <<>> = s
  OBVIOUS
<1>2. s \o <<e, f>> = Append(Append(s, e), f)
  OBVIOUS
<1> QED BY <1>1, <1>2

LEMMA OtherKind ==
  ASSUME NEW t \in EventNames \ {"model_responded"},
         NEW i \in Nat, NEW a \in Nat, NEW u \in Nat
  PROVE  Event(t, i, a, u) \in EventType /\ Event(t, i, a, u).type # "model_responded"
<1>1. Event(t, i, a, u).type = t
  BY DEF Event
<1> QED BY <1>1, EventTyped

LEMMA OvershootIsLog == OvershootIsOneAnswer <=> Overshoot(log, tokens, cost)
  BY DEF OvershootIsOneAnswer, Overshoot, Answers, Indices
LEMMA OvershootInit == Init => OvershootIsOneAnswer
  BY DEF Init, OvershootIsOneAnswer, Indices

\* A step that books nothing and logs no answer.
LEMMA NoAnswer ==
  ASSUME Inv, OvershootIsOneAnswer, NEW e \in EventType, NEW f \in EventType,
         e.type # "model_responded", f.type # "model_responded",
         tokens' = tokens, cost' = cost,
         \/ log' = log
         \/ log' = Append(log, e) \/ log' = Append(log \o <<>>, e)
         \/ log' = log \o <<e, f>> \/ log' = Append(log \o <<e>>, f)
  PROVE  OvershootIsOneAnswer'
<1>1. log \in Seq(EventType)
  BY Types DEF Inv
<1>2. Overshoot(log, tokens, cost)
  BY OvershootIsLog
<1>3. Overshoot(Append(log, e), tokens, cost) /\ Append(log, e) \in Seq(EventType)
  BY <1>1, <1>2, OtherEvent
<1>4. Overshoot(Append(Append(log, e), f), tokens, cost)
  BY <1>3, OtherEvent
<1>5. log' \in {log, Append(log, e), Append(Append(log, e), f)}
  BY <1>1, TwoEvents
<1>6. Overshoot(log', tokens', cost')
  BY <1>2, <1>3, <1>4, <1>5
<1> QED BY <1>6 DEF OvershootIsOneAnswer, Overshoot, Answers, Indices

\* The model answers: what was spent before is below the limits, since it was asked there.
LEMMA AnswerOvershoot ==
  ASSUME Inv, NEW d \in Durations, NEW u \in Usages,
         NEW c \in ReportedCosts \cup {NoReport}, NEW n \in 0..MaxCalls,
         ModelAnswers(u, c, n, d)
  PROVE  OvershootIsOneAnswer'
<1> DEFINE e == Event("model_responded", iterations, Charge(u, c), TotalTokens(u))
           finished == Event("run_finished", iterations', cost', 0)
<1>1. TypeOK /\ LoopInv /\ Inv'
  BY ModelAnswersInv DEF Inv
<1>2. /\ log \in Seq(EventType) /\ tokens \in Nat /\ cost \in Nat /\ iterations \in Nat
      /\ iterations' \in Nat /\ cost' \in Nat
  <2>1. TypeOK'
    BY <1>1 DEF Inv
  <2>2. cost' \in Nat
    BY <2>1 DEF TypeOK
  <2>3. iterations' = iterations
    BY DEF ModelAnswers
  <2> QED BY <1>1, <2>2, <2>3, Types
<1>3. Charge(u, c) \in Nat /\ TotalTokens(u) \in Nat
  BY ChargeTyped
<1>4. e \in EventType /\ finished \in EventType /\ ToolCalled \in EventType
  BY <1>2, <1>3, EventTyped DEF EventNames, ToolCalled
<1>5. /\ e.type = "model_responded" /\ e.used = TotalTokens(u) /\ e.amount = Charge(u, c)
      /\ finished.type # "model_responded" /\ ToolCalled.type # "model_responded"
  BY DEF Event, ToolCalled
<1>6. Below(tokens, MaxTokens) /\ Below(cost, MaxCost)
  BY <1>1 DEF ModelAnswers, LoopInv
<1>7. tokens' - e.used = tokens /\ cost' - e.amount = cost
  <2>1. tokens' = tokens + TotalTokens(u) /\ cost' = cost + Charge(u, c)
    BY DEF ModelAnswers
  <2>2. \A a, b \in Nat : (a + b) - b = a
    OBVIOUS
  <2> QED BY <1>2, <1>3, <1>5, <2>1, <2>2
<1> HIDE DEF e, finished
<1>8. Overshoot(Append(log, e), tokens', cost') /\ Append(log, e) \in Seq(EventType)
  <2>1. Below(tokens' - e.used, MaxTokens) /\ Below(cost' - e.amount, MaxCost)
    BY <1>6, <1>7
  <2> QED BY <1>2, <1>4, <1>5, <2>1, AnswerEvent
<1>9. /\ Overshoot(Append(Append(log, e), finished), tokens', cost')
      /\ Overshoot(Append(Append(log, e), ToolCalled), tokens', cost')
  BY <1>4, <1>5, <1>8, OtherEvent
<1>10. \/ log' = Append(log \o <<e>>, finished)
       \/ log' = log \o <<e, ToolCalled>>
  BY DEF ModelAnswers, Finish, e, finished
<1>11. Overshoot(log', tokens', cost')
  <2>1. log \o <<e>> = Append(log, e)
    BY <1>2, <1>4
  <2>2. log \o <<e, ToolCalled>> = Append(Append(log, e), ToolCalled)
    BY <1>2, <1>4, TwoEvents
  <2> QED BY <1>9, <1>10, <2>1, <2>2
<1> QED BY <1>11 DEF OvershootIsOneAnswer, Overshoot, Answers, Indices

LEMMA OvershootStep ==
  ASSUME Inv, OvershootIsOneAnswer, [Next]_vars
  PROVE  OvershootIsOneAnswer'
<1> DEFINE finished == Event("run_finished", iterations', cost', 0)
<1>0. Inv'
  BY InvStep
<1>1. /\ iterations \in Nat /\ cost \in Nat /\ iterations' \in Nat /\ cost' \in Nat
      /\ Len(messages) \in Nat
  <2>1. iterations \in Nat /\ cost \in Nat /\ messages \in Seq(MessageType)
    BY Types DEF Inv
  <2>2. iterations' \in Nat /\ cost' \in Nat
    BY <1>0, AgentLoopAssumption DEF Inv, TypeOK
  <2> QED BY <2>1, <2>2, LenProperties
<1>2. finished \in EventType /\ finished.type # "model_responded"
  BY <1>1, OtherKind DEF EventNames
<1>3. ToolCalled \in EventType /\ ToolCalled.type # "model_responded"
  BY <1>1, OtherKind DEF EventNames, ToolCalled
<1>4. ASSUME NEW ok \in BOOLEAN
      PROVE  Returned(ok) \in EventType /\ Returned(ok).type # "model_responded"
  <2>1. CASE ok
    <3>1. Returned(ok) = Event("tool_returned", iterations, 1, 0)
      BY <2>1 DEF Returned
    <3> QED BY <1>1, <3>1, OtherKind DEF EventNames
  <2>2. CASE ~ok
    <3>1. Returned(ok) = Event("tool_returned", iterations, 0, 0)
      BY <2>2 DEF Returned
    <3> QED BY <1>1, <3>1, OtherKind DEF EventNames
  <2> QED BY <2>1, <2>2
<1> HIDE DEF finished
<1>5. CASE Start
  <2>1. Event("run_started", 0, 0, 0) \in EventType
        /\ Event("run_started", 0, 0, 0).type # "model_responded"
    BY OtherKind DEF EventNames
  <2>2. /\ log' = Append(log, Event("run_started", 0, 0, 0))
        /\ tokens' = tokens /\ cost' = cost
    BY <1>5 DEF Start, budget
  <2> QED BY <2>1, <2>2, NoAnswer
<1>6. CASE BeginIteration
  <2> DEFINE e == Event("iteration_started", iterations', 0, 0)
             f == Event("model_called", iterations', 0, Len(messages))
  <2>1. /\ e \in EventType /\ e.type # "model_responded"
        /\ f \in EventType /\ f.type # "model_responded"
    BY <1>1, OtherKind DEF EventNames
  <2>2. log' = log \o <<e, f>> /\ tokens' = tokens /\ cost' = cost
    BY <1>6 DEF BeginIteration
  <2> HIDE DEF e, f
  <2> QED BY <2>1, <2>2, NoAnswer
<1>7. CASE StopOnBudget
  <2>1. log' = Append(log \o <<>>, finished) /\ tokens' = tokens /\ cost' = cost
    BY <1>7 DEF StopOnBudget, Finish, finished, budget
  <2> QED BY <1>2, <2>1, NoAnswer
<1>8. ASSUME NEW d \in Durations, ProviderFails(d) PROVE OvershootIsOneAnswer'
  <2>1. log' = Append(log \o <<>>, finished) /\ tokens' = tokens /\ cost' = cost
    BY <1>8 DEF ProviderFails, Finish, finished, budget
  <2> QED BY <1>2, <2>1, NoAnswer
<1>9. ASSUME NEW d \in Durations, NEW ok \in BOOLEAN, ToolReturns(ok, d)
      PROVE  OvershootIsOneAnswer'
  <2>1. log' = log \o <<Returned(ok), ToolCalled>> /\ tokens' = tokens /\ cost' = cost
    BY <1>9 DEF ToolReturns, budget
  <2> QED BY <1>3, <1>4, <2>1, NoAnswer
<1>10. ASSUME NEW d \in Durations, NEW ok \in BOOLEAN, LastToolReturns(ok, d)
       PROVE  OvershootIsOneAnswer'
  <2>1. /\ \/ log' = Append(log \o <<Returned(ok)>>, finished)
           \/ log' = Append(log, Returned(ok))
        /\ tokens' = tokens /\ cost' = cost
    BY <1>10 DEF LastToolReturns, Finish, finished, budget
  <2> QED BY <1>2, <1>4, <2>1, NoAnswer
<1>11. CASE Raise \/ UNCHANGED vars
  <2>1. log' = log /\ tokens' = tokens /\ cost' = cost
    BY <1>11 DEF Raise, vars, budget
  <2> QED BY <1>2, <2>1, NoAnswer
<1> QED BY <1>5, <1>6, <1>7, <1>8, <1>9, <1>10, <1>11, AnswerOvershoot DEF Next, Step

\* Whatever limits are set and whatever the provider reports, a run overspends by at most
\* its last answer (budget.py:104-138, agent.py:83-110).
THEOREM OvershootBounded == Spec => []OvershootIsOneAnswer
<1>1. OvershootIsOneAnswer /\ Inv /\ [Next]_vars => OvershootIsOneAnswer'
  BY OvershootStep
<1> QED BY InvInit, InvStep, OvershootInit, <1>1, PTL DEF Spec

-----------------------------------------------------------------------------
(* Induction over the natural numbers, as a fact about sets of them: no    *)
(* theorem with an operator parameter is needed.                           *)

Less == {p \in Nat \X Nat : p[1] < p[2]}

LEMMA LeastElement ==
  ASSUME NEW T \in SUBSET Nat, T # {}
  PROVE  \E m \in T : \A k \in T : m <= k
<1>1. IsWellFoundedOn(Less, Nat)
  BY NatLessThanWellFounded DEF OpToRel, Less
<1>2. PICK m \in T : \A k \in T : ~(<<k, m>> \in Less)
  BY <1>1, WFMin
<1>3. ASSUME NEW k \in T PROVE m <= k
  <2>1. ~(<<k, m>> \in Less)
    BY <1>2
  <2>2. m \in Nat /\ k \in Nat
    OBVIOUS
  <2>3. ~(k < m)
    BY <2>1, <2>2 DEF Less
  <2> QED BY <2>2, <2>3
<1> QED BY <1>3

LEMMA Induction ==
  ASSUME NEW S, 0 \in S, \A n \in Nat : n \in S => n + 1 \in S
  PROVE  Nat \subseteq S
<1> SUFFICES ASSUME Nat \ S # {} PROVE FALSE
  OBVIOUS
<1>1. PICK m \in Nat \ S : \A k \in Nat \ S : m <= k
  BY LeastElement
<1>2. m # 0
  OBVIOUS
<1>3. m - 1 \in Nat /\ (m - 1) + 1 = m /\ ~(m <= m - 1)
  BY <1>2
<1>4. m - 1 \in S
  BY <1>1, <1>3
<1> QED BY <1>3, <1>4

-----------------------------------------------------------------------------
(* Prefix sums *)

\* The equations that define the prefix sums of s, up to n.
SumsUpTo(f, s, n) == f[0] = 0 /\ \A k \in 1..n : f[k] = f[k - 1] + s[k]
Summable(s, n)    == \E f \in [0..n -> Nat] : SumsUpTo(f, s, n)

LEMMA SummableStep ==
  ASSUME NEW s \in Seq(Nat), NEW n \in Nat, n + 1 <= Len(s), Summable(s, n)
  PROVE  Summable(s, n + 1)
<1>1. PICK f \in [0..n -> Nat] : SumsUpTo(f, s, n)
  BY DEF Summable
<1> DEFINE g == [k \in 0..n + 1 |-> IF k = n + 1 THEN f[n] + s[n + 1] ELSE f[k]]
<1>2. s[n + 1] \in Nat
  <2>1. n + 1 \in 1..Len(s)
    OBVIOUS
  <2> QED BY <2>1
<1>3. g \in [0..n + 1 -> Nat] /\ g[0] = 0
  BY <1>1, <1>2 DEF SumsUpTo
<1>4. ASSUME NEW k \in 1..n + 1 PROVE g[k] = g[k - 1] + s[k]
  <2>1. CASE k = n + 1
    <3>1. g[k] = f[n] + s[n + 1] /\ k - 1 = n /\ n \in 0..n + 1 /\ n # n + 1
      BY <2>1
    <3>2. g[k - 1] = f[n]
      BY <3>1
    <3> QED BY <3>1, <3>2, <2>1
  <2>2. CASE k # n + 1
    <3>1. k \in 1..n /\ k - 1 \in 0..n + 1 /\ k - 1 # n + 1 /\ k \in 0..n + 1
      BY <2>2
    <3>2. g[k] = f[k] /\ g[k - 1] = f[k - 1]
      BY <3>1, <2>2
    <3> QED BY <1>1, <3>1, <3>2 DEF SumsUpTo
  <2> QED BY <2>1, <2>2
<1> HIDE DEF g
<1> QED BY <1>3, <1>4 DEF Summable, SumsUpTo

LEMMA SumsExist ==
  ASSUME NEW s \in Seq(Nat)
  PROVE  Summable(s, Len(s))
<1> DEFINE S == {n \in Nat : n <= Len(s) => Summable(s, n)}
<1>0. Len(s) \in Nat
  OBVIOUS
<1>1. 0 \in S
  <2> DEFINE z == [k \in 0..0 |-> 0]
  <2>1. z \in [0..0 -> Nat] /\ SumsUpTo(z, s, 0)
    BY DEF SumsUpTo
  <2> QED BY <2>1 DEF Summable
<1>2. ASSUME NEW n \in Nat, n \in S PROVE n + 1 \in S
  <2>1. n + 1 <= Len(s) => n <= Len(s)
    BY <1>0
  <2> QED BY <1>2, <2>1, SummableStep
<1>3. Len(s) \in S
  <2> HIDE DEF S
  <2> QED BY <1>0, <1>1, <1>2, Induction
<1> QED BY <1>0, <1>3

\* Two functions that satisfy the equations up to n agree up to n.
LEMMA SumsAgree ==
  ASSUME NEW s, NEW t, NEW f, NEW g, NEW n \in Nat,
         SumsUpTo(f, s, n), SumsUpTo(g, t, n), \A k \in 1..n : s[k] = t[k]
  PROVE  \A k \in 0..n : f[k] = g[k]
<1> DEFINE S == {k \in Nat : k <= n => f[k] = g[k]}
<1>1. 0 \in S
  BY DEF SumsUpTo
<1>2. ASSUME NEW k \in Nat, k \in S PROVE k + 1 \in S
  <2> SUFFICES ASSUME k + 1 <= n PROVE f[k + 1] = g[k + 1]
    OBVIOUS
  <2>1. k <= n /\ k + 1 \in 1..n /\ (k + 1) - 1 = k
    OBVIOUS
  <2>2. f[k] = g[k]
    BY <1>2, <2>1
  <2>3. f[k + 1] = f[k] + s[k + 1] /\ g[k + 1] = g[k] + t[k + 1] /\ s[k + 1] = t[k + 1]
    BY <2>1 DEF SumsUpTo
  <2> QED BY <2>2, <2>3
<1>3. Nat \subseteq S
  <2> HIDE DEF S
  <2> QED BY <1>1, <1>2, Induction
<1> QED BY <1>3

\* Sums satisfies its equations: its recursion has a solution.
LEMMA SumsDefined ==
  ASSUME NEW s \in Seq(Nat)
  PROVE  Sums(s) \in [0..Len(s) -> Nat] /\ SumsUpTo(Sums(s), s, Len(s))
<1> DEFINE h == CHOOSE sum : sum = [k \in 0..Len(s) |-> IF k = 0 THEN 0 ELSE sum[k - 1] + s[k]]
<1>0. Len(s) \in Nat
  OBVIOUS
<1>1. PICK f \in [0..Len(s) -> Nat] : SumsUpTo(f, s, Len(s))
  BY SumsExist DEF Summable
<1>2. f = [k \in 0..Len(s) |-> IF k = 0 THEN 0 ELSE f[k - 1] + s[k]]
  <2>1. \A k \in 0..Len(s) : k # 0 => k \in 1..Len(s)
    BY <1>0
  <2>2. \A k \in 0..Len(s) : f[k] = IF k = 0 THEN 0 ELSE f[k - 1] + s[k]
    BY <1>1, <2>1 DEF SumsUpTo
  <2> QED BY <1>1, <2>2
<1>3. h = [k \in 0..Len(s) |-> IF k = 0 THEN 0 ELSE h[k - 1] + s[k]]
  BY <1>2
<1>4. Sums(s) = h
  BY DEF Sums
<1> HIDE DEF h
<1>5. SumsUpTo(h, s, Len(s))
  <2>1. 0 \in 0..Len(s) /\ \A k \in 1..Len(s) : k \in 0..Len(s) /\ k # 0
    BY <1>0
  <2>2. \A k \in 0..Len(s) : h[k] = IF k = 0 THEN 0 ELSE h[k - 1] + s[k]
    BY <1>3
  <2> QED BY <2>1, <2>2 DEF SumsUpTo
<1>6. \A k \in 0..Len(s) : h[k] = f[k]
  <2>1. \A k \in 1..Len(s) : s[k] = s[k]
    OBVIOUS
  <2> QED BY <1>0, <1>1, <1>5, <2>1, SumsAgree
<1>7. h \in [0..Len(s) -> Nat]
  <2>1. \A k \in 0..Len(s) : h[k] \in Nat
    BY <1>1, <1>6
  <2>2. h = [k \in 0..Len(s) |-> h[k]]
    BY <1>3
  <2> QED BY <2>1, <2>2
<1> QED BY <1>4, <1>5, <1>7

\* A longer sequence has the same sums up to there, and one more.
LEMMA SumsAppend ==
  ASSUME NEW s \in Seq(Nat), NEW x \in Nat
  PROVE  /\ \A k \in 0..Len(s) : Sums(Append(s, x))[k] = Sums(s)[k]
         /\ Sums(Append(s, x))[Len(s) + 1] = Sums(s)[Len(s)] + x
<1> DEFINE t == Append(s, x)
<1>1. /\ t \in Seq(Nat) /\ Len(t) = Len(s) + 1 /\ Len(s) \in Nat
      /\ \A k \in 1..Len(s) : t[k] = s[k] /\ k \in 1..Len(t)
      /\ t[Len(s) + 1] = x /\ Len(s) + 1 \in 1..Len(t)
  OBVIOUS
<1> HIDE DEF t
<1>2. SumsUpTo(Sums(s), s, Len(s)) /\ SumsUpTo(Sums(t), t, Len(t))
  BY <1>1, SumsDefined
<1>3. SumsUpTo(Sums(t), t, Len(s))
  BY <1>1, <1>2 DEF SumsUpTo
<1>4. \A k \in 0..Len(s) : Sums(t)[k] = Sums(s)[k]
  <2>1. Len(s) \in Nat /\ \A k \in 1..Len(s) : t[k] = s[k]
    BY <1>1
  <2> QED BY <1>2, <1>3, <2>1, SumsAgree
<1>5. Sums(t)[Len(s) + 1] = Sums(t)[(Len(s) + 1) - 1] + t[Len(s) + 1]
  BY <1>1, <1>2 DEF SumsUpTo
<1>6. (Len(s) + 1) - 1 = Len(s) /\ Len(s) \in 0..Len(s)
  BY <1>1
<1> QED BY <1>1, <1>4, <1>5, <1>6 DEF t

-----------------------------------------------------------------------------
(* The log as the run's ledger: s is a log, n the iterations it shows, t and c the tokens *)
(* and the cost it adds up to.                                                            *)

Kind(s, type)       == {i \in 1..Len(s) : s[i].type = type}
Booked(s, t, c)     == Sums(Used(s))[Len(s)] = t /\ Sums(Paid(s))[Len(s)] = c
Counted(s, type, n) == IsFiniteSet(Kind(s, type)) /\ Cardinality(Kind(s, type)) = n

CallsInTime(s) ==
  \A i \in Kind(s, "model_called") :
    /\ s[i].iteration = Cardinality({j \in Kind(s, "model_called") : j <= i})
    /\ s[i].iteration <= MaxIterations
    /\ Below(Sums(Used(s))[i - 1], MaxTokens)
    /\ Below(Sums(Paid(s))[i - 1], MaxCost)

Ledger(s, n, t, c) ==
  /\ s \in Seq(EventType)
  /\ Booked(s, t, c)
  /\ Counted(s, "model_called", n) /\ Counted(s, "iteration_started", n)
  /\ CallsInTime(s)

\* The last event of s, and no other, is a run_finished with the figures of the rest.
Concluded(s) ==
  /\ Kind(s, "run_finished") # {}
  /\ \A i \in Kind(s, "run_finished") :
       /\ i = Len(s)
       /\ s[i].iteration = Cardinality(Kind(s, "iteration_started"))
       /\ s[i].amount = Sums(Paid(s))[i - 1]

LedgerInv ==
  /\ Ledger(log, iterations, tokens, cost)
  /\ pc = "done"  => Concluded(log)
  /\ pc # "done" => Kind(log, "run_finished") = {}

LEMMA KindAppend ==
  ASSUME NEW s \in Seq(EventType), NEW e \in EventType, NEW type
  PROVE  /\ e.type = type => Kind(Append(s, e), type) = Kind(s, type) \cup {Len(s) + 1}
         /\ e.type # type => Kind(Append(s, e), type) = Kind(s, type)
         /\ Len(s) + 1 \notin Kind(s, type)
<1>1. Len(Append(s, e)) = Len(s) + 1 /\ Len(s) \in Nat
  BY AppendProperties, LenProperties
<1>2. \A i \in 1..Len(s) : Append(s, e)[i] = s[i]
  BY AppendProperties
<1>3. Append(s, e)[Len(s) + 1] = e
  BY AppendProperties
<1>4. 1..Len(s) + 1 = (1..Len(s)) \cup {Len(s) + 1} /\ Len(s) + 1 \notin 1..Len(s)
  BY <1>1
<1> QED BY <1>1, <1>2, <1>3, <1>4 DEF Kind

LEMMA CountedAppend ==
  ASSUME NEW s \in Seq(EventType), NEW e \in EventType, NEW type, NEW n \in Nat,
         Counted(s, type, n)
  PROVE  /\ e.type = type => Counted(Append(s, e), type, n + 1)
         /\ e.type # type => Counted(Append(s, e), type, n)
<1>1. CASE e.type = type
  <2>1. /\ Kind(Append(s, e), type) = Kind(s, type) \cup {Len(s) + 1}
        /\ Len(s) + 1 \notin Kind(s, type)
    BY <1>1, KindAppend
  <2> QED BY <1>1, <2>1, FS_AddElement DEF Counted
<1>2. CASE e.type # type
  BY <1>2, KindAppend DEF Counted
<1> QED BY <1>1, <1>2

LEMMA FiguresTyped ==
  ASSUME NEW s \in Seq(EventType)
  PROVE  /\ Used(s) \in Seq(Nat) /\ Len(Used(s)) = Len(s)
         /\ Paid(s) \in Seq(Nat) /\ Len(Paid(s)) = Len(s)
<1>1. Len(s) \in Nat /\ \A k \in 1..Len(s) : s[k] \in EventType
  OBVIOUS
<1>2. \A e \in EventType : e.used \in Nat /\ e.amount \in Nat
  BY DEF EventType
<1>3. \A k \in 1..Len(s) : s[k].used \in Nat /\ s[k].amount \in Nat
  BY <1>1, <1>2
<1> QED BY <1>1, <1>3 DEF Used, Paid

LEMMA FiguresAppend ==
  ASSUME NEW s \in Seq(EventType), NEW e \in EventType
  PROVE  /\ Used(Append(s, e)) =
              Append(Used(s), IF e.type = "model_responded" THEN e.used ELSE 0)
         /\ Paid(Append(s, e)) =
              Append(Paid(s), IF e.type = "model_responded" THEN e.amount ELSE 0)
<1>1. /\ Len(Append(s, e)) = Len(s) + 1 /\ Len(s) \in Nat
      /\ \A i \in 1..Len(s) : Append(s, e)[i] = s[i]
      /\ Append(s, e)[Len(s) + 1] = e
  BY AppendProperties, LenProperties
<1>2. e.used \in Nat /\ e.amount \in Nat
  BY DEF EventType
<1> USE FiguresTyped
<1>3. Used(Append(s, e)) = Append(Used(s), IF e.type = "model_responded" THEN e.used ELSE 0)
  BY <1>1, <1>2 DEF Used
<1>4. Paid(Append(s, e)) = Append(Paid(s), IF e.type = "model_responded" THEN e.amount ELSE 0)
  BY <1>1, <1>2 DEF Paid
<1> QED BY <1>3, <1>4

\* Appending an event books its figures if it is an answer, and nothing otherwise.
LEMMA BookedAppend ==
  ASSUME NEW s \in Seq(EventType), NEW e \in EventType, NEW t \in Nat, NEW c \in Nat,
         Booked(s, t, c)
  PROVE  /\ e.type = "model_responded" => Booked(Append(s, e), t + e.used, c + e.amount)
         /\ e.type # "model_responded" => Booked(Append(s, e), t, c)
         /\ \A k \in 0..Len(s) : /\ Sums(Used(Append(s, e)))[k] = Sums(Used(s))[k]
                                 /\ Sums(Paid(Append(s, e)))[k] = Sums(Paid(s))[k]
<1> DEFINE x == IF e.type = "model_responded" THEN e.used ELSE 0
           y == IF e.type = "model_responded" THEN e.amount ELSE 0
<1>1. x \in Nat /\ y \in Nat /\ Len(Append(s, e)) = Len(s) + 1 /\ Len(s) \in Nat
  <2>1. e.used \in Nat /\ e.amount \in Nat
    BY DEF EventType
  <2> QED BY <2>1, AppendProperties, LenProperties
<1>2. Used(Append(s, e)) = Append(Used(s), x) /\ Paid(Append(s, e)) = Append(Paid(s), y)
  BY FiguresAppend
<1>3. /\ Used(s) \in Seq(Nat) /\ Len(Used(s)) = Len(s)
      /\ Paid(s) \in Seq(Nat) /\ Len(Paid(s)) = Len(s)
  BY FiguresTyped
<1> HIDE DEF x, y
<1>4. /\ \A k \in 0..Len(s) : Sums(Used(Append(s, e)))[k] = Sums(Used(s))[k]
      /\ Sums(Used(Append(s, e)))[Len(s) + 1] = Sums(Used(s))[Len(s)] + x
  BY <1>1, <1>2, <1>3, SumsAppend
<1>5. /\ \A k \in 0..Len(s) : Sums(Paid(Append(s, e)))[k] = Sums(Paid(s))[k]
      /\ Sums(Paid(Append(s, e)))[Len(s) + 1] = Sums(Paid(s))[Len(s)] + y
  BY <1>1, <1>2, <1>3, SumsAppend
<1>6. Booked(Append(s, e), t + x, c + y)
  BY <1>1, <1>4, <1>5 DEF Booked
<1> QED BY <1>4, <1>5, <1>6 DEF x, y

\* Appending an event keeps every call of the model in time, the new one if it is in time.
LEMMA CallsAppend ==
  ASSUME NEW s \in Seq(EventType), NEW e \in EventType, NEW n \in Nat, NEW t \in Nat,
         NEW c \in Nat, Booked(s, t, c), Counted(s, "model_called", n), CallsInTime(s),
         e.type = "model_called" => /\ e.iteration = n + 1 /\ e.iteration <= MaxIterations
                                    /\ Below(t, MaxTokens) /\ Below(c, MaxCost)
  PROVE  CallsInTime(Append(s, e))
<1> DEFINE u == Append(s, e)
<1>1. /\ u \in Seq(EventType) /\ Len(u) = Len(s) + 1 /\ Len(s) \in Nat
      /\ \A i \in 1..Len(s) : u[i] = s[i]
      /\ u[Len(s) + 1] = e
  BY AppendProperties, LenProperties
<1>2. \A k \in 0..Len(s) : /\ Sums(Used(u))[k] = Sums(Used(s))[k]
                           /\ Sums(Paid(u))[k] = Sums(Paid(s))[k]
  BY BookedAppend
<1>3. /\ e.type = "model_called" => Kind(u, "model_called") = Kind(s, "model_called") \cup {Len(s) + 1}
      /\ e.type # "model_called" => Kind(u, "model_called") = Kind(s, "model_called")
  BY KindAppend
<1>4. \A i \in Kind(s, "model_called") : i \in 1..Len(s)
  BY DEF Kind
<1> HIDE DEF u
<1> SUFFICES ASSUME NEW i \in Kind(u, "model_called")
             PROVE  /\ u[i].iteration = Cardinality({j \in Kind(u, "model_called") : j <= i})
                    /\ u[i].iteration <= MaxIterations
                    /\ Below(Sums(Used(u))[i - 1], MaxTokens)
                    /\ Below(Sums(Paid(u))[i - 1], MaxCost)
  BY DEF CallsInTime, u
<1>5. CASE i \in Kind(s, "model_called")
  <2>1. i \in 1..Len(s) /\ i - 1 \in 0..Len(s) /\ u[i] = s[i] /\ ~(Len(s) + 1 <= i)
    BY <1>1, <1>4, <1>5
  <2>2. {j \in Kind(u, "model_called") : j <= i} = {j \in Kind(s, "model_called") : j <= i}
    BY <1>3, <2>1
  <2>3. /\ s[i].iteration = Cardinality({j \in Kind(s, "model_called") : j <= i})
        /\ s[i].iteration <= MaxIterations
        /\ Below(Sums(Used(s))[i - 1], MaxTokens)
        /\ Below(Sums(Paid(s))[i - 1], MaxCost)
    BY <1>5 DEF CallsInTime
  <2> QED BY <1>2, <2>1, <2>2, <2>3
<1>6. CASE i \notin Kind(s, "model_called")
  <2>1. /\ e.type = "model_called" /\ i = Len(s) + 1 /\ u[i] = e
        /\ i - 1 = Len(s) /\ Len(s) \in 0..Len(s)
    BY <1>1, <1>3, <1>6
  <2>2. {j \in Kind(u, "model_called") : j <= i} = Kind(u, "model_called")
    <3>1. \A j \in Kind(s, "model_called") : j <= i
      BY <1>1, <1>4, <2>1
    <3>2. i <= i
      BY <1>1, <2>1
    <3>3. \A j \in Kind(u, "model_called") : j <= i
      BY <1>3, <2>1, <3>1, <3>2
    <3> QED BY <3>3
  <2>3. Cardinality(Kind(u, "model_called")) = n + 1
    BY <2>1, CountedAppend DEF Counted, u
  <2>4. Sums(Used(u))[i - 1] = t /\ Sums(Paid(u))[i - 1] = c
    BY <1>2, <2>1 DEF Booked
  <2> QED BY <2>1, <2>2, <2>3, <2>4
<1> QED BY <1>5, <1>6

\* An event that is neither a call nor an answer of the model.
LEMMA PlainEvent ==
  ASSUME NEW s, NEW n \in Nat, NEW t \in Nat, NEW c \in Nat, Ledger(s, n, t, c),
         NEW e \in EventType,
         e.type \notin {"model_responded", "model_called", "iteration_started"}
  PROVE  /\ Ledger(Append(s, e), n, t, c)
         /\ e.type # "run_finished" =>
              Kind(Append(s, e), "run_finished") = Kind(s, "run_finished")
<1>1. s \in Seq(EventType) /\ Append(s, e) \in Seq(EventType)
  BY AppendProperties DEF Ledger
<1>2. Booked(Append(s, e), t, c)
  BY <1>1, BookedAppend DEF Ledger
<1>3. /\ Counted(Append(s, e), "model_called", n)
      /\ Counted(Append(s, e), "iteration_started", n)
  BY <1>1, CountedAppend DEF Ledger
<1>4. CallsInTime(Append(s, e))
  BY <1>1, CallsAppend DEF Ledger
<1>5. e.type # "run_finished" => Kind(Append(s, e), "run_finished") = Kind(s, "run_finished")
  BY <1>1, KindAppend
<1> QED BY <1>1, <1>2, <1>3, <1>4, <1>5 DEF Ledger

\* An answer is booked.
LEMMA AnswerBooked ==
  ASSUME NEW s, NEW n \in Nat, NEW t \in Nat, NEW c \in Nat, Ledger(s, n, t, c),
         NEW e \in EventType, e.type = "model_responded"
  PROVE  /\ Ledger(Append(s, e), n, t + e.used, c + e.amount)
         /\ Kind(Append(s, e), "run_finished") = Kind(s, "run_finished")
<1>1. s \in Seq(EventType) /\ Append(s, e) \in Seq(EventType)
  BY AppendProperties DEF Ledger
<1>2. Booked(Append(s, e), t + e.used, c + e.amount)
  BY <1>1, BookedAppend DEF Ledger
<1>3. /\ Counted(Append(s, e), "model_called", n)
      /\ Counted(Append(s, e), "iteration_started", n)
  BY <1>1, CountedAppend DEF Ledger
<1>4. CallsInTime(Append(s, e))
  BY <1>1, CallsAppend DEF Ledger
<1>5. Kind(Append(s, e), "run_finished") = Kind(s, "run_finished")
  BY <1>1, KindAppend
<1> QED BY <1>1, <1>2, <1>3, <1>4, <1>5 DEF Ledger

\* An iteration starts below the limits and calls the model.
LEMMA CallBooked ==
  ASSUME NEW s, NEW n \in Nat, NEW t \in Nat, NEW c \in Nat, Ledger(s, n, t, c),
         NEW e \in EventType, e.type = "iteration_started",
         NEW f \in EventType, f.type = "model_called", f.iteration = n + 1,
         n + 1 <= MaxIterations, Below(t, MaxTokens), Below(c, MaxCost)
  PROVE  /\ Ledger(Append(Append(s, e), f), n + 1, t, c)
         /\ Kind(Append(Append(s, e), f), "run_finished") = Kind(s, "run_finished")
<1> DEFINE u == Append(s, e)
           w == Append(u, f)
<1>1. s \in Seq(EventType) /\ u \in Seq(EventType) /\ w \in Seq(EventType)
  BY AppendProperties DEF Ledger
<1>0. Kind(u, "run_finished") = Kind(s, "run_finished")
  <2>1. e.type # "run_finished"
    OBVIOUS
  <2> QED BY <1>1, <2>1, KindAppend
<1>2. Booked(u, t, c) /\ Counted(u, "model_called", n) /\ Counted(u, "iteration_started", n + 1)
  BY <1>1, BookedAppend, CountedAppend DEF Ledger
<1>3. CallsInTime(u)
  BY <1>1, CallsAppend DEF Ledger
<1>4. Booked(w, t, c)
  BY <1>1, <1>2, BookedAppend
<1> HIDE DEF u
<1>5. Counted(w, "model_called", n + 1) /\ Counted(w, "iteration_started", n + 1)
  <2>1. f.type # "iteration_started" /\ n + 1 \in Nat
    OBVIOUS
  <2>2. Counted(w, "model_called", n + 1)
    BY <1>1, <1>2, CountedAppend
  <2>3. Counted(w, "iteration_started", n + 1)
    BY <1>1, <1>2, <2>1, CountedAppend
  <2> QED BY <2>2, <2>3
<1>6. CallsInTime(w)
  <2>1. f.iteration = n + 1 /\ f.iteration <= MaxIterations
    OBVIOUS
  <2> QED BY <1>1, <1>2, <1>3, <2>1, CallsAppend
<1>7. Kind(w, "run_finished") = Kind(u, "run_finished")
  <2>1. f.type # "run_finished"
    OBVIOUS
  <2> QED BY <1>1, <2>1, KindAppend
<1> USE DEF u
<1> QED BY <1>0, <1>1, <1>4, <1>5, <1>6, <1>7 DEF Ledger

\* run_finished with the figures of the ledger concludes a log that had none.
LEMMA Concludes ==
  ASSUME NEW s, NEW n \in Nat, NEW t \in Nat, NEW c \in Nat, Ledger(s, n, t, c),
         Kind(s, "run_finished") = {}
  PROVE  /\ Ledger(Append(s, Event("run_finished", n, c, 0)), n, t, c)
         /\ Concluded(Append(s, Event("run_finished", n, c, 0)))
<1> DEFINE e == Event("run_finished", n, c, 0)
           u == Append(s, e)
<1>1. /\ e \in EventType /\ e.type = "run_finished" /\ e.iteration = n /\ e.amount = c
  <2>1. e.type = "run_finished" /\ e.iteration = n /\ e.amount = c
    BY DEF Event
  <2> QED BY <2>1, EventTyped DEF EventNames
<1> HIDE DEF e
<1>2. Ledger(u, n, t, c)
  BY <1>1, PlainEvent
<1>3. s \in Seq(EventType) /\ Len(u) = Len(s) + 1 /\ u[Len(s) + 1] = e /\ Len(s) \in Nat
  BY <1>1, AppendProperties, LenProperties DEF Ledger
<1>4. Kind(u, "run_finished") = {Len(s) + 1}
  <2>1. Kind(u, "run_finished") = Kind(s, "run_finished") \cup {Len(s) + 1}
    BY <1>1, <1>3, KindAppend
  <2> QED BY <2>1
<1>5. Cardinality(Kind(u, "iteration_started")) = n
  BY <1>2 DEF Ledger, Counted
<1>6. Sums(Paid(u))[(Len(s) + 1) - 1] = c
  <2>1. Booked(s, t, c) /\ Len(s) \in 0..Len(s) /\ (Len(s) + 1) - 1 = Len(s)
    BY <1>3 DEF Ledger
  <2>2. Sums(Paid(u))[Len(s)] = Sums(Paid(s))[Len(s)]
    BY <1>1, <1>3, <2>1, BookedAppend
  <2> QED BY <2>1, <2>2 DEF Booked
<1>7. Concluded(u)
  <2> HIDE DEF u
  <2> QED BY <1>1, <1>3, <1>4, <1>5, <1>6 DEF Concluded
<1> QED BY <1>2, <1>7 DEF e

LEMMA LedgerInit == Init => LedgerInv
<1> SUFFICES ASSUME Init PROVE LedgerInv
  OBVIOUS
<1>1. log = <<>> /\ iterations = 0 /\ tokens = 0 /\ cost = 0 /\ pc = "start"
  BY DEF Init
<1>2. /\ log \in Seq(EventType) /\ Len(log) = 0
      /\ \A type : Kind(log, type) = {}
  BY <1>1 DEF Kind
<1>3. Sums(Used(log))[0] = 0 /\ Sums(Paid(log))[0] = 0
  <2>1. Used(log) \in Seq(Nat) /\ Paid(log) \in Seq(Nat)
    BY <1>2, FiguresTyped
  <2> QED BY <2>1, SumsDefined DEF SumsUpTo
<1>4. IsFiniteSet({}) /\ Cardinality({}) = 0
  BY FS_EmptySet
<1>5. CallsInTime(log)
  BY <1>2 DEF CallsInTime
<1>6. Ledger(log, 0, 0, 0)
  BY <1>2, <1>3, <1>4, <1>5 DEF Ledger, Booked, Counted
<1> QED BY <1>1, <1>2, <1>6 DEF LedgerInv

\* LedgerInv of the next state, from what its log says.
LEMMA LedgerOf ==
  ASSUME Ledger(log', iterations', tokens', cost'),
         pc' = "done" => Concluded(log'),
         pc' # "done" => Kind(log', "run_finished") = {}
  PROVE  LedgerInv'
<1>1. Ledger(log, iterations, tokens, cost)'
  BY DEF Ledger, Booked, Counted, CallsInTime, Kind, Sums, Used, Paid, Below
<1>2. (pc = "done" => Concluded(log))'
  BY DEF Concluded, Kind, Sums, Paid
<1>3. (pc # "done" => Kind(log, "run_finished") = {})'
  BY DEF Kind
<1> QED BY <1>1, <1>2, <1>3 DEF LedgerInv

Figures == iterations' = iterations /\ tokens' = tokens /\ cost' = cost

\* A step that logs one or two events which are neither calls nor answers nor the last.
LEMMA LedgerKept ==
  ASSUME LedgerInv, Inv, pc # "done", pc' # "done",
         NEW e \in EventType, NEW f \in EventType,
         e.type \in {"run_started", "tool_called", "tool_returned"},
         f.type \in {"run_started", "tool_called", "tool_returned"},
         log' \in {Append(log, e), Append(Append(log, e), f)},
         Figures
  PROVE  LedgerInv'
<1> DEFINE u == Append(log, e)
           w == Append(u, f)
<1>1. iterations \in Nat /\ tokens \in Nat /\ cost \in Nat
  BY Types DEF Inv
<1>2. Ledger(log, iterations, tokens, cost) /\ Kind(log, "run_finished") = {}
  BY DEF LedgerInv
<1>3. Ledger(u, iterations, tokens, cost) /\ Kind(u, "run_finished") = {}
  BY <1>1, <1>2, PlainEvent
<1> HIDE DEF u
<1>4. Ledger(w, iterations, tokens, cost) /\ Kind(w, "run_finished") = {}
  BY <1>1, <1>3, PlainEvent
<1>5. log' \in {u, w}
  BY DEF u
<1> HIDE DEF w
<1> QED BY <1>3, <1>4, <1>5, LedgerOf DEF Figures

\* A step that logs run_finished with the figures of the ledger, after the events of s.
LEMMA LedgerClosed ==
  ASSUME NEW s, iterations' \in Nat, tokens' \in Nat, cost' \in Nat, pc' = "done",
         Ledger(s, iterations', tokens', cost'), Kind(s, "run_finished") = {},
         log' = Append(s, Event("run_finished", iterations', cost', 0))
  PROVE  LedgerInv'
<1> DEFINE n == iterations'
           t == tokens'
           c == cost'
<1>1. n \in Nat /\ t \in Nat /\ c \in Nat /\ Ledger(s, n, t, c)
  OBVIOUS
<1>2. log' = Append(s, Event("run_finished", n, c, 0))
  OBVIOUS
<1> HIDE DEF n, t, c
<1>3. Ledger(log', n, t, c) /\ Concluded(log')
  BY <1>1, <1>2, Concludes
<1> QED BY <1>3, LedgerOf DEF n, t, c

LEMMA ReturnedKind ==
  ASSUME NEW ok \in BOOLEAN, Inv
  PROVE  /\ Returned(ok) \in EventType /\ Returned(ok).type = "tool_returned"
         /\ ToolCalled \in EventType /\ ToolCalled.type = "tool_called"
         /\ Returned(ok).iteration = iterations
         /\ Returned(ok).amount = (IF ok THEN 1 ELSE 0)
<1>1. Returned(ok) \in EventType /\ ToolCalled \in EventType
  BY ReturnedTyped, Types DEF Inv
<1>2. ToolCalled.type = "tool_called"
  BY DEF ToolCalled, Event
<1>3. /\ Returned(ok).type = "tool_returned" /\ Returned(ok).iteration = iterations
      /\ Returned(ok).amount = (IF ok THEN 1 ELSE 0)
  BY DEF Returned, Event
<1> QED BY <1>1, <1>2, <1>3

LEMMA LedgerModelAnswers ==
  ASSUME LedgerInv, Inv, NEW d \in Durations, NEW u \in Usages,
         NEW c \in ReportedCosts \cup {NoReport}, NEW n \in 0..MaxCalls,
         ModelAnswers(u, c, n, d)
  PROVE  LedgerInv'
<1> DEFINE e == Event("model_responded", iterations, Charge(u, c), TotalTokens(u))
           s == Append(log, e)
<1>1. /\ Charge(u, c) \in Nat /\ TotalTokens(u) \in Nat
      /\ iterations \in Nat /\ tokens \in Nat /\ cost \in Nat /\ log \in Seq(EventType)
  BY ChargeTyped, Types DEF Inv
<1>2. e \in EventType /\ ToolCalled \in EventType
  BY <1>1, EventTyped DEF EventNames, ToolCalled
<1>3. /\ e.type = "model_responded" /\ e.used = TotalTokens(u) /\ e.amount = Charge(u, c)
      /\ ToolCalled.type = "tool_called"
  BY DEF Event, ToolCalled
<1>4. /\ iterations' = iterations /\ tokens' = tokens + TotalTokens(u)
      /\ cost' = cost + Charge(u, c) /\ pc = "model"
  BY DEF ModelAnswers
<1>5. tokens' \in Nat /\ cost' \in Nat /\ iterations' \in Nat
  <2>1. \A a, b \in Nat : a + b \in Nat
    OBVIOUS
  <2> QED BY <1>1, <1>4, <2>1
<1>6. \/ n = 0 /\ pc' = "done"
         /\ log' = Append(log \o <<e>>, Event("run_finished", iterations', cost', 0))
      \/ pc' = "tool" /\ log' = log \o <<e, ToolCalled>>
  BY DEF ModelAnswers, Finish
<1> HIDE DEF e
<1>7. log \o <<e>> = s /\ log \o <<e, ToolCalled>> = Append(s, ToolCalled)
  BY <1>1, <1>2, TwoEvents
<1>8. Ledger(log, iterations, tokens, cost) /\ Kind(log, "run_finished") = {}
  BY <1>4 DEF LedgerInv
<1>9. Ledger(s, iterations', tokens', cost') /\ Kind(s, "run_finished") = {}
  <2>1. /\ Ledger(s, iterations, tokens + e.used, cost + e.amount)
        /\ Kind(s, "run_finished") = {}
    BY <1>1, <1>2, <1>3, <1>8, AnswerBooked
  <2> QED BY <1>3, <1>4, <2>1
<1> HIDE DEF s
<1>10. CASE pc' = "done"
  <2>1. log' = Append(s, Event("run_finished", iterations', cost', 0))
    BY <1>6, <1>7, <1>10
  <2> QED BY <1>5, <1>9, <1>10, <2>1, LedgerClosed
<1>11. CASE pc' = "tool"
  <2>1. log' = Append(s, ToolCalled)
    BY <1>6, <1>7, <1>11
  <2> DEFINE i == iterations'
             t == tokens'
             x == cost'
  <2>2. i \in Nat /\ t \in Nat /\ x \in Nat /\ Ledger(s, i, t, x)
    BY <1>5, <1>9
  <2> HIDE DEF i, t, x
  <2>3. Ledger(log', i, t, x) /\ Kind(log', "run_finished") = {}
    BY <1>2, <1>3, <1>9, <2>1, <2>2, PlainEvent
  <2> QED BY <1>11, <2>3, LedgerOf DEF i, t, x
<1> QED BY <1>6, <1>10, <1>11

LEMMA LedgerBegins ==
  ASSUME LedgerInv, Inv, BeginIteration
  PROVE  LedgerInv'
<1> DEFINE n == iterations + 1
           e == Event("iteration_started", n, 0, 0)
           f == Event("model_called", n, 0, Len(messages))
<1>1. /\ iterations \in Nat /\ tokens \in Nat /\ cost \in Nat /\ log \in Seq(EventType)
      /\ Len(messages) \in Nat /\ n \in Nat
  <2>1. /\ iterations \in Nat /\ tokens \in Nat /\ cost \in Nat /\ log \in Seq(EventType)
        /\ messages \in Seq(MessageType)
    BY Types DEF Inv
  <2> QED BY <2>1, LenProperties
<1>2. /\ iterations' = n /\ tokens' = tokens /\ cost' = cost /\ pc = "ready" /\ pc' = "model"
      /\ log' = log \o <<e, f>>
  BY DEF BeginIteration
<1>3. n <= MaxIterations /\ Below(tokens, MaxTokens) /\ Below(cost, MaxCost)
  <2>1. /\ ~(iterations >= MaxIterations)
        /\ ~Reached(tokens, MaxTokens) /\ ~Reached(cost, MaxCost)
    BY DEF BeginIteration, Exceeded
  <2>2. n <= MaxIterations
    BY <1>1, <2>1, AgentLoopAssumption
  <2> QED BY <1>1, <2>1, <2>2, AgentLoopAssumption DEF Reached, Below, Limits
<1>4. /\ e \in EventType /\ e.type = "iteration_started"
      /\ f \in EventType /\ f.type = "model_called" /\ f.iteration = n
  <2>1. e.type = "iteration_started" /\ f.type = "model_called" /\ f.iteration = n
    BY DEF Event
  <2>2. e \in EventType
    BY <1>1, EventTyped DEF EventNames
  <2>3. f \in EventType
    BY <1>1, EventTyped DEF EventNames
  <2> QED BY <2>1, <2>2, <2>3
<1> HIDE DEF e, f
<1>5. Ledger(log, iterations, tokens, cost) /\ Kind(log, "run_finished") = {}
  BY <1>2 DEF LedgerInv
<1>6. log' = Append(Append(log, e), f)
  BY <1>1, <1>2, <1>4, TwoEvents
<1>7. Ledger(log', n, tokens, cost) /\ Kind(log', "run_finished") = {}
  <2> DEFINE t == tokens
             c == cost
             i == iterations
  <2>1. i \in Nat /\ t \in Nat /\ c \in Nat /\ Ledger(log, i, t, c)
    BY <1>1, <1>5
  <2>2. i + 1 <= MaxIterations /\ Below(t, MaxTokens) /\ Below(c, MaxCost) /\ f.iteration = i + 1
    BY <1>3, <1>4
  <2> HIDE DEF i, t, c
  <2>3. /\ Ledger(Append(Append(log, e), f), i + 1, t, c)
        /\ Kind(Append(Append(log, e), f), "run_finished") = Kind(log, "run_finished")
    BY <1>4, <2>1, <2>2, CallBooked
  <2> QED BY <1>5, <1>6, <2>3 DEF i, t, c
<1> HIDE DEF n
<1>8. Ledger(log', iterations', tokens', cost') /\ pc' # "done"
  BY <1>2, <1>7
<1> QED BY <1>7, <1>8, LedgerOf

LEMMA LedgerToolReturns ==
  ASSUME LedgerInv, Inv, NEW d \in Durations, NEW ok \in BOOLEAN, ToolReturns(ok, d)
  PROVE  LedgerInv'
<1>1. /\ pc = "tool" /\ pc' = "tool" /\ Figures
      /\ log' = log \o <<Returned(ok), ToolCalled>>
  BY DEF ToolReturns, budget, Figures
<1>2. /\ Returned(ok) \in EventType /\ Returned(ok).type = "tool_returned"
      /\ ToolCalled \in EventType /\ ToolCalled.type = "tool_called"
  BY ReturnedKind
<1>3. log' = Append(Append(log, Returned(ok)), ToolCalled)
  BY <1>1, <1>2, TwoEvents, Types DEF Inv
<1> QED BY <1>1, <1>2, <1>3, LedgerKept

LEMMA LedgerLastToolReturns ==
  ASSUME LedgerInv, Inv, NEW d \in Durations, NEW ok \in BOOLEAN, LastToolReturns(ok, d)
  PROVE  LedgerInv'
<1> DEFINE s == Append(log, Returned(ok))
<1>1. pc = "tool" /\ Figures
  BY DEF LastToolReturns, budget, Figures
<1>2. \/ pc' = "ready" /\ log' = s
      \/ pc' = "done"
         /\ log' = Append(log \o <<Returned(ok)>>, Event("run_finished", iterations', cost', 0))
  BY DEF LastToolReturns, Finish
<1>3. Returned(ok) \in EventType /\ Returned(ok).type = "tool_returned"
  BY ReturnedKind
<1>4. /\ iterations \in Nat /\ tokens \in Nat /\ cost \in Nat /\ log \in Seq(EventType)
  BY Types DEF Inv
<1>5. log \o <<Returned(ok)>> = s
  BY <1>3, <1>4, TwoEvents
<1>6. CASE pc' = "ready"
  <2>1. log' = s
    BY <1>2, <1>6
  <2> QED BY <1>1, <1>3, <1>6, <2>1, LedgerKept
<1>7. CASE pc' = "done"
  <2>1. log' = Append(s, Event("run_finished", iterations', cost', 0))
    BY <1>2, <1>5, <1>7
  <2>2. Ledger(log, iterations, tokens, cost) /\ Kind(log, "run_finished") = {}
    BY <1>1 DEF LedgerInv
  <2>3. Ledger(s, iterations, tokens, cost) /\ Kind(s, "run_finished") = {}
    BY <1>3, <1>4, <2>2, PlainEvent
  <2> HIDE DEF s
  <2>4. /\ iterations' \in Nat /\ tokens' \in Nat /\ cost' \in Nat
        /\ Ledger(s, iterations', tokens', cost')
    BY <1>1, <1>4, <2>3 DEF Figures
  <2> QED BY <1>7, <2>1, <2>3, <2>4, LedgerClosed
<1> QED BY <1>2, <1>6, <1>7

\* The provider fails, or the budget is spent: run_finished is all that is logged.
LEMMA LedgerStops ==
  ASSUME LedgerInv, Inv, StopOnBudget \/ \E d \in Durations : ProviderFails(d)
  PROVE  LedgerInv'
<1>1. /\ pc # "done" /\ pc' = "done" /\ Figures
      /\ log' = Append(log \o <<>>, Event("run_finished", iterations', cost', 0))
  BY DEF StopOnBudget, ProviderFails, Finish, Figures, budget
<1>2. iterations \in Nat /\ tokens \in Nat /\ cost \in Nat /\ log \in Seq(EventType)
  BY Types DEF Inv
<1>3. log' = Append(log, Event("run_finished", iterations', cost', 0))
  <2>1. log \o <<>> = log
    BY <1>2
  <2> QED BY <1>1, <2>1
<1>4. Ledger(log, iterations, tokens, cost) /\ Kind(log, "run_finished") = {}
  BY <1>1 DEF LedgerInv
<1>5. /\ iterations' \in Nat /\ tokens' \in Nat /\ cost' \in Nat
      /\ Ledger(log, iterations', tokens', cost')
  BY <1>1, <1>2, <1>4 DEF Figures
<1> QED BY <1>1, <1>3, <1>4, <1>5, LedgerClosed

LEMMA LedgerStep ==
  ASSUME LedgerInv, Inv, [Next]_vars
  PROVE  LedgerInv'
<1>1. CASE Start
  <2> DEFINE e == Event("run_started", 0, 0, 0)
  <2>1. e \in EventType
    BY EventTyped DEF EventNames
  <2>2. e.type = "run_started"
    BY DEF Event
  <2>3. pc # "done" /\ pc' # "done" /\ Figures /\ log' = Append(log, e)
    BY <1>1 DEF Start, Figures, budget
  <2> HIDE DEF e
  <2> QED BY <2>1, <2>2, <2>3, LedgerKept
<1>2. CASE Raise \/ UNCHANGED vars
  <2>1. Figures /\ log' = log /\ (pc' = "done" <=> pc = "done")
    BY <1>2 DEF Raise, vars, budget, Figures
  <2> QED BY <2>1, LedgerOf DEF LedgerInv, Figures
<1> QED BY <1>1, <1>2, LedgerModelAnswers, LedgerBegins, LedgerToolReturns,
        LedgerLastToolReturns, LedgerStops DEF Next, Step

\* Whatever the limits and the answers are, the log shows each call of the model as a counted
\* iteration within max_iterations, and what it shows as used and paid before the call is
\* below max_tokens and max_cost_usd (budget.py:113-138, agent.py:84-99).
THEOREM CallsStayInTheBudget == Spec => []NoCallBeyondLimits
<1>1. LedgerInv => NoCallBeyondLimits
  BY DEF LedgerInv, Ledger, CallsInTime, NoCallBeyondLimits, Kind, Indices, UsedBefore, CostBefore
<1>2. LedgerInv /\ Inv /\ [Next]_vars => LedgerInv'
  BY LedgerStep
<1> QED BY InvInit, InvStep, LedgerInit, <1>1, <1>2, PTL DEF Spec

\* A run has returned exactly when its log has a run_finished; that is its last event, and
\* its figures are the sum of what the other events show (agent.py:154-170).
THEOREM RunFinishedIsLast == Spec => []FinishedIsLast
<1>1. LedgerInv => FinishedIsLast
  BY DEF LedgerInv, Concluded, FinishedIsLast, Kind, Indices, CostBefore
<1>2. LedgerInv /\ Inv /\ [Next]_vars => LedgerInv'
  BY LedgerStep
<1> QED BY InvInit, InvStep, LedgerInit, <1>1, <1>2, PTL DEF Spec

-----------------------------------------------------------------------------
(* The conversation: s is a list of messages, open the answer whose calls are being made  *)
(* and got the number of them that have returned; 0 is the open answer of none.           *)

Replied(s, i, k) == \A j \in 1..k : i + j <= Len(s) /\ s[i + j] = Message("tool", j)

\* Message i is answered by k results if it is an answer, and is one of them if it is a result.
Fits(s, i, k) ==
  /\ s[i].role = "assistant" => Replied(s, i, k)
  /\ s[i].role = "tool" => s[i].n \in 1..i - 1 /\ s[i - s[i].n].role = "assistant"

Talk(s, open, got) ==
  /\ s \in Seq(MessageType)
  /\ \A i \in 1..Len(s) : Fits(s, i, IF i = open THEN got ELSE s[i].n)

TalkInv ==
  /\ pc \in {"start", "ready", "model"} => Talk(messages, 0, 0)
  /\ pc = "tool" =>
       /\ Len(messages) - answered \in 1..Len(messages)
       /\ messages[Len(messages) - answered] = Message("assistant", calls)
       /\ Talk(messages, Len(messages) - answered, answered)

LEMMA MessageIs ==
  ASSUME NEW s \in Seq(MessageType), NEW r \in {"assistant", "tool"}, NEW n \in Nat
  PROVE  /\ Append(s, Message(r, n)) \in Seq(MessageType)
         /\ Len(Append(s, Message(r, n))) = Len(s) + 1
         /\ \A i \in 1..Len(s) : Append(s, Message(r, n))[i] = s[i]
         /\ Append(s, Message(r, n))[Len(s) + 1] = Message(r, n)
         /\ Message(r, n).role = r /\ Message(r, n).n = n
         /\ 1..Len(s) + 1 = (1..Len(s)) \cup {Len(s) + 1}
<1>1. Message(r, n) \in MessageType /\ Message(r, n).role = r /\ Message(r, n).n = n
  BY DEF Message, MessageType
<1>2. /\ Append(s, Message(r, n)) \in Seq(MessageType)
      /\ Len(Append(s, Message(r, n))) = Len(s) + 1
      /\ \A i \in 1..Len(s) : Append(s, Message(r, n))[i] = s[i]
      /\ Append(s, Message(r, n))[Len(s) + 1] = Message(r, n)
  BY <1>1, AppendProperties
<1>3. 1..Len(s) + 1 = (1..Len(s)) \cup {Len(s) + 1}
  BY LenProperties
<1> QED BY <1>1, <1>2, <1>3

\* What holds of a message still does when another follows.
LEMMA FitsKept ==
  ASSUME NEW s \in Seq(MessageType), NEW t, Len(t) = Len(s) + 1,
         \A i \in 1..Len(s) : t[i] = s[i],
         NEW i \in 1..Len(s), NEW n, Fits(s, i, n)
  PROVE  Fits(t, i, n)
<1>1. t[i] = s[i] /\ Len(s) \in Nat
  BY LenProperties
<1>2. ASSUME Replied(s, i, n) PROVE Replied(t, i, n)
  <2> SUFFICES ASSUME NEW j \in 1..n PROVE i + j <= Len(t) /\ t[i + j] = Message("tool", j)
    BY DEF Replied
  <2>1. i + j <= Len(s) /\ s[i + j] = Message("tool", j)
    BY <1>2 DEF Replied
  <2>2. j \in Int /\ j >= 1
    OBVIOUS
  <2>3. i + j \in 1..Len(s) /\ i + j <= Len(t)
    BY <1>1, <2>1, <2>2
  <2> QED BY <2>1, <2>3
<1>3. ASSUME s[i].role = "tool"
      PROVE  t[i].n \in 1..i - 1 /\ t[i - t[i].n].role = "assistant"
  <2>1. s[i].n \in 1..i - 1 /\ s[i - s[i].n].role = "assistant"
    BY <1>3 DEF Fits
  <2>2. i - s[i].n \in 1..Len(s)
    BY <1>1, <2>1
  <2> QED BY <1>1, <2>1, <2>2
<1>4. s[i].role = "assistant" => Replied(s, i, n)
  BY DEF Fits
<1> QED BY <1>1, <1>2, <1>3, <1>4 DEF Fits

\* The next call of the open answer returns.
LEMMA TalkTool ==
  ASSUME NEW s, NEW o, NEW k \in Nat, Talk(s, o, k), o \in 1..Len(s), o = Len(s) - k,
         s[o].role = "assistant"
  PROVE  Talk(Append(s, Message("tool", k + 1)), o, k + 1)
<1> DEFINE t == Append(s, Message("tool", k + 1))
<1>1. s \in Seq(MessageType) /\ Len(s) \in Nat /\ k + 1 \in Nat
  BY LenProperties DEF Talk
<1>2. /\ t \in Seq(MessageType) /\ Len(t) = Len(s) + 1
      /\ \A i \in 1..Len(s) : t[i] = s[i]
      /\ t[Len(s) + 1] = Message("tool", k + 1)
      /\ Message("tool", k + 1).role = "tool" /\ Message("tool", k + 1).n = k + 1
      /\ 1..Len(t) = (1..Len(s)) \cup {Len(s) + 1}
  BY <1>1, MessageIs
<1> HIDE DEF t
<1>3. ASSUME NEW i \in 1..Len(s)
      PROVE  Fits(t, i, IF i = o THEN k + 1 ELSE t[i].n)
  <2>1. Fits(s, i, IF i = o THEN k ELSE s[i].n) /\ t[i] = s[i]
    BY <1>2 DEF Talk
  <2>0. Fits(t, i, IF i = o THEN k ELSE s[i].n)
    BY <1>1, <1>2, <2>1, FitsKept
  <2>2. ASSUME i = o, Replied(t, i, k) PROVE Replied(t, i, k + 1)
    <3>1. i + (k + 1) = Len(s) + 1 /\ 1..k + 1 = (1..k) \cup {k + 1}
      BY <1>1, <2>2
    <3>2. i + (k + 1) <= Len(t) /\ t[i + (k + 1)] = Message("tool", k + 1)
      BY <1>1, <1>2, <3>1
    <3> QED BY <2>2, <3>1, <3>2 DEF Replied
  <2>3. CASE i = o
    BY <2>0, <2>2, <2>3 DEF Fits
  <2>4. CASE i # o
    BY <2>0, <2>1, <2>4
  <2> QED BY <2>3, <2>4
<1>4. /\ t[Len(s) + 1].role = "tool" /\ t[Len(s) + 1].n = k + 1
      /\ k + 1 \in 1..(Len(s) + 1) - 1
      /\ (Len(s) + 1) - (k + 1) = o /\ t[o].role = "assistant"
  BY <1>1, <1>2
<1>5. ASSUME NEW i \in 1..Len(t)
      PROVE  Fits(t, i, IF i = o THEN k + 1 ELSE t[i].n)
  <2>1. CASE i = Len(s) + 1
    BY <1>4, <2>1 DEF Fits
  <2>2. CASE i # Len(s) + 1
    <3>1. i \in 1..Len(s)
      BY <1>2, <2>2
    <3> QED BY <1>3, <3>1
  <2> QED BY <2>1, <2>2
<1>6. Talk(t, o, k + 1)
  BY <1>2, <1>5 DEF Talk
<1> QED BY <1>6 DEF t

\* The last call of the open answer has returned.
LEMMA TalkCloses ==
  ASSUME NEW s, NEW o, NEW k \in Nat, Talk(s, o, k), s[o].n = k
  PROVE  Talk(s, 0, 0)
<1>1. ASSUME NEW i \in 1..Len(s)
      PROVE  (IF i = o THEN k ELSE s[i].n) = (IF i = 0 THEN 0 ELSE s[i].n)
  <2>1. i # 0
    BY LenProperties
  <2> QED BY <2>1
<1> QED BY <1>1 DEF Talk

\* A new answer, no call of which has returned.
LEMMA TalkAnswer ==
  ASSUME NEW s, Talk(s, 0, 0), NEW n \in Nat
  PROVE  Talk(Append(s, Message("assistant", n)), Len(s) + 1, 0)
<1> DEFINE t == Append(s, Message("assistant", n))
<1>1. s \in Seq(MessageType) /\ Len(s) \in Nat
  BY LenProperties DEF Talk
<1>2. /\ t \in Seq(MessageType) /\ Len(t) = Len(s) + 1
      /\ \A i \in 1..Len(s) : t[i] = s[i]
      /\ t[Len(s) + 1] = Message("assistant", n)
      /\ Message("assistant", n).role = "assistant"
      /\ 1..Len(t) = (1..Len(s)) \cup {Len(s) + 1}
  BY <1>1, MessageIs
<1> HIDE DEF t
<1>3. ASSUME NEW i \in 1..Len(t)
      PROVE  Fits(t, i, IF i = Len(s) + 1 THEN 0 ELSE t[i].n)
  <2>1. CASE i = Len(s) + 1
    <3>1. Replied(t, i, 0)
      BY DEF Replied
    <3> QED BY <1>2, <2>1, <3>1 DEF Fits
  <2>2. CASE i # Len(s) + 1
    <3>1. i \in 1..Len(s) /\ i # 0
      BY <1>1, <1>2, <2>2
    <3>2. Fits(s, i, s[i].n) /\ t[i] = s[i]
      BY <1>2, <3>1 DEF Talk
    <3>3. Fits(t, i, s[i].n)
      BY <1>1, <1>2, <3>1, <3>2, FitsKept
    <3> QED BY <2>2, <3>2, <3>3
  <2> QED BY <2>1, <2>2
<1>4. Talk(t, Len(s) + 1, 0)
  BY <1>2, <1>3 DEF Talk
<1> QED BY <1>4 DEF t

LEMMA TalkInit == Init => TalkInv
<1> SUFFICES ASSUME Init PROVE TalkInv
  OBVIOUS
<1>1. pc = "start" /\ messages = <<Message("system", 0), Message("user", 0)>>
  BY DEF Init
<1>2. messages \in Seq(MessageType)
  BY <1>1, InvInit, Types DEF Inv
<1>3. \A i \in 1..Len(messages) : messages[i].role \notin {"assistant", "tool"}
  BY <1>1 DEF Message
<1> QED BY <1>1, <1>2, <1>3 DEF TalkInv, Talk, Fits

LEMMA TalkStep ==
  ASSUME TalkInv, Inv, [Next]_vars
  PROVE  TalkInv'
<1>1. /\ messages \in Seq(MessageType) /\ Len(messages) \in Nat
      /\ answered \in Nat /\ calls \in Nat
  <2>1. messages \in Seq(MessageType) /\ answered \in Nat /\ calls \in Nat
    BY Types DEF Inv
  <2> QED BY <2>1, LenProperties
<1>2. ASSUME NEW d \in Durations, NEW u \in Usages,
             NEW c \in ReportedCosts \cup {NoReport}, NEW n \in 0..MaxCalls,
             ModelAnswers(u, c, n, d)
      PROVE  TalkInv'
  <2>1. /\ pc = "model" /\ pc' \in {"done", "tool"} /\ calls' = n /\ answered' = 0
        /\ messages' = Append(messages, Message("assistant", n))
    BY <1>2 DEF ModelAnswers, Finish
  <2>2. n \in Nat
    BY AgentLoopAssumption
  <2>3. Talk(messages', Len(messages) + 1, 0)
    BY <2>1, <2>2, TalkAnswer DEF TalkInv
  <2>4. /\ Len(messages') = Len(messages) + 1
        /\ messages'[Len(messages) + 1] = Message("assistant", n)
    BY <1>1, <2>1, <2>2, MessageIs
  <2>5. /\ Len(messages') - answered' = Len(messages) + 1
        /\ Len(messages) + 1 \in 1..Len(messages')
    BY <1>1, <2>1, <2>4
  <2> QED BY <2>1, <2>3, <2>4, <2>5 DEF TalkInv, Talk, Fits, Replied
<1>3. ASSUME NEW d \in Durations, NEW ok \in BOOLEAN, ToolReturns(ok, d) \/ LastToolReturns(ok, d)
      PROVE  TalkInv'
  <2> DEFINE o == Len(messages) - answered
             t == Append(messages, Message("tool", answered + 1))
  <2>1. /\ pc = "tool" /\ answered' = answered + 1 /\ calls' = calls /\ messages' = t
        /\ \/ pc' = "tool"
           \/ pc' \in {"ready", "done"} /\ answered + 1 = calls
    BY <1>3 DEF ToolReturns, LastToolReturns, Finish
  <2>2. /\ o \in 1..Len(messages) /\ messages[o] = Message("assistant", calls)
        /\ Talk(messages, o, answered)
    BY <2>1 DEF TalkInv
  <2>3. messages[o].role = "assistant" /\ messages[o].n = calls
    BY <2>2 DEF Message
  <2>4. Talk(t, o, answered + 1)
    <3> o = Len(messages) - answered
      OBVIOUS
    <3> HIDE DEF o
    <3> QED BY <1>1, <2>2, <2>3, TalkTool
  <2>5. /\ Len(t) = Len(messages) + 1 /\ t[o] = messages[o]
        /\ Len(t) - (answered + 1) = o /\ o \in 1..Len(t)
    <3>1. Len(t) = Len(messages) + 1 /\ \A i \in 1..Len(messages) : t[i] = messages[i]
      BY <1>1, MessageIs
    <3>2. Len(t) - (answered + 1) = o /\ o \in 1..Len(t)
      BY <1>1, <2>2, <3>1
    <3> QED BY <2>2, <3>1, <3>2
  <2> HIDE DEF o, t
  <2>6. answered + 1 = calls => Talk(t, 0, 0)
    BY <1>1, <2>3, <2>4, <2>5, TalkCloses
  <2>7. Talk(messages', o, answered') /\ messages'[o] = Message("assistant", calls')
        /\ Len(messages') - answered' = o /\ o \in 1..Len(messages')
    BY <2>1, <2>2, <2>4, <2>5
  <2>8. (pc = "tool" => /\ Len(messages) - answered \in 1..Len(messages)
                        /\ messages[Len(messages) - answered] = Message("assistant", calls)
                        /\ Talk(messages, Len(messages) - answered, answered))'
    BY <2>7 DEF Talk, Fits, Replied
  <2>9. (pc \in {"start", "ready", "model"} => Talk(messages, 0, 0))'
    BY <2>1, <2>6 DEF Talk, Fits, Replied
  <2> QED BY <2>8, <2>9 DEF TalkInv
<1>4. ASSUME messages' = messages, pc \in {"start", "ready", "model"} \/ pc' \in {"done", "raised"},
             pc' # "tool"
      PROVE  TalkInv'
  BY <1>4 DEF TalkInv, Talk, Fits, Replied
<1>5. CASE Start \/ BeginIteration \/ StopOnBudget \/ Raise \/ \E d \in Durations : ProviderFails(d)
  <2>1. /\ messages' = messages /\ pc' # "tool"
        /\ pc \in {"start", "ready", "model"} \/ pc' \in {"done", "raised"}
    BY <1>5 DEF Start, BeginIteration, StopOnBudget, Raise, ProviderFails, Finish
  <2> QED BY <1>4, <2>1
<1>6. CASE UNCHANGED vars
  BY <1>6 DEF vars, TalkInv, Talk, Fits, Replied
<1> QED BY <1>2, <1>3, <1>5, <1>6 DEF Next, Step

\* However many calls an answer asks for, the model is never asked again before each of them
\* has its result, in order and directly behind the answer (agent.py:115, 134-152).
THEOREM EveryCallIsAnswered == Spec => []CallsAreAnswered
<1>1. TalkInv /\ Inv => CallsAreAnswered
  <2> SUFFICES ASSUME TalkInv, pc = "model", NEW i \in 1..Len(messages)
               PROVE  /\ messages[i].role = "assistant" =>
                           \A k \in 1..messages[i].n :
                             i + k <= Len(messages) /\ messages[i + k] = Message("tool", k)
                      /\ messages[i].role = "tool" =>
                           messages[i - messages[i].n].role = "assistant"
    BY DEF CallsAreAnswered
  <2>1. Talk(messages, 0, 0)
    BY DEF TalkInv
  <2>2. i # 0
    BY <2>1, LenProperties DEF Talk
  <2> QED BY <2>1, <2>2 DEF Talk, Fits, Replied
<1>2. TalkInv /\ Inv /\ [Next]_vars => TalkInv'
  BY TalkStep
<1> QED BY InvInit, InvStep, TalkInit, <1>1, <1>2, PTL DEF Spec

-----------------------------------------------------------------------------
(* The rip cord.  s is a log, r the number of finished iterations and f the number of     *)
(* them, counted from the last, whose tool calls all failed.                              *)

Round(s, k)  == {i \in 1..Len(s) : s[i].type = "tool_returned" /\ s[i].iteration = k}
Failed(s, k) == Round(s, k) # {} /\ \A i \in Round(s, k) : s[i].amount = 0
Pulled(s, k) == k >= MaxFailures /\ \A j \in k - MaxFailures + 1..k : Failed(s, j)

Streak(s, r, f) ==
  /\ r \in Nat /\ f \in Nat /\ f <= r
  /\ \A j \in r - f + 1..r : Failed(s, j)
  /\ f < r => ~Failed(s, r - f)

Unpulled(s, r) == \A k \in 1..r : ~Pulled(s, k)

CordInv ==
  /\ \A k : Round(log, k) # {} => k \in 1..iterations
  /\ pc \in {"start", "ready"} =>
       Streak(log, iterations, failures) /\ Unpulled(log, iterations) /\ reason = "none"
  /\ pc \in {"model", "tool"} =>
       /\ iterations >= 1 /\ reason = "none"
       /\ Streak(log, iterations - 1, failures) /\ Unpulled(log, iterations - 1)
       /\ pc = "model" => Round(log, iterations) = {}
       /\ pc = "tool" => (anyOk <=> \E i \in Round(log, iterations) : log[i].amount # 0)
  /\ pc = "start" => iterations = 0 /\ failures = 0
  /\ pc = "done" =>
       /\ reason = "tool_error_limit" <=> Pulled(log, iterations)
       /\ Unpulled(log, iterations - 1)

\* t is s with events that are no results behind it.
Quiet(s, t) ==
  /\ s \in Seq(EventType) /\ t \in Seq(EventType) /\ Len(s) <= Len(t)
  /\ \A i \in 1..Len(s) : t[i] = s[i]
  /\ \A i \in 1..Len(t) : i > Len(s) => t[i].type # "tool_returned"

LEMMA QuietSame == ASSUME NEW s \in Seq(EventType) PROVE Quiet(s, s)
<1>1. Len(s) \in Nat
  OBVIOUS
<1> QED BY <1>1 DEF Quiet

LEMMA QuietAppend ==
  ASSUME NEW s, NEW t, Quiet(s, t), NEW e \in EventType, e.type # "tool_returned"
  PROVE  Quiet(s, Append(t, e))
<1>1. s \in Seq(EventType) /\ t \in Seq(EventType) /\ Len(s) \in Nat /\ Len(t) \in Nat
  BY LenProperties DEF Quiet
<1>2. /\ Append(t, e) \in Seq(EventType) /\ Len(Append(t, e)) = Len(t) + 1
      /\ \A i \in 1..Len(t) : Append(t, e)[i] = t[i]
      /\ Append(t, e)[Len(t) + 1] = e
  BY <1>1, AppendProperties
<1>3. \A i \in 1..Len(t) + 1 : i \in 1..Len(t) \/ i = Len(t) + 1
  BY <1>1
<1>4. \A i \in 1..Len(s) : i \in 1..Len(t)
  BY <1>1 DEF Quiet
<1>5. Len(s) <= Len(t) + 1
  BY <1>1 DEF Quiet
<1> QED BY <1>1, <1>2, <1>3, <1>4, <1>5 DEF Quiet

LEMMA QuietRounds ==
  ASSUME NEW s, NEW t, Quiet(s, t)
  PROVE  /\ \A k : Round(t, k) = Round(s, k) /\ (Failed(t, k) <=> Failed(s, k))
         /\ \A k : \A i \in Round(s, k) : t[i] = s[i]
<1>1. Len(s) \in Nat /\ Len(t) \in Nat /\ Len(s) <= Len(t)
  BY LenProperties DEF Quiet
<1>2. \A i \in 1..Len(t) : i \in 1..Len(s) \/ i > Len(s)
  BY <1>1
<1>3. \A i \in 1..Len(s) : i \in 1..Len(t)
  BY <1>1
<1>4. \A k : Round(t, k) = Round(s, k)
  BY <1>2, <1>3 DEF Round, Quiet
<1>5. \A k : \A i \in Round(s, k) : t[i] = s[i]
  BY DEF Round, Quiet
<1> QED BY <1>4, <1>5 DEF Failed

\* A result counts for its iteration only.
LEMMA ResultRounds ==
  ASSUME NEW s \in Seq(EventType), NEW e \in EventType, e.type = "tool_returned"
  PROVE  /\ Append(s, e) \in Seq(EventType)
         /\ \A k : k # e.iteration => /\ Round(Append(s, e), k) = Round(s, k)
                                      /\ Failed(Append(s, e), k) <=> Failed(s, k)
         /\ Round(Append(s, e), e.iteration) = Round(s, e.iteration) \cup {Len(s) + 1}
         /\ \A i \in Round(s, e.iteration) : Append(s, e)[i] = s[i]
         /\ Append(s, e)[Len(s) + 1] = e
<1> DEFINE t == Append(s, e)
<1>1. /\ t \in Seq(EventType) /\ Len(t) = Len(s) + 1 /\ Len(s) \in Nat
      /\ \A i \in 1..Len(s) : t[i] = s[i]
      /\ t[Len(s) + 1] = e
  BY AppendProperties, LenProperties
<1> HIDE DEF t
<1>2. 1..Len(t) = (1..Len(s)) \cup {Len(s) + 1}
  BY <1>1
<1>3. \A k : \A i \in Round(s, k) : t[i] = s[i]
  BY <1>1 DEF Round
<1>4. \A k : k # e.iteration => Round(t, k) = Round(s, k)
  BY <1>1, <1>2 DEF Round
<1>5. Round(t, e.iteration) = Round(s, e.iteration) \cup {Len(s) + 1}
  BY <1>1, <1>2 DEF Round
<1>6. \A k : k # e.iteration => (Failed(t, k) <=> Failed(s, k))
  BY <1>3, <1>4 DEF Failed
<1> QED BY <1>1, <1>3, <1>4, <1>5, <1>6 DEF t

\* The streak and the rip cord look at the finished iterations only.
LEMMA StreakKept ==
  ASSUME NEW s, NEW t, NEW r \in Nat, NEW f, Streak(s, r, f), Unpulled(s, r),
         \A k \in 1..r : Failed(t, k) <=> Failed(s, k)
  PROVE  Streak(t, r, f) /\ Unpulled(t, r)
<1>1. f \in Nat /\ f <= r
  BY DEF Streak
<1>2. \A j \in r - f + 1..r : j \in 1..r
  BY <1>1
<1>3. f < r => r - f \in 1..r
  BY <1>1
<1>4. Streak(t, r, f)
  BY <1>1, <1>2, <1>3 DEF Streak
<1>5. ASSUME NEW k \in 1..r, Pulled(t, k) PROVE FALSE
  <2>1. k >= MaxFailures /\ MaxFailures \in Nat
    BY <1>5, AgentLoopAssumption DEF Pulled
  <2>2. \A j \in k - MaxFailures + 1..k : j \in 1..r
    BY <2>1
  <2>3. Pulled(s, k)
    BY <1>5, <2>1, <2>2 DEF Pulled
  <2> QED BY <2>3 DEF Unpulled
<1> QED BY <1>4, <1>5 DEF Unpulled

\* A short streak does not pull the cord, a streak of MaxFailures does.
LEMMA StreakPulls ==
  ASSUME NEW s, NEW r, NEW f, Streak(s, r, f)
  PROVE  /\ f < MaxFailures => ~Pulled(s, r)
         /\ f = MaxFailures => Pulled(s, r)
<1>1. r \in Nat /\ f \in Nat /\ f <= r /\ MaxFailures \in Nat \ {0}
  BY AgentLoopAssumption DEF Streak
<1>2. ASSUME f < MaxFailures, Pulled(s, r) PROVE FALSE
  <2>1. r >= MaxFailures
    BY <1>2 DEF Pulled
  <2>2. f < r /\ r - f \in r - MaxFailures + 1..r
    BY <1>1, <1>2, <2>1
  <2>3. ~Failed(s, r - f)
    BY <2>2 DEF Streak
  <2>4. Failed(s, r - f)
    BY <1>2, <2>2 DEF Pulled
  <2> QED BY <2>3, <2>4
<1>3. ASSUME f = MaxFailures PROVE Pulled(s, r)
  BY <1>1, <1>3 DEF Streak, Pulled
<1> QED BY <1>2, <1>3

LEMMA StreakGrows ==
  ASSUME NEW s, NEW r, NEW f, Streak(s, r, f)
  PROVE  /\ Failed(s, r + 1) => Streak(s, r + 1, f + 1)
         /\ ~Failed(s, r + 1) => Streak(s, r + 1, 0)
<1>1. r \in Nat /\ f \in Nat /\ f <= r
  BY DEF Streak
<1>2. ASSUME Failed(s, r + 1) PROVE Streak(s, r + 1, f + 1)
  <2>1. /\ r + 1 \in Nat /\ f + 1 \in Nat /\ f + 1 <= r + 1
        /\ (r + 1) - (f + 1) = r - f /\ (f + 1 < r + 1 => f < r)
        /\ \A j \in (r - f) + 1..r + 1 : j \in r - f + 1..r \/ j = r + 1
    BY <1>1
  <2>2. f < r => ~Failed(s, r - f)
    BY DEF Streak
  <2>3. \A j \in r - f + 1..r : Failed(s, j)
    BY DEF Streak
  <2> QED BY <1>2, <2>1, <2>2, <2>3 DEF Streak
<1>3. ASSUME ~Failed(s, r + 1) PROVE Streak(s, r + 1, 0)
  <2>1. /\ r + 1 \in Nat /\ 0 <= r + 1 /\ (r + 1) - 0 = r + 1
        /\ \A j \in (r + 1) - 0 + 1..r + 1 : FALSE
    BY <1>1
  <2> QED BY <1>3, <2>1 DEF Streak
<1> QED BY <1>2, <1>3

\* The cord is not pulled in an iteration without a result.
LEMMA NotPulled ==
  ASSUME NEW s, NEW k \in Nat, Round(s, k) = {}
  PROVE  ~Pulled(s, k)
<1>1. k \in k - MaxFailures + 1..k
  BY AgentLoopAssumption
<1> QED BY <1>1 DEF Pulled, Failed

LEMMA UnpulledGrows ==
  ASSUME NEW s, NEW r \in Nat, Unpulled(s, r), ~Pulled(s, r + 1)
  PROVE  Unpulled(s, r + 1)
<1>1. \A k \in 1..r + 1 : k \in 1..r \/ k = r + 1
  OBVIOUS
<1> QED BY <1>1 DEF Unpulled

-----------------------------------------------------------------------------
LEMMA CordInit == Init => CordInv
<1> SUFFICES ASSUME Init PROVE CordInv
  OBVIOUS
<1>1. pc = "start" /\ iterations = 0 /\ failures = 0 /\ log = <<>> /\ reason = "none"
  BY DEF Init
<1>2. \A k : Round(log, k) = {}
  BY <1>1 DEF Round
<1>3. Streak(log, 0, 0) /\ Unpulled(log, 0)
  BY DEF Streak, Unpulled
<1> QED BY <1>1, <1>2, <1>3 DEF CordInv

\* CordInv of the next state, from what it says of its log.
LEMMA CordOf ==
  ASSUME \A k : Round(log', k) # {} => k \in 1..iterations',
         pc' \in {"start", "ready"} =>
           Streak(log', iterations', failures') /\ Unpulled(log', iterations') /\ reason' = "none",
         pc' \in {"model", "tool"} =>
           /\ iterations' >= 1 /\ reason' = "none"
           /\ Streak(log', iterations' - 1, failures') /\ Unpulled(log', iterations' - 1),
         pc' = "model" => Round(log', iterations') = {},
         pc' = "tool" => (anyOk' <=> \E i \in Round(log', iterations') : log'[i].amount # 0),
         pc' = "start" => iterations' = 0 /\ failures' = 0,
         pc' = "done" =>
           /\ reason' = "tool_error_limit" <=> Pulled(log', iterations')
           /\ Unpulled(log', iterations' - 1)
  PROVE  CordInv'
  BY DEF CordInv, Round, Failed, Pulled, Streak, Unpulled

\* A step that logs no result and stays in an iteration, or in none.
LEMMA CordQuiet ==
  ASSUME CordInv, Quiet(log, log'), iterations' = iterations, failures' = failures,
         \/ pc = "start" /\ pc' = "ready" /\ reason' = reason
         \/ pc = "model" /\ pc' = "tool" /\ ~anyOk' /\ reason' = reason
         \/ pc \in {"ready", "model"} /\ pc' = "done" /\ reason' # "tool_error_limit",
         Inv
  PROVE  CordInv'
<1>1. /\ \A k : Round(log', k) = Round(log, k) /\ (Failed(log', k) <=> Failed(log, k))
      /\ \A k : \A i \in Round(log, k) : log'[i] = log[i]
  <2> DEFINE t == log'
  <2>1. Quiet(log, t)
    OBVIOUS
  <2> HIDE DEF t
  <2>2. /\ \A k : Round(t, k) = Round(log, k) /\ (Failed(t, k) <=> Failed(log, k))
        /\ \A k : \A i \in Round(log, k) : t[i] = log[i]
    BY <2>1, QuietRounds
  <2> QED BY <2>2 DEF t
<1>2. iterations \in Nat /\ MaxFailures \in Nat \ {0}
  BY Types, AgentLoopAssumption DEF Inv
<1>3. \A k : Round(log', k) # {} => k \in 1..iterations'
  BY <1>1 DEF CordInv
<1>4. ASSUME NEW r \in Nat, NEW f, Streak(log, r, f), Unpulled(log, r)
      PROVE  Streak(log', r, f) /\ Unpulled(log', r)
  <2> DEFINE t == log'
  <2>1. \A k \in 1..r : Failed(t, k) <=> Failed(log, k)
    BY <1>1
  <2> HIDE DEF t
  <2>2. Streak(t, r, f) /\ Unpulled(t, r)
    BY <1>4, <2>1, StreakKept
  <2> QED BY <2>2 DEF t
<1>5. ASSUME NEW k \in Nat, ~Pulled(log, k) PROVE ~Pulled(log', k)
  BY <1>1, <1>5 DEF Pulled
<1>6. CASE pc = "start"
  <2>1. Streak(log', iterations, failures) /\ Unpulled(log', iterations) /\ reason = "none"
    BY <1>2, <1>4, <1>6 DEF CordInv
  <2> QED BY <1>3, <1>6, <2>1, CordOf
<1>7. CASE pc = "model"
  <2>1. /\ iterations >= 1 /\ reason = "none" /\ iterations - 1 \in Nat
        /\ Streak(log, iterations - 1, failures) /\ Unpulled(log, iterations - 1)
        /\ Round(log, iterations) = {}
    BY <1>2, <1>7 DEF CordInv
  <2>2. Streak(log', iterations - 1, failures) /\ Unpulled(log', iterations - 1)
    BY <1>4, <2>1
  <2>3. Round(log', iterations) = {} /\ ~Pulled(log', iterations)
    BY <1>1, <1>2, <1>5, <2>1, NotPulled
  <2> QED BY <1>3, <1>7, <2>1, <2>2, <2>3, CordOf
<1>8. CASE pc = "ready"
  <2>1. Streak(log, iterations, failures) /\ Unpulled(log, iterations) /\ failures < MaxFailures
    BY <1>8 DEF CordInv, Inv, LoopInv
  <2>2. ~Pulled(log, iterations)
    BY <2>1, StreakPulls
  <2>3. ~Pulled(log', iterations)
    BY <1>2, <1>5, <2>2
  <2>4. Unpulled(log', iterations)
    BY <1>2, <1>4, <2>1
  <2>5. Unpulled(log', iterations - 1)
    <3>1. \A k \in 1..iterations - 1 : k \in 1..iterations
      BY <1>2
    <3> QED BY <2>4, <3>1 DEF Unpulled
  <2> QED BY <1>3, <1>8, <2>3, <2>5, CordOf
<1> QED BY <1>6, <1>7, <1>8

LEMMA CordBegins ==
  ASSUME CordInv, Inv, BeginIteration
  PROVE  CordInv'
<1> DEFINE e == Event("iteration_started", iterations', 0, 0)
           f == Event("model_called", iterations', 0, Len(messages))
           t == Append(Append(log, e), f)
<1>1. /\ iterations' = iterations + 1 /\ failures' = failures /\ reason' = reason
      /\ pc = "ready" /\ pc' = "model" /\ log' = log \o <<e, f>>
  BY DEF BeginIteration
<1>2. /\ iterations \in Nat /\ iterations' \in Nat /\ log \in Seq(EventType)
      /\ Len(messages) \in Nat /\ iterations' - 1 = iterations /\ iterations' >= 1
      /\ iterations' \notin 1..iterations /\ \A k \in 1..iterations : k \in 1..iterations'
  <2>1. /\ iterations \in Nat /\ log \in Seq(EventType) /\ messages \in Seq(MessageType)
    BY Types DEF Inv
  <2> QED BY <1>1, <2>1, LenProperties
<1>3. /\ e \in EventType /\ e.type # "tool_returned"
      /\ f \in EventType /\ f.type # "tool_returned"
  <2>1. e.type = "iteration_started" /\ f.type = "model_called"
    BY DEF Event
  <2> QED BY <1>2, <2>1, EventTyped DEF EventNames
<1> HIDE DEF e, f
<1>4. log' = t
  BY <1>1, <1>2, <1>3, TwoEvents
<1>5. Quiet(log, t)
  BY <1>2, <1>3, QuietSame, QuietAppend
<1> HIDE DEF t
<1>6. \A k : Round(t, k) = Round(log, k) /\ (Failed(t, k) <=> Failed(log, k))
  BY <1>5, QuietRounds
<1>7. Streak(log, iterations, failures) /\ Unpulled(log, iterations) /\ reason = "none"
  BY <1>1 DEF CordInv
<1>8. Streak(t, iterations, failures) /\ Unpulled(t, iterations)
  BY <1>2, <1>6, <1>7, StreakKept
<1>9. \A k : Round(t, k) # {} => k \in 1..iterations
  BY <1>6 DEF CordInv
<1>10. Round(t, iterations') = {}
  BY <1>2, <1>9
<1>11. \A k : Round(t, k) # {} => k \in 1..iterations'
  BY <1>2, <1>9
<1> QED BY <1>1, <1>2, <1>4, <1>7, <1>8, <1>10, <1>11, CordOf

\* What a result makes of the log t of the state before, with s the log after it.
LEMMA CordResult ==
  ASSUME CordInv, Inv, pc = "tool", NEW ok \in BOOLEAN
  PROVE  LET t == Append(log, Returned(ok)) IN
         /\ t \in Seq(EventType)
         /\ iterations \in Nat /\ iterations >= 1
         /\ \A k : Round(t, k) # {} => k \in 1..iterations
         /\ Streak(t, iterations - 1, failures) /\ Unpulled(t, iterations - 1)
         /\ anyOk \/ ok <=> \E i \in Round(t, iterations) : t[i].amount # 0
         /\ Failed(t, iterations) <=> ~(anyOk \/ ok)
<1> DEFINE e == Returned(ok)
           t == Append(log, e)
<1>1. /\ iterations \in Nat /\ iterations >= 1 /\ log \in Seq(EventType)
      /\ iterations - 1 \in Nat /\ \A k \in 1..iterations - 1 : k # iterations
      /\ iterations \in 1..iterations
  <2>1. iterations \in Nat /\ log \in Seq(EventType) /\ iterations >= 1
    BY Types DEF Inv, CordInv
  <2> QED BY <2>1
<1>2. /\ e \in EventType /\ e.type = "tool_returned" /\ e.iteration = iterations
      /\ e.amount = (IF ok THEN 1 ELSE 0)
  BY ReturnedKind
<1>3. /\ Streak(log, iterations - 1, failures) /\ Unpulled(log, iterations - 1)
      /\ anyOk <=> \E i \in Round(log, iterations) : log[i].amount # 0
      /\ \A k : Round(log, k) # {} => k \in 1..iterations
  BY DEF CordInv
<1> HIDE DEF e
<1>4. /\ t \in Seq(EventType)
      /\ \A k : k # iterations => /\ Round(t, k) = Round(log, k)
                                  /\ Failed(t, k) <=> Failed(log, k)
      /\ Round(t, iterations) = Round(log, iterations) \cup {Len(log) + 1}
      /\ \A i \in Round(log, iterations) : t[i] = log[i]
      /\ t[Len(log) + 1] = e
  BY <1>1, <1>2, ResultRounds
<1> HIDE DEF t
<1>5. Streak(t, iterations - 1, failures) /\ Unpulled(t, iterations - 1)
  <2>1. \A k \in 1..iterations - 1 : Failed(t, k) <=> Failed(log, k)
    BY <1>1, <1>4
  <2> QED BY <1>1, <1>3, <2>1, StreakKept
<1>6. \A k : Round(t, k) # {} => k \in 1..iterations
  BY <1>1, <1>3, <1>4
<1>7. ok <=> e.amount # 0
  BY <1>2
<1>8. anyOk \/ ok <=> \E i \in Round(t, iterations) : t[i].amount # 0
  BY <1>3, <1>4, <1>7
<1>9. Failed(t, iterations) <=> ~(anyOk \/ ok)
  <2>1. Round(t, iterations) # {}
    BY <1>4
  <2> QED BY <1>8, <2>1 DEF Failed
<1> QED BY <1>1, <1>4, <1>5, <1>6, <1>8, <1>9 DEF t, e

LEMMA CordToolReturns ==
  ASSUME CordInv, Inv, NEW d \in Durations, NEW ok \in BOOLEAN, ToolReturns(ok, d)
  PROVE  CordInv'
<1> DEFINE t == Append(log, Returned(ok))
           w == Append(t, ToolCalled)
<1>1. /\ pc = "tool" /\ pc' = "tool" /\ reason' = reason /\ failures' = failures
      /\ iterations' = iterations /\ anyOk' = (anyOk \/ ok)
      /\ log' = log \o <<Returned(ok), ToolCalled>>
  BY DEF ToolReturns, budget
<1>2. /\ Returned(ok) \in EventType
      /\ ToolCalled \in EventType /\ ToolCalled.type # "tool_returned"
  BY ReturnedKind
<1>3. log' = w
  BY <1>1, <1>2, TwoEvents, Types DEF Inv
<1>4. /\ t \in Seq(EventType)
      /\ iterations \in Nat /\ iterations >= 1
      /\ \A k : Round(t, k) # {} => k \in 1..iterations
      /\ Streak(t, iterations - 1, failures) /\ Unpulled(t, iterations - 1)
      /\ anyOk \/ ok <=> \E i \in Round(t, iterations) : t[i].amount # 0
  BY <1>1, CordResult
<1> HIDE DEF t
<1>5. Quiet(t, w)
  BY <1>2, <1>4, QuietSame, QuietAppend
<1> HIDE DEF w
<1>6. /\ \A k : Round(w, k) = Round(t, k) /\ (Failed(w, k) <=> Failed(t, k))
      /\ \A k : \A i \in Round(t, k) : w[i] = t[i]
  BY <1>5, QuietRounds
<1>7. Streak(w, iterations - 1, failures) /\ Unpulled(w, iterations - 1)
  <2>1. iterations - 1 \in Nat
    BY <1>4
  <2> QED BY <1>4, <1>6, <2>1, StreakKept
<1>8. anyOk' <=> \E i \in Round(w, iterations) : w[i].amount # 0
  BY <1>1, <1>4, <1>6
<1>9. \A k : Round(w, k) # {} => k \in 1..iterations
  BY <1>4, <1>6
<1>10. reason = "none"
  BY <1>1 DEF CordInv
<1> QED BY <1>1, <1>3, <1>4, <1>7, <1>8, <1>9, <1>10, CordOf

LEMMA CordLastToolReturns ==
  ASSUME CordInv, Inv, NEW d \in Durations, NEW ok \in BOOLEAN, LastToolReturns(ok, d)
  PROVE  CordInv'
<1> DEFINE t == Append(log, Returned(ok))
           e == Event("run_finished", iterations', cost', 0)
           w == Append(t, e)
           g == FailuresAfter(ok)
<1>1. /\ pc = "tool" /\ iterations' = iterations /\ failures' = g /\ cost' = cost
      /\ \/ g >= MaxFailures /\ pc' = "done" /\ reason' = "tool_error_limit"
            /\ log' = Append(log \o <<Returned(ok)>>, e)
         \/ ~(g >= MaxFailures) /\ pc' = "ready" /\ reason' = reason /\ log' = t
  BY DEF LastToolReturns, Finish, budget
<1>2. /\ Returned(ok) \in EventType /\ log \in Seq(EventType)
      /\ iterations \in Nat /\ cost \in Nat /\ MaxFailures \in Nat \ {0}
      /\ failures \in Nat /\ failures < MaxFailures /\ reason = "none"
  BY <1>1, ReturnedKind, Types, AgentLoopAssumption DEF Inv, LoopInv, CordInv
<1>3. e \in EventType /\ e.type # "tool_returned"
  <2>1. e.type = "run_finished"
    BY DEF Event
  <2> QED BY <1>1, <1>2, <2>1, EventTyped DEF EventNames
<1> HIDE DEF e
<1>4. /\ t \in Seq(EventType)
      /\ iterations \in Nat /\ iterations >= 1
      /\ \A k : Round(t, k) # {} => k \in 1..iterations
      /\ Streak(t, iterations - 1, failures) /\ Unpulled(t, iterations - 1)
      /\ Failed(t, iterations) <=> ~(anyOk \/ ok)
  BY <1>1, CordResult
<1>5. log \o <<Returned(ok)>> = t
  BY <1>2, TwoEvents
<1> HIDE DEF t
<1>6. Streak(t, iterations, g)
  <2>1. (iterations - 1) + 1 = iterations
    BY <1>4
  <2>2. /\ Failed(t, iterations) => Streak(t, iterations, failures + 1)
        /\ ~Failed(t, iterations) => Streak(t, iterations, 0)
    BY <1>4, <2>1, StreakGrows
  <2>3. CASE anyOk \/ ok
    BY <1>4, <2>2, <2>3 DEF FailuresAfter
  <2>4. CASE ~(anyOk \/ ok)
    BY <1>4, <2>2, <2>4 DEF FailuresAfter
  <2> QED BY <2>3, <2>4
<1>7. g \in Nat /\ g <= MaxFailures
  <2>1. g = 0 \/ g = failures + 1
    BY DEF FailuresAfter
  <2> QED BY <1>2, <2>1
<1> HIDE DEF g
<1>8. CASE ~(g >= MaxFailures)
  <2>1. /\ g < MaxFailures /\ (iterations - 1) + 1 = iterations /\ iterations - 1 \in Nat
    BY <1>2, <1>4, <1>7, <1>8
  <2>2. ~Pulled(t, iterations)
    BY <1>6, <2>1, StreakPulls
  <2>3. Unpulled(t, iterations)
    BY <1>4, <2>1, <2>2, UnpulledGrows
  <2>4. /\ pc' = "ready" /\ reason' = "none" /\ log' = t
    BY <1>1, <1>2, <1>8
  <2> QED BY <1>1, <1>4, <1>6, <2>3, <2>4, CordOf
<1>9. CASE g >= MaxFailures
  <2>1. g = MaxFailures /\ iterations - 1 \in Nat
    BY <1>2, <1>4, <1>7, <1>9
  <2>2. Pulled(t, iterations)
    BY <1>6, <2>1, StreakPulls
  <2>3. pc' = "done" /\ reason' = "tool_error_limit" /\ log' = w
    BY <1>1, <1>5, <1>9
  <2>4. Quiet(t, w)
    BY <1>3, <1>4, QuietSame, QuietAppend
  <2> HIDE DEF w
  <2>5. \A k : Round(w, k) = Round(t, k) /\ (Failed(w, k) <=> Failed(t, k))
    BY <2>4, QuietRounds
  <2>6. Unpulled(w, iterations - 1)
    BY <1>4, <2>1, <2>5, StreakKept
  <2>7. Pulled(w, iterations)
    BY <2>2, <2>5 DEF Pulled
  <2>8. \A k : Round(w, k) # {} => k \in 1..iterations
    BY <1>4, <2>5
  <2> QED BY <1>1, <2>3, <2>6, <2>7, <2>8, CordOf
<1> QED BY <1>8, <1>9

LEMMA CordStep ==
  ASSUME CordInv, Inv, [Next]_vars
  PROVE  CordInv'
<1>0. log \in Seq(EventType) /\ iterations \in Nat /\ cost \in Nat
  BY Types DEF Inv
<1>1. CASE Start
  <2>1. /\ Event("run_started", 0, 0, 0) \in EventType
        /\ Event("run_started", 0, 0, 0).type # "tool_returned"
    BY EventTyped DEF EventNames, Event
  <2>2. /\ log' = Append(log, Event("run_started", 0, 0, 0)) /\ pc = "start" /\ pc' = "ready"
        /\ iterations' = iterations /\ failures' = failures /\ reason' = reason
    BY <1>1 DEF Start, budget
  <2>3. Quiet(log, log')
    BY <1>0, <2>1, <2>2, QuietSame, QuietAppend
  <2> QED BY <2>2, <2>3, CordQuiet
<1>2. CASE StopOnBudget \/ \E d \in Durations : ProviderFails(d)
  <2> DEFINE e == Event("run_finished", iterations', cost', 0)
  <2>1. /\ log' = Append(log \o <<>>, e) /\ pc \in {"ready", "model"} /\ pc' = "done"
        /\ iterations' = iterations /\ failures' = failures /\ cost' = cost
        /\ reason' # "tool_error_limit"
    BY <1>2 DEF StopOnBudget, ProviderFails, Finish, budget
  <2>2. e \in EventType /\ e.type # "tool_returned"
    BY <1>0, <2>1, EventTyped DEF EventNames, Event
  <2> HIDE DEF e
  <2>3. log' = Append(log, e)
    BY <1>0, <2>1
  <2>4. Quiet(log, log')
    BY <1>0, <2>2, <2>3, QuietSame, QuietAppend
  <2> QED BY <2>1, <2>4, CordQuiet
<1>3. ASSUME NEW d \in Durations, NEW u \in Usages,
             NEW c \in ReportedCosts \cup {NoReport}, NEW n \in 0..MaxCalls,
             ModelAnswers(u, c, n, d)
      PROVE  CordInv'
  <2> DEFINE e == Event("model_responded", iterations, Charge(u, c), TotalTokens(u))
             f == Event("run_finished", iterations', cost', 0)
             s == Append(log, e)
  <2>1. /\ pc = "model" /\ iterations' = iterations /\ failures' = failures /\ ~anyOk'
        /\ cost' = cost + Charge(u, c)
        /\ \/ pc' = "done" /\ reason' = "completed" /\ log' = Append(log \o <<e>>, f)
           \/ pc' = "tool" /\ reason' = reason /\ log' = log \o <<e, ToolCalled>>
    BY <1>3 DEF ModelAnswers, Finish
  <2>2. Charge(u, c) \in Nat /\ TotalTokens(u) \in Nat
    BY ChargeTyped
  <2>3. cost' \in Nat /\ iterations' \in Nat
    BY <1>0, <2>1, <2>2
  <2>4. e.type # "tool_returned" /\ f.type # "tool_returned" /\ ToolCalled.type # "tool_returned"
    BY DEF Event, ToolCalled
  <2>5. e \in EventType /\ f \in EventType /\ ToolCalled \in EventType
    BY <1>0, <2>2, <2>3, EventTyped DEF EventNames, ToolCalled
  <2> HIDE DEF e, f
  <2>6. log' \in {Append(s, f), Append(s, ToolCalled)}
    BY <1>0, <2>1, <2>5, TwoEvents
  <2>7. Quiet(log, s)
    BY <1>0, <2>4, <2>5, QuietSame, QuietAppend
  <2> HIDE DEF s
  <2>8. Quiet(log, log')
    BY <2>4, <2>5, <2>6, <2>7, QuietAppend
  <2> QED BY <2>1, <2>8, CordQuiet
<1>4. CASE Raise
  <2>1. /\ log' = log /\ iterations' = iterations /\ pc' = "raised"
    BY <1>4 DEF Raise, budget
  <2> QED BY <2>1, CordOf DEF CordInv
<1>5. CASE UNCHANGED vars
  <2>1. /\ log' = log /\ iterations' = iterations /\ pc' = pc /\ failures' = failures
        /\ reason' = reason /\ anyOk' = anyOk
    BY <1>5 DEF vars, budget
  <2> QED BY <2>1, CordOf DEF CordInv
<1> QED BY <1>1, <1>2, <1>3, <1>4, <1>5, CordBegins, CordToolReturns, CordLastToolReturns
        DEF Next, Step

\* For every value of MAX_CONSECUTIVE_TOOL_FAILURES, the run stops with tool_error_limit
\* exactly when that many iterations in a row failed, and at the first such iteration
\* (agent.py:31-33, 125-132).
THEOREM RipCordExact == Spec => []RipCordIsExact
<1>1. CordInv /\ Inv => RipCordIsExact
  <2> SUFFICES ASSUME CordInv, Inv, pc \in {"ready", "model", "done"}
               PROVE  /\ reason = "tool_error_limit" <=> Pulled(log, iterations)
                      /\ \A k \in 1..iterations - 1 : ~Pulled(log, k)
    BY DEF RipCordIsExact, RipCord, FailedRound, Pulled, Failed, Round, Indices
  <2>0. iterations \in Nat /\ \A k \in 1..iterations - 1 : k \in 1..iterations
    BY Types DEF Inv
  <2>1. CASE pc = "ready"
    <3>1. Streak(log, iterations, failures) /\ failures < MaxFailures
      BY <2>1 DEF CordInv, Inv, LoopInv
    <3>2. ~Pulled(log, iterations)
      BY <3>1, StreakPulls
    <3> QED BY <2>0, <2>1, <3>2 DEF CordInv, Unpulled
  <2>2. CASE pc = "model"
    <3>1. ~Pulled(log, iterations)
      BY <2>0, <2>2, NotPulled DEF CordInv
    <3> QED BY <2>2, <3>1 DEF CordInv, Unpulled
  <2>3. CASE pc = "done"
    BY <2>3 DEF CordInv, Unpulled
  <2> QED BY <2>1, <2>2, <2>3
<1>2. CordInv /\ Inv /\ [Next]_vars => CordInv'
  BY CordStep
<1> QED BY InvInit, InvStep, CordInit, <1>1, <1>2, PTL DEF Spec
-----------------------------------------------------------------------------
(* The end of a run: what Terminates rests on, apart from fairness.  An    *)
(* iteration takes at most MaxCalls + 3 steps.                             *)

\* The steps an iteration has left, and with them those of the whole run.
PlaceLeft ==
  IF pc = "start" THEN 2
  ELSE IF pc = "ready" THEN 1
  ELSE IF pc = "model" THEN MaxCalls + 2
  ELSE IF pc = "tool" THEN calls - answered + 1
  ELSE 0
StepsLeft == (MaxIterations - iterations) * (MaxCalls + 3) + PlaceLeft

LEMMA OneIterationLess ==
  ASSUME NEW m \in Nat, NEW n \in Nat, n <= m, NEW k \in Nat
  PROVE  (m - n) * k \in Nat /\ (m - (n + 1)) * k = (m - n) * k - k
<1> DEFINE d == m - n
<1>1. d \in Nat /\ m - (n + 1) = d - 1
  OBVIOUS
<1> HIDE DEF d
<1>2. d * k \in Nat /\ (d - 1) * k = d * k - k
  BY <1>1
<1> QED BY <1>1, <1>2 DEF d

\* What a step leaves is a number, and the same iteration keeps the rest of it.
LEMMA PlaceTyped == Inv => PlaceLeft \in Nat
<1> SUFFICES ASSUME Inv PROVE PlaceLeft \in Nat
  OBVIOUS
<1>1. MaxCalls \in Nat /\ calls \in Nat /\ answered \in Nat /\ answered <= calls
  BY Types, AgentLoopAssumption DEF Inv, TypeOK
<1> QED BY <1>1 DEF PlaceLeft

LEMMA StepsTyped == Inv => StepsLeft \in Nat
<1> SUFFICES ASSUME Inv PROVE StepsLeft \in Nat
  OBVIOUS
<1> DEFINE rest == (MaxIterations - iterations) * (MaxCalls + 3)
<1>1. iterations \in Nat /\ iterations <= MaxIterations
  BY Types DEF Inv
<1>2. MaxIterations \in Nat /\ MaxCalls + 3 \in Nat
  BY AgentLoopAssumption
<1>3. rest \in Nat
  BY <1>1, <1>2, OneIterationLess
<1>4. StepsLeft = rest + PlaceLeft
  BY DEF StepsLeft
<1> HIDE DEF rest
<1> QED BY <1>3, <1>4, PlaceTyped

LEMMA PlaceStep ==
  Inv /\ Next => \/ iterations' = iterations /\ PlaceLeft' < PlaceLeft
                 \/ BeginIteration
<1> SUFFICES ASSUME Inv, Next PROVE \/ iterations' = iterations /\ PlaceLeft' < PlaceLeft
                                   \/ BeginIteration
  OBVIOUS
<1>0. MaxCalls \in Nat /\ calls \in Nat /\ answered \in Nat /\ answered <= calls
  BY Types, AgentLoopAssumption DEF Inv, TypeOK
<1>1. CASE Start
  BY <1>1 DEF Start, PlaceLeft, budget
<1>2. CASE StopOnBudget
  BY <1>2 DEF StopOnBudget, Finish, PlaceLeft, budget
<1>3. CASE Raise
  <2>1. iterations' = iterations /\ PlaceLeft' = 0
    BY <1>3 DEF Raise, PlaceLeft, budget
  <2>2. PlaceLeft > 0
    BY <1>0, <1>3 DEF Raise, PlaceLeft
  <2> QED BY <2>1, <2>2
<1>4. ASSUME NEW d \in Durations, NEW u \in Usages, NEW reported \in ReportedCosts \cup {NoReport},
             NEW n \in 0..MaxCalls, ModelAnswers(u, reported, n, d)
      PROVE  iterations' = iterations /\ PlaceLeft' < PlaceLeft
  <2>1. iterations' = iterations /\ PlaceLeft = MaxCalls + 2
    BY <1>4 DEF ModelAnswers, PlaceLeft
  <2>2. n \in Nat /\ n <= MaxCalls
    BY <1>0
  <2>3. CASE n = 0
    <3>1. PlaceLeft' = 0
      BY <1>4, <2>3 DEF ModelAnswers, Finish, PlaceLeft
    <3> QED BY <1>0, <2>1, <3>1
  <2>4. CASE n # 0
    <3>1. pc' = "tool" /\ calls' = n /\ answered' = 0
      BY <1>4, <2>4 DEF ModelAnswers
    <3>2. PlaceLeft' = n - 0 + 1
      BY <3>1 DEF PlaceLeft
    <3> QED BY <1>0, <2>1, <2>2, <3>2
  <2> QED BY <2>3, <2>4
<1>5. ASSUME NEW d \in Durations, ProviderFails(d)
      PROVE  iterations' = iterations /\ PlaceLeft' < PlaceLeft
  <2>1. iterations' = iterations /\ PlaceLeft' = 0 /\ PlaceLeft = MaxCalls + 2
    BY <1>5 DEF ProviderFails, Finish, PlaceLeft, budget
  <2> QED BY <1>0, <2>1
<1>6. ASSUME NEW d \in Durations, NEW ok \in BOOLEAN, ToolReturns(ok, d)
      PROVE  iterations' = iterations /\ PlaceLeft' < PlaceLeft
  <2>1. iterations' = iterations /\ PlaceLeft = calls - answered + 1
        /\ PlaceLeft' = calls - (answered + 1) + 1
    BY <1>6 DEF ToolReturns, PlaceLeft, budget
  <2> QED BY <1>0, <2>1
<1>7. ASSUME NEW d \in Durations, NEW ok \in BOOLEAN, LastToolReturns(ok, d)
      PROVE  iterations' = iterations /\ PlaceLeft' < PlaceLeft
  <2>1. iterations' = iterations /\ PlaceLeft = calls - answered + 1 /\ answered + 1 = calls
    BY <1>7 DEF LastToolReturns, PlaceLeft, budget
  <2>2. pc' \in {"ready", "done"}
    BY <1>7 DEF LastToolReturns, Finish
  <2>3. PlaceLeft' \in {0, 1}
    BY <2>2 DEF PlaceLeft
  <2> QED BY <1>0, <2>1, <2>3
<1> QED BY <1>1, <1>2, <1>3, <1>4, <1>5, <1>6, <1>7 DEF Next, Step

\* A run is finite whatever the model, its tools and its prices are: it takes at most
\* MaxIterations * (MaxCalls + 3) + 2 steps, since every step leaves fewer.  That is the part
\* of Terminates that holds without fairness (agent.py:84-132, budget.py:113-138).
THEOREM LoopIsFinite ==
  Spec => /\ StepsLeft = MaxIterations * (MaxCalls + 3) + 2
          /\ [](StepsLeft \in Nat)
          /\ [][StepsLeft' < StepsLeft]_vars
<1>1. Init => StepsLeft = MaxIterations * (MaxCalls + 3) + 2
  <2> SUFFICES ASSUME Init PROVE StepsLeft = MaxIterations * (MaxCalls + 3) + 2
    OBVIOUS
  <2>1. PlaceLeft = 2 /\ iterations = 0
    BY DEF Init, PlaceLeft
  <2>2. MaxIterations - iterations = MaxIterations
    BY <2>1, AgentLoopAssumption
  <2> QED BY <2>1, <2>2 DEF StepsLeft
<1>2. Inv /\ Inv' /\ [Next]_vars => [StepsLeft' < StepsLeft]_vars
  <2> SUFFICES ASSUME Inv, Inv', Next PROVE StepsLeft' < StepsLeft
    OBVIOUS
  <2> DEFINE rest == (MaxIterations - iterations) * (MaxCalls + 3)
             next == (MaxIterations - iterations') * (MaxCalls + 3)
  <2>0. /\ iterations \in Nat /\ iterations <= MaxIterations
        /\ MaxIterations \in Nat /\ MaxCalls \in Nat /\ MaxCalls + 3 \in Nat
    BY Types, AgentLoopAssumption DEF Inv
  <2>1. rest \in Nat
    BY <2>0, OneIterationLess
  <2>2. PlaceLeft \in Nat /\ PlaceLeft' \in Nat
    <3>1. PlaceLeft \in Nat
      BY PlaceTyped
    <3>2. (Inv => PlaceLeft \in Nat)'
      BY PlaceTyped, PTL
    <3> QED BY <3>1, <3>2
  <2>3. StepsLeft = rest + PlaceLeft /\ StepsLeft' = next + PlaceLeft'
    BY DEF StepsLeft
  <2>4. CASE iterations' = iterations /\ PlaceLeft' < PlaceLeft
    <3>1. next = rest
      BY <2>4
    <3> DEFINE place     == PlaceLeft
               nextPlace == PlaceLeft'
               left      == StepsLeft
               nextLeft  == StepsLeft'
    <3>2. left = rest + place /\ nextLeft = rest + nextPlace
      BY <2>3, <3>1
    <3>3. place \in Nat /\ nextPlace \in Nat /\ nextPlace < place
      BY <2>2, <2>4
    <3> HIDE DEF rest, next, place, nextPlace, left, nextLeft
    <3>4. nextLeft < left
      BY <2>1, <3>2, <3>3
    <3> QED BY <3>4 DEF left, nextLeft
  <2>5. CASE BeginIteration
    <3>1. iterations' = iterations + 1 /\ PlaceLeft = 1 /\ PlaceLeft' = MaxCalls + 2
      BY <2>5 DEF BeginIteration, PlaceLeft
    <3>2. next = rest - (MaxCalls + 3)
      BY <2>0, <3>1, OneIterationLess
    <3> HIDE DEF rest, next
    <3> QED BY <2>0, <2>1, <2>3, <3>1, <3>2
  <2> QED BY <2>4, <2>5, PlaceStep
<1> QED BY InvInit, InvStep, StepsTyped, <1>1, <1>2, PTL DEF Spec
=============================================================================
