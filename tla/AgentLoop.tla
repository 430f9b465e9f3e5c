------------------------------ MODULE AgentLoop ------------------------------
(***************************************************************************)
(* One agent run (harness/agent.py) under its budget (harness/budget.py)   *)
(* with the tools of harness/tools.py: the loop that asks the model, books *)
(* what it used, runs the requested tools one after the other and decides  *)
(* when to stop.  A step of the model runs from one await (the provider's  *)
(* answer, a tool's result) to the next.                                   *)
(*                                                                         *)
(* Texts are left out.  An answer of the model is its usage, the cost the  *)
(* provider reports, and the number of tool calls it asks for; a tool      *)
(* result is whether it succeeded.                                         *)
(***************************************************************************)
EXTENDS Integers, Sequences, FiniteSets

CONSTANTS
  MaxIterations,      \* BudgetLimits.max_iterations
  MaxTokens,          \* BudgetLimits.max_tokens, or NoLimit
  MaxWallClock,       \* BudgetLimits.max_wall_clock_seconds, or NoLimit
  MaxCost,            \* BudgetLimits.max_cost_usd, or NoLimit
  NoLimit,
  PromptPrice,        \* catalog price of a token, 0 when unknown
  CompletionPrice,
  MaxFailures,        \* MAX_CONSECUTIVE_TOOL_FAILURES
  Usages,             \* token counts an answer may have
  ReportedCosts,      \* costs a provider may report
  NoReport,           \* reported_cost_usd is None
  MaxCalls,           \* bound on the tool calls of one answer
  Durations           \* time one await may take

Limits == Nat \cup {NoLimit}

ASSUME AgentLoopAssumption ==
  /\ MaxIterations \in Nat
  /\ NoLimit \notin Nat /\ NoReport \notin Nat
  /\ MaxTokens \in Limits /\ MaxWallClock \in Limits /\ MaxCost \in Limits
  /\ PromptPrice \in Nat /\ CompletionPrice \in Nat
  /\ MaxFailures \in Nat \ {0}
  /\ Usages \subseteq [prompt : Nat, completion : Nat, reasoning : Nat]
  /\ ReportedCosts \subseteq Nat
  /\ MaxCalls \in Nat
  /\ Durations \subseteq Nat

VARIABLES
  pc,          \* "start", "ready" (top of the loop), "model", "tool" (awaiting), "done", "raised"
  iterations,  \* BudgetTracker.iterations
  tokens,      \* BudgetTracker.usage.total_tokens
  cost,        \* BudgetTracker.cost_usd
  elapsed,     \* BudgetTracker.elapsed_seconds
  failures,    \* consecutive_failures
  calls,       \* number of tool calls of the current answer
  answered,    \* how many of them have returned
  anyOk,       \* any_ok
  messages,    \* the conversation sent to the model
  log,         \* the emitted events
  reason       \* AgentResult.stop_reason, "none" before the run ends

budget == <<iterations, tokens, cost>>
vars   == <<pc, iterations, tokens, cost, elapsed, failures, calls, answered, anyOk,
            messages, log, reason>>

Reasons == {"completed", "budget", "provider_error", "tool_error_limit"}

EventNames == {"run_started", "iteration_started", "model_called", "model_responded",
               "tool_called", "tool_returned", "run_finished"}

\* The events of harness/events.py.  `amount` is the cost of a model_responded, 1 or 0 for
\* a tool_returned that succeeded or failed, the total cost of run_finished, else 0.
Event(type, iteration, amount, used) ==
  [type |-> type, iteration |-> iteration, amount |-> amount, used |-> used]

Message(role, n) == [role |-> role, n |-> n]

Init ==
  /\ pc = "start"
  /\ iterations = 0 /\ tokens = 0 /\ cost = 0 /\ elapsed = 0
  /\ failures = 0
  /\ calls = 0 /\ answered = 0 /\ anyOk = FALSE
  /\ messages = <<Message("system", 0), Message("user", 0)>>
  /\ log = <<>>
  /\ reason = "none"

Start ==
  /\ pc = "start"
  /\ pc' = "ready"
  /\ log' = Append(log, Event("run_started", 0, 0, 0))
  /\ UNCHANGED <<budget, elapsed, failures, calls, answered, anyOk, messages, reason>>

-----------------------------------------------------------------------------
(* The budget *)

\* Fault: the limit has to be exceeded, not reached.
FaultyReached(spent, limit) == limit # NoLimit /\ spent > limit

Reached(spent, limit) == limit # NoLimit /\ spent >= limit

\* start_iteration raises BudgetExceeded.
Exceeded ==
  \/ iterations >= MaxIterations
  \/ Reached(tokens, MaxTokens)
  \/ Reached(elapsed, MaxWallClock)
  \/ Reached(cost, MaxCost)

\* Providers bill reasoning tokens like output tokens; without prices a call costs nothing.
CostOf(u) == PromptPrice * u.prompt + CompletionPrice * (u.completion + u.reasoning)

TotalTokens(u) == u.prompt + u.completion

\* A reported cost wins over the computed one.
Charge(u, reported) == IF reported = NoReport THEN CostOf(u) ELSE reported

-----------------------------------------------------------------------------
(* The loop *)

\* _finish: run_finished is emitted after the events of the step, and the run returns.
Finish(r, emitted) ==
  /\ pc' = "done"
  /\ reason' = r
  /\ log' = Append(log \o emitted, Event("run_finished", iterations', cost', 0))

BeginIteration ==
  /\ pc = "ready"
  /\ ~Exceeded
  /\ iterations' = iterations + 1
  /\ pc' = "model"
  /\ log' = log \o <<Event("iteration_started", iterations', 0, 0),
                     Event("model_called", iterations', 0, Len(messages))>>
  /\ UNCHANGED <<tokens, cost, elapsed, failures, calls, answered, anyOk, messages, reason>>

StopOnBudget ==
  /\ pc = "ready"
  /\ Exceeded
  /\ UNCHANGED <<budget, elapsed, failures, calls, answered, anyOk, messages>>
  /\ Finish("budget", <<>>)

ToolCalled == Event("tool_called", iterations, 0, 0)

\* Fault: the computed cost is booked although the provider reported one.
FaultyModelAnswers(u, reported, n, d) ==
  LET responded == Event("model_responded", iterations, Charge(u, reported), TotalTokens(u)) IN
  /\ pc = "model"
  /\ elapsed' = elapsed + d
  /\ tokens' = tokens + TotalTokens(u)
  /\ cost' = cost + CostOf(u)
  /\ messages' = Append(messages, Message("assistant", n))
  /\ calls' = n
  /\ answered' = 0
  /\ anyOk' = FALSE
  /\ UNCHANGED <<iterations, failures>>
  /\ IF n = 0
     THEN Finish("completed", <<responded>>)
     ELSE /\ pc' = "tool"
          /\ log' = log \o <<responded, ToolCalled>>
          /\ UNCHANGED reason

\* The provider answers: usage and cost are booked, the answer joins the conversation, and
\* either it ends the run or its first tool call is issued.
ModelAnswers(u, reported, n, d) ==
  LET responded == Event("model_responded", iterations, Charge(u, reported), TotalTokens(u)) IN
  /\ pc = "model"
  /\ elapsed' = elapsed + d
  /\ tokens' = tokens + TotalTokens(u)
  /\ cost' = cost + Charge(u, reported)
  /\ messages' = Append(messages, Message("assistant", n))
  /\ calls' = n
  /\ answered' = 0
  /\ anyOk' = FALSE
  /\ UNCHANGED <<iterations, failures>>
  /\ IF n = 0
     THEN Finish("completed", <<responded>>)
     ELSE /\ pc' = "tool"
          /\ log' = log \o <<responded, ToolCalled>>
          /\ UNCHANGED reason

\* complete raises ProviderError.
ProviderFails(d) ==
  /\ pc = "model"
  /\ elapsed' = elapsed + d
  /\ UNCHANGED <<budget, failures, calls, answered, anyOk, messages>>
  /\ Finish("provider_error", <<>>)

\* What the result of a tool call adds to the log and to the conversation.
Returned(ok) == Event("tool_returned", iterations, IF ok THEN 1 ELSE 0, 0)

\* Fault: the next call is not issued when it is the last one.
FaultyToolReturns(ok, d) ==
  /\ pc = "tool"
  /\ answered + 2 < calls
  /\ elapsed' = elapsed + d
  /\ answered' = answered + 1
  /\ anyOk' = (anyOk \/ ok)
  /\ messages' = Append(messages, Message("tool", answered'))
  /\ log' = log \o <<Returned(ok), ToolCalled>>
  /\ UNCHANGED <<pc, budget, failures, calls, reason>>

\* A tool of the answer returns and another one is left: it is issued next.
ToolReturns(ok, d) ==
  /\ pc = "tool"
  /\ answered + 1 < calls
  /\ elapsed' = elapsed + d
  /\ answered' = answered + 1
  /\ anyOk' = (anyOk \/ ok)
  /\ messages' = Append(messages, Message("tool", answered'))
  /\ log' = log \o <<Returned(ok), ToolCalled>>
  /\ UNCHANGED <<pc, budget, failures, calls, reason>>

\* Fault: only the last call of an answer decides whether all of them failed.
FaultyFailuresAfter(ok) == IF ok THEN 0 ELSE failures + 1

\* consecutive_failures after the last tool of an answer.
FailuresAfter(ok) == IF anyOk \/ ok THEN 0 ELSE failures + 1

\* Fault: the result of the last call is not handed back to the model.
FaultyLastToolReturns(ok, d) ==
  /\ pc = "tool"
  /\ answered + 1 = calls
  /\ elapsed' = elapsed + d
  /\ answered' = calls
  /\ anyOk' = (anyOk \/ ok)
  /\ failures' = FailuresAfter(ok)
  /\ UNCHANGED <<budget, calls, messages>>
  /\ IF failures' >= MaxFailures
     THEN Finish("tool_error_limit", <<Returned(ok)>>)
     ELSE /\ pc' = "ready"
          /\ log' = Append(log, Returned(ok))
          /\ UNCHANGED reason

\* The last tool returns: an answer whose calls all failed counts towards the rip cord.
LastToolReturns(ok, d) ==
  /\ pc = "tool"
  /\ answered + 1 = calls
  /\ elapsed' = elapsed + d
  /\ answered' = calls
  /\ anyOk' = (anyOk \/ ok)
  /\ messages' = Append(messages, Message("tool", calls))
  /\ failures' = FailuresAfter(ok)
  /\ UNCHANGED <<budget, calls>>
  /\ IF failures' >= MaxFailures
     THEN Finish("tool_error_limit", <<Returned(ok)>>)
     ELSE /\ pc' = "ready"
          /\ log' = Append(log, Returned(ok))
          /\ UNCHANGED reason

\* Any other exception of the provider, or the cancellation of the task: it leaves the run
\* without a run_finished.  A tool never raises (ToolRegistry.invoke).
Raise ==
  /\ pc \in {"model", "tool"}
  /\ pc' = "raised"
  /\ UNCHANGED <<budget, elapsed, failures, calls, answered, anyOk, messages, log, reason>>

Step ==
  \/ Start
  \/ BeginIteration
  \/ StopOnBudget
  \/ \E d \in Durations :
       \/ \E u \in Usages, reported \in ReportedCosts \cup {NoReport}, n \in 0..MaxCalls :
            ModelAnswers(u, reported, n, d)
       \/ ProviderFails(d)
       \/ \E ok \in BOOLEAN : ToolReturns(ok, d) \/ LastToolReturns(ok, d)

Next == Step \/ Raise

Spec == Init /\ [][Next]_vars

\* Assumed: a call of the model and a call of a tool come back.  The code bounds the silence
\* of the one (httpx) and the first command of the other's command line (`timeout`,
\* docker_sandbox.py:206-212), and no more than that.
FairSpec == Spec /\ WF_vars(Step)

-----------------------------------------------------------------------------
(* Properties *)

\* Every variable has its type.
TypeOK ==
  /\ pc \in {"start", "ready", "model", "tool", "done", "raised"}
  /\ iterations \in 0..MaxIterations
  /\ tokens \in Nat /\ cost \in Nat /\ elapsed \in Nat
  /\ failures \in 0..MaxFailures
  /\ calls \in 0..MaxCalls /\ answered \in 0..calls
  /\ anyOk \in BOOLEAN
  /\ messages \in Seq([role : {"system", "user", "assistant", "tool"}, n : Nat])
  /\ log \in Seq([type : EventNames, iteration : Nat, amount : Nat, used : Nat])
  /\ reason \in Reasons \cup {"none"}

Indices(type) == {i \in 1..Len(log) : log[i].type = type}

Below(spent, limit) == limit # NoLimit => spent < limit

\* The prefix sums of a sequence of numbers, and what the answers of a log used and cost.
Sums(s) == LET sum[k \in 0..Len(s)] == IF k = 0 THEN 0 ELSE sum[k - 1] + s[k] IN sum
Used(l) == [k \in 1..Len(l) |-> IF l[k].type = "model_responded" THEN l[k].used ELSE 0]
Paid(l) == [k \in 1..Len(l) |-> IF l[k].type = "model_responded" THEN l[k].amount ELSE 0]

UsedBefore(i) == Sums(Used(log))[i - 1]
CostBefore(i) == Sums(Paid(log))[i - 1]

\* Every call of the model is a counted iteration, and at each of them what the log shows
\* as used so far is still below every limit: nothing is asked of the model once a limit
\* is reached (budget.py:1-5, 113-138).
NoCallBeyondLimits ==
  \A i \in Indices("model_called") :
    /\ log[i].iteration = Cardinality({j \in Indices("model_called") : j <= i})
    /\ log[i].iteration <= MaxIterations
    /\ Below(UsedBefore(i), MaxTokens)
    /\ Below(CostBefore(i), MaxCost)

\* All a run can overspend is its last answer.
OvershootIsOneAnswer ==
  \A i \in Indices("model_responded") :
    (\A j \in Indices("model_responded") : j <= i) =>
      Below(tokens - log[i].used, MaxTokens) /\ Below(cost - log[i].amount, MaxCost)

\* A run that returns has logged run_finished once, as its last event, with the figures
\* the other events add up to; a run that raises has not (events.py, agent.py:154-170).
FinishedIsLast ==
  /\ pc = "done" <=> Indices("run_finished") # {}
  /\ \A i \in Indices("run_finished") :
       /\ i = Len(log)
       /\ log[i].iteration = Cardinality(Indices("iteration_started"))
       /\ log[i].amount = CostBefore(i)

\* The part of the state OvershootIsOneAnswer rests on: the model is only asked below the
\* limits, and the run ends when the rip cord is reached.
LoopInv ==
  /\ pc = "model" => Below(tokens, MaxTokens) /\ Below(cost, MaxCost)
  /\ pc \in {"start", "ready", "model", "tool"} => failures < MaxFailures

\* What is sent to the model answers every tool call of every earlier answer, in order and
\* directly after it: the chat protocol refuses anything else.
CallsAreAnswered ==
  pc = "model" =>
    \A i \in 1..Len(messages) :
      /\ messages[i].role = "assistant" =>
           \A k \in 1..messages[i].n :
             i + k <= Len(messages) /\ messages[i + k] = Message("tool", k)
      /\ messages[i].role = "tool" =>
           messages[i - messages[i].n].role = "assistant"

\* An iteration whose tool calls all failed, and MaxFailures of them in a row up to k.
FailedRound(k) ==
  LET results == {i \in Indices("tool_returned") : log[i].iteration = k} IN
  results # {} /\ \A i \in results : log[i].amount = 0
RipCord(k) == k >= MaxFailures /\ \A j \in k - MaxFailures + 1..k : FailedRound(j)

\* The run stops with tool_error_limit exactly when the last MaxFailures iterations all
\* failed, and at the first such iteration (agent.py:31-33, 125-132).
RipCordIsExact ==
  pc \in {"ready", "model", "done"} =>
    /\ reason = "tool_error_limit" <=> RipCord(iterations)
    /\ \A k \in 1..iterations - 1 : ~RipCord(k)

\* Every run comes to an end, whatever the model answers.
Terminates == <>(pc \in {"done", "raised"})
=============================================================================
