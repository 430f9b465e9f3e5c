----------------------------- MODULE OpenRouter -----------------------------
(***************************************************************************)
(* The provider that calls a model over HTTP (harness/providers/           *)
(* openrouter.py): the calls one run makes, one after the other, and the   *)
(* requests each call posts until one is answered.  A step is what         *)
(* complete does between two awaits, or what the server does to a request. *)
(*                                                                         *)
(* The server, and what it bills, is not of this repository: it may serve  *)
(* a request at any time after it was posted, also one whose sender has    *)
(* given up, or never.  An answer is the class the code puts it in; of its *)
(* content the requested tool calls are kept.                              *)
(***************************************************************************)
EXTENDS Naturals, Sequences, FiniteSets

CONSTANTS
  MaxRetries,   \* max_retries: the requests of one call
  Timeout,      \* seconds without any progress that a request is waited for
  MaxCalls,     \* bound on the calls of a run
  MaxProgress,  \* bound on the parts in which the requests of a call proceed
  GivenIds,     \* ids of tool calls a model may send; n stands for "call_n"
  NoId,         \* no id, or an empty one
  MaxEntries    \* bound on the tool calls of an answer

ASSUME OpenRouterAssumption ==
  /\ MaxRetries \in Nat /\ Timeout \in Nat
  /\ MaxCalls \in Nat /\ MaxProgress \in Nat /\ MaxEntries \in Nat
  /\ GivenIds \subseteq Nat /\ NoId \notin Nat

Requests == (1..MaxCalls) \X (1..MaxRetries)

\* "transient" is a status of RETRYABLE_STATUS, "fatal" another one of at least 400.  The
\* rest has a status below: "broken" is what _post_with_retry or _to_completion turns into
\* a ProviderError (no JSON, an error object, no choices), "malformed" what raises something
\* else there (a choice that is no object, a token count that is no number).
Answers == {"good", "transient", "fatal", "broken", "malformed"}

\* An entry of tool_calls: its id, and whether its function has a name.  The arguments are
\* left out; those that cannot be read become {}.
Entry == [id : GivenIds \cup {NoId}, named : BOOLEAN]
Raw   == UNION {[1..n -> Entry] : n \in 0..MaxEntries}

VARIABLES
  pc,       \* "idle", "posting", "sleeping"; how the run ended: "refused", "raised", "cancelled"
  call,     \* number of the current or last call
  attempt,  \* its attempts so far
  waited,   \* seconds the call has taken
  progress, \* how often in the call a time-out has started afresh
  server,   \* per request: "none", "transit", what the server answered, or "late" when
            \* nobody waits for its answer
  seen,     \* history, per request: "none", "network", "cancelled", or the answer received
  billed,   \* requests the server has billed
  booked,   \* requests whose Completion the agent has booked
  raw,      \* tool_calls of the last answer
  parsed    \* what _parse_tool_calls made of it

client == <<pc, call, attempt, waited, progress>>
answer == <<raw, parsed>>
vars   == <<client, server, seen, billed, booked, answer>>

Current == <<call, attempt>>

Init ==
  /\ pc = "idle" /\ call = 0 /\ attempt = 0 /\ waited = 0 /\ progress = 0
  /\ server = [r \in Requests |-> "none"]
  /\ seen = [r \in Requests |-> "none"]
  /\ billed = {} /\ booked = {}
  /\ raw = <<>> /\ parsed = <<>>

-----------------------------------------------------------------------------
(* _parse_tool_calls *)

Positions(list) == {i \in DOMAIN list : list[i].named}

\* Fault: calls are counted instead of entries, so an id may be given twice.
FaultyCallId(list, i) == IF list[i].id = NoId THEN Cardinality(Positions(list)) ELSE list[i].id

CallId(list, i) == IF list[i].id = NoId THEN i - 1 ELSE list[i].id

ToolCall(list, i) == [id |-> CallId(list, i), entry |-> i]

\* The entries that have a name, in their order.
ParseToolCalls(list) ==
  LET At(n) == CHOOSE i \in Positions(list) :
                 Cardinality({j \in Positions(list) : j <= i}) = n
  IN  [n \in 1..Cardinality(Positions(list)) |-> ToolCall(list, At(n))]

-----------------------------------------------------------------------------
(* complete *)

Post(c, a) ==
  /\ attempt' = a
  /\ server' = [server EXCEPT ![<<c, a>>] = "transit"]

Complete ==
  /\ pc = "idle" /\ call < MaxCalls
  /\ call' = call + 1
  /\ waited' = 0 /\ progress' = 0
  /\ IF MaxRetries = 0
     THEN pc' = "refused" /\ attempt' = 0 /\ UNCHANGED server
     ELSE pc' = "posting" /\ Post(call + 1, 1)
  /\ raw' = <<>> /\ parsed' = <<>>
  /\ UNCHANGED <<seen, billed, booked>>

See(what) == seen' = [seen EXCEPT ![Current] = what]

\* Nothing is waited for longer than Timeout - not the request as a whole but a connection
\* of the pool, the handshake, the sending and the receiving of each part of it (httpx) -;
\* the two ends are taken.
Await == \E d \in {0, Timeout} : waited' = waited + d

TryAgain == pc' = IF attempt < MaxRetries THEN "sleeping" ELSE "refused"

\* The connection is made, or a part of the request or of its answer is through: what is
\* waited for next has a time-out of its own.
Progress ==
  /\ pc = "posting" /\ progress < MaxProgress
  /\ progress' = progress + 1 /\ Await
  /\ UNCHANGED <<pc, call, attempt, server, seen, billed, booked, answer>>

\* Whatever the server says to the current request, now or later, is not heard.
GiveUp(why) ==
  /\ See(why)
  /\ server' = [server EXCEPT ![Current] = IF @ = "transit" THEN @ ELSE "late"]

\* Fault: the timeout does not bound a request that nobody serves.
FaultyNetworkError ==
  /\ pc = "posting" /\ server[Current] # "transit"
  /\ GiveUp("network") /\ Await
  /\ TryAgain
  /\ UNCHANGED <<call, attempt, progress, billed, booked, answer>>

\* httpx.HTTPError: there was no progress for Timeout, or the connection broke, at any point.
NetworkError ==
  /\ pc = "posting"
  /\ GiveUp("network") /\ Await
  /\ TryAgain
  /\ UNCHANGED <<call, attempt, progress, billed, booked, answer>>

Receives(what) ==
  /\ pc = "posting" /\ server[Current] = what
  /\ See(what) /\ Await
  /\ UNCHANGED <<call, attempt, progress, server, billed>>

ReceiveStatus ==
  /\ \/ Receives("transient") /\ TryAgain
     \/ Receives("fatal") /\ pc' = "refused"
  /\ UNCHANGED <<booked, answer>>

ReceiveUnusable ==
  /\ \/ Receives("broken") /\ pc' = "refused"
     \/ Receives("malformed") /\ pc' = "raised"
  /\ UNCHANGED <<booked, answer>>

\* Fault: an answer that asks for no tool is not booked.
FaultyReceiveAnswer ==
  /\ Receives("good")
  /\ raw' \in Raw
  /\ parsed' = ParseToolCalls(raw')
  /\ pc' = "idle"
  /\ booked' = IF parsed' = <<>> THEN booked ELSE booked \cup {Current}

ReceiveAnswer ==
  /\ Receives("good")
  /\ raw' \in Raw
  /\ parsed' = ParseToolCalls(raw')
  /\ pc' = "idle"
  /\ booked' = booked \cup {Current}

\* 2**n
Pow2[n \in 0..MaxRetries] == IF n = 0 THEN 1 ELSE 2 * Pow2[n - 1]

\* Fault: the wait is doubled before it begins.
FaultySleep ==
  /\ pc = "sleeping"
  /\ waited' = waited + Pow2[attempt]
  /\ pc' = "posting" /\ Post(call, attempt + 1)
  /\ UNCHANGED <<call, progress, seen, billed, booked, answer>>

Sleep ==
  /\ pc = "sleeping"
  /\ waited' = waited + Pow2[attempt - 1]
  /\ pc' = "posting" /\ Post(call, attempt + 1)
  /\ UNCHANGED <<call, progress, seen, billed, booked, answer>>

\* The task is cancelled; what was posted is on its way.
Cancel ==
  /\ pc \in {"posting", "sleeping"}
  /\ pc' = "cancelled"
  /\ IF pc = "posting" THEN GiveUp("cancelled") ELSE UNCHANGED <<seen, server>>
  /\ UNCHANGED <<call, attempt, waited, progress, billed, booked, answer>>

Awaited(r) == pc = "posting" /\ r = Current

\* The server answers.  It bills what it has generated, and may bill what went wrong.
Serve ==
  \E r \in Requests, what \in Answers \cup {"late"} :
    /\ server[r] = "transit" /\ (what = "late" <=> ~Awaited(r))
    /\ server' = [server EXCEPT ![r] = what]
    /\ \/ billed' = billed \cup {r}
       \/ what # "good" /\ UNCHANGED billed
    /\ UNCHANGED <<client, seen, booked, answer>>

ClientStep ==
  \/ Complete \/ NetworkError \/ Sleep
  \/ ReceiveStatus \/ ReceiveUnusable \/ ReceiveAnswer

Next == ClientStep \/ Progress \/ Cancel \/ Serve

Spec == Init /\ [][Next]_vars

\* The bound stands for a server that goes on for ever, a part at a time.
KeptBusy == pc = "posting" /\ progress = MaxProgress

\* A request without progress times out, a sleep ends; the server owes nothing, and may keep
\* the client busy for as long as it likes.
FairSpec == Spec /\ WF_vars(~KeptBusy /\ ClientStep)

-----------------------------------------------------------------------------
(* Properties *)

\* Every variable has its type; those of waited, raw and parsed are in WaitIsBounded and
\* CallsAreTheModels.
TypeOK ==
  /\ pc \in {"idle", "posting", "sleeping", "refused", "raised", "cancelled"}
  /\ call \in 0..MaxCalls
  /\ attempt \in 0..MaxRetries
  /\ progress \in 0..MaxProgress
  /\ server \in [Requests -> Answers \cup {"none", "transit", "late"}]
  /\ seen \in [Requests -> Answers \cup {"none", "network", "cancelled"}]
  /\ billed \subseteq Requests /\ booked \subseteq Requests

\* Who has been billed for what was not booked: a request the client gave up on, an answer
\* it could not use, or one it is still waiting for.  Nothing good is ever thrown away
\* (openrouter.py:136-156).
UnbookedHasACause ==
  \A r \in billed \ booked :
    \/ seen[r] \in {"network", "cancelled", "transient", "fatal", "broken", "malformed"}
    \/ Awaited(r)

\* A call that was answered has booked its last request and nothing else, so the bill of a
\* call exceeds what the budget knows by at most MaxRetries - 1 requests.
BookedOncePerCall ==
  \A c \in 1..call : (c < call \/ pc = "idle") =>
    /\ Cardinality({r \in booked : r[1] = c}) = 1
    /\ \A r \in booked, a \in 1..MaxRetries :
         r[1] = c /\ a > r[2] => server[<<c, a>>] = "none"

\* "Retrying a 400 only burns time and budget" (openrouter.py:16-18): whatever was followed
\* by another request had met a broken connection or a transient status.
OnlyTransientIsRetried ==
  \A c \in 1..MaxCalls, a, b \in 1..MaxRetries :
    a < b /\ server[<<c, b>>] # "none" => seen[<<c, a>>] \in {"network", "transient"}

\* What is known of a single request: one that was not posted has no history, one that was
\* has an end unless it is awaited, it is booked for a good answer only, and what was not
\* served is not billed.
RequestOK(r) ==
  /\ server[r] = "none" => seen[r] = "none" /\ r \notin billed
  /\ server[r] # "none" => r[1] < call \/ (r[1] = call /\ r[2] <= attempt)
  /\ seen[r] = "none" <=> server[r] = "none" \/ Awaited(r)
  /\ seen[r] = "good" <=> r \in booked
  /\ seen[r] \in Answers => server[r] = seen[r]
  /\ r \in billed => server[r] # "transit"

\* The inductive invariant: with the requests, where the client is in a call, and that a
\* call which was answered has booked a request.
RetryInv ==
  /\ \A r \in Requests : RequestOK(r)
  /\ pc = "posting" => Current \in Requests /\ server[Current] # "none"
  /\ pc = "sleeping" =>
       /\ Current \in Requests /\ attempt < MaxRetries
       /\ seen[Current] \in {"network", "transient"}
  /\ \A c \in 1..call : c < call \/ pc = "idle" => \E r \in booked : r[1] = c

\* The wall clock of the budget is looked at between two calls only (budget.py:125).  What a
\* call can add to it is the doubling waits between its attempts, none after the last one,
\* and a time-out for each attempt and each time one has made progress: the number of
\* attempts alone bounds nothing.
WaitIsBounded ==
  /\ waited \in Nat
  /\ attempt > 0 => waited <= (attempt + progress) * Timeout + Pow2[attempt - 1] - 1

\* Of an answer the tool calls that have a name are kept, in their order, and their ids
\* tell them apart, unless the model gives an id twice, or one that is also made up for a
\* call without.
CallsAreTheModels ==
  LET ids == {i \in DOMAIN raw : raw[i].id # NoId}
      Unambiguous ==
        \A i, j \in DOMAIN raw : i # j /\ i \in ids =>
          raw[i].id # (IF j \in ids THEN raw[j].id ELSE j - 1)
  IN  /\ raw \in Raw /\ parsed \in Seq([id : Nat, entry : Nat \ {0}])
      /\ {parsed[n].entry : n \in DOMAIN parsed} = {i \in DOMAIN raw : raw[i].named}
      /\ \A m, n \in DOMAIN parsed : m < n =>
           /\ parsed[m].entry < parsed[n].entry
           /\ Unambiguous => parsed[m].id # parsed[n].id

\* A call ends, with an answer or without, whether its requests are served, lost or cut
\* off - unless the server keeps it busy for ever.
CallsEnd ==
  (pc \in {"posting", "sleeping"}) ~> (pc \notin {"posting", "sleeping"} \/ KeptBusy)
=============================================================================
