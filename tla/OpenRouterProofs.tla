-------------------------- MODULE OpenRouterProofs --------------------------
(***************************************************************************)
(* Proofs about OpenRouter, for any number of retries and calls, any       *)
(* timeout, and a server that may serve a request late, in parts or never. *)
(***************************************************************************)
EXTENDS OpenRouter, FiniteSetTheorems, WellFoundedInduction, TLAPS

Inv == TypeOK /\ RetryInv /\ OnlyTransientIsRetried

LEMMA InvInit == Init => Inv
<1> SUFFICES ASSUME Init PROVE Inv
  OBVIOUS
<1>1. TypeOK
  BY OpenRouterAssumption DEF Init, TypeOK
<1>2. RetryInv
  BY OpenRouterAssumption DEF Init, RetryInv, RequestOK, Awaited, Answers
<1>3. OnlyTransientIsRetried
  BY DEF Init, OnlyTransientIsRetried, Requests
<1> QED BY <1>1, <1>2, <1>3 DEF Inv

-----------------------------------------------------------------------------
(* Types *)

\* The current request, and the next one of a call, are requests.
LEMMA Numbers ==
  ASSUME TypeOK
  PROVE  /\ call \in Nat /\ attempt \in Nat /\ MaxCalls \in Nat /\ MaxRetries \in Nat
         /\ \A r \in Requests : r = <<r[1], r[2]>> /\ r[1] \in 1..MaxCalls /\ r[2] \in 1..MaxRetries
         /\ \A c \in 1..MaxCalls, a \in 1..MaxRetries : <<c, a>> \in Requests
  BY OpenRouterAssumption DEF TypeOK, Requests

LEMMA TypeStep ==
  ASSUME Inv, [Next]_vars
  PROVE  TypeOK'
<1>1. TypeOK /\ RetryInv
  BY DEF Inv
<1>2. MaxCalls \in Nat /\ MaxRetries \in Nat /\ MaxProgress \in Nat
  BY OpenRouterAssumption
<1> USE <1>1, <1>2
<1>3. CASE Complete
  BY <1>3 DEF TypeOK, Complete, Post
<1>4. CASE NetworkError
  BY <1>4 DEF TypeOK, NetworkError, GiveUp, See, TryAgain, Answers
<1>5. CASE ReceiveStatus
  BY <1>5 DEF TypeOK, ReceiveStatus, Receives, See, TryAgain, Answers
<1>6. CASE ReceiveUnusable
  BY <1>6 DEF TypeOK, ReceiveUnusable, Receives, See, Answers
<1>7. CASE ReceiveAnswer
  <2>1. Current \in Requests
    BY <1>7 DEF ReceiveAnswer, Receives, RetryInv
  <2> QED BY <1>7, <2>1 DEF TypeOK, ReceiveAnswer, Receives, See, Answers
<1>8. CASE Sleep
  <2>1. attempt + 1 \in 0..MaxRetries
    BY <1>8 DEF Sleep, RetryInv, TypeOK
  <2> QED BY <1>8, <2>1 DEF TypeOK, Sleep, Post
<1>9. CASE Cancel
  BY <1>9 DEF TypeOK, Cancel, GiveUp, See, Answers
<1>10. CASE Serve
  BY <1>10 DEF TypeOK, Serve, client
<1>11. CASE UNCHANGED vars
  BY <1>11 DEF TypeOK, vars, client
<1>12. CASE Progress
  BY <1>12 DEF TypeOK, Progress
<1> QED
  BY <1>3, <1>4, <1>5, <1>6, <1>7, <1>8, <1>9, <1>10, <1>11, <1>12 DEF Next, ClientStep

-----------------------------------------------------------------------------
(* Requests *)

\* What a posted request that the client has done with becomes: its history is known, the
\* others are as before.
LEMMA SeenStep ==
  ASSUME Inv, pc = "posting", pc' # "posting",
         NEW what \in {"network", "cancelled"} \cup Answers,
         See(what), UNCHANGED <<call, attempt, billed>>,
         \/ what \in {"network", "cancelled"} /\ GiveUp(what) /\ UNCHANGED booked
         \/ what \in Answers \ {"good"} /\ server[Current] = what /\ UNCHANGED <<server, booked>>
         \/ what = "good" /\ server[Current] = what /\ UNCHANGED server
            /\ booked' = booked \cup {Current}
  PROVE  (\A r \in Requests : RequestOK(r)) '
<1>1. TypeOK /\ RetryInv /\ Current \in Requests /\ server[Current] # "none"
  BY DEF Inv, RetryInv
<1>2. SUFFICES ASSUME NEW r \in Requests PROVE RequestOK(r)'
  OBVIOUS
<1>3. RequestOK(r) /\ RequestOK(Current)
  BY <1>1 DEF RetryInv
<1>4. server \in [Requests -> Answers \cup {"none", "transit", "late"}]
      /\ seen \in [Requests -> Answers \cup {"none", "network", "cancelled"}]
  BY <1>1 DEF TypeOK
<1>5. Current' = Current /\ ~Awaited(r)'
  BY DEF Current, Awaited
<1>6. CASE r = Current
  <2>1. seen'[r] = what /\ Awaited(r) /\ seen[r] = "none" /\ r \notin booked
    BY <1>1, <1>3, <1>4, <1>6 DEF See, RequestOK, Awaited
  <2>2. server'[r] # "none"
    BY <1>1, <1>4, <1>6 DEF GiveUp
  <2>3. r \in billed => server'[r] # "transit"
    BY <1>1, <1>3, <1>4, <1>6 DEF GiveUp, RequestOK
  <2>4. what = "good" <=> r \in booked'
    BY <2>1, <1>6 DEF Answers
  <2>5. what \in Answers => server'[r] = what
    BY <1>6 DEF Answers
  <2>6. r[1] < call \/ (r[1] = call /\ r[2] <= attempt)
    BY <1>1, <1>3, <1>6 DEF RequestOK
  <2>7. what # "none"
    BY DEF Answers
  <2> QED BY <1>5, <2>1, <2>2, <2>3, <2>4, <2>5, <2>6, <2>7 DEF RequestOK
<1>7. CASE r # Current
  <2>1. seen'[r] = seen[r] /\ server'[r] = server[r] /\ (r \in booked' <=> r \in booked)
    BY <1>1, <1>4, <1>7 DEF See, GiveUp
  <2>2. ~Awaited(r)
    BY <1>7 DEF Awaited
  <2> QED BY <1>3, <1>5, <2>1, <2>2 DEF RequestOK
<1> QED BY <1>6, <1>7

\* A request that is posted: it was not before, and is the last.
LEMMA PostStep ==
  ASSUME Inv, pc # "posting", pc' = "posting",
         call' \in 1..MaxCalls, attempt' \in 1..MaxRetries,
         server' = [server EXCEPT ![Current'] = "transit"],
         call' = call + 1 \/ (call' = call /\ attempt' = attempt + 1),
         UNCHANGED <<seen, billed, booked>>
  PROVE  /\ (\A r \in Requests : RequestOK(r)) '
         /\ Current' \in Requests /\ server'[Current'] = "transit"
<1>1. TypeOK /\ RetryInv
  BY DEF Inv
<1>2. call \in Nat /\ attempt \in Nat /\ call' \in Nat /\ attempt' \in Nat
  BY <1>1, Numbers
<1>3. server \in [Requests -> Answers \cup {"none", "transit", "late"}]
  BY <1>1 DEF TypeOK
<1>4. Current' = <<call', attempt'>> /\ Current' \in Requests
  BY DEF Current, Requests
<1>5. server'[Current'] = "transit"
  BY <1>3, <1>4
<1>6. ASSUME NEW r \in Requests PROVE RequestOK(r)'
  <2>1. RequestOK(r) /\ ~Awaited(r)
    BY <1>1 DEF RetryInv, Awaited
  <2>2. r = <<r[1], r[2]>> /\ r[1] \in Nat /\ r[2] \in Nat
    BY <1>1, Numbers
  <2>3. Awaited(r)' <=> r = Current'
    BY DEF Awaited
  <2>4. CASE r = Current'
    <3>1. r[1] = call' /\ r[2] = attempt'
      BY <1>4, <2>4
    <3>2. server[r] = "none"
      BY <1>2, <2>1, <3>1 DEF RequestOK
    <3>3. seen[r] = "none" /\ r \notin billed /\ r \notin booked
      BY <2>1, <3>2 DEF RequestOK
    <3> QED BY <1>2, <1>5, <2>3, <2>4, <3>1, <3>3 DEF RequestOK, Answers
  <2>5. CASE r # Current'
    <3>1. server'[r] = server[r]
      BY <1>3, <1>4, <2>5
    <3>2. r[1] < call \/ (r[1] = call /\ r[2] <= attempt)
          => r[1] < call' \/ (r[1] = call' /\ r[2] <= attempt')
      BY <1>2, <2>2
    <3> QED BY <2>1, <2>3, <2>5, <3>1, <3>2 DEF RequestOK
  <2> QED BY <2>4, <2>5
<1> QED BY <1>4, <1>5, <1>6

\* The two steps that post one.
LEMMA CompletePosts ==
  ASSUME Inv, Complete, MaxRetries # 0
  PROVE  /\ (\A r \in Requests : RequestOK(r)) '
         /\ Current' \in Requests /\ server'[Current'] = "transit"
<1>1. call \in Nat /\ MaxCalls \in Nat /\ MaxRetries \in Nat
  BY Numbers DEF Inv
<1>2. call' = call + 1 /\ attempt' = 1
      /\ server' = [server EXCEPT ![<<call + 1, 1>>] = "transit"]
  BY DEF Complete, Post
<1>3. call' \in 1..MaxCalls /\ attempt' \in 1..MaxRetries
  BY <1>1, <1>2 DEF Complete
<1>4. server' = [server EXCEPT ![Current'] = "transit"]
  BY <1>2 DEF Current
<1>5. pc # "posting" /\ pc' = "posting" /\ UNCHANGED <<seen, billed, booked>>
  BY DEF Complete
<1> QED BY <1>2, <1>3, <1>4, <1>5, PostStep

LEMMA SleepPosts ==
  ASSUME Inv, Sleep
  PROVE  /\ (\A r \in Requests : RequestOK(r)) '
         /\ Current' \in Requests /\ server'[Current'] = "transit"
<1>1. TypeOK /\ attempt \in Nat /\ MaxRetries \in Nat /\ attempt < MaxRetries
      /\ call \in 1..MaxCalls
  BY Numbers DEF Inv, RetryInv, Sleep, Current
<1>2. call' = call /\ attempt' = attempt + 1
      /\ server' = [server EXCEPT ![<<call, attempt + 1>>] = "transit"]
  BY DEF Sleep, Post
<1>3. call' \in 1..MaxCalls /\ attempt' \in 1..MaxRetries
  BY <1>1, <1>2
<1>4. server' = [server EXCEPT ![Current'] = "transit"]
  BY <1>2 DEF Current
<1>5. pc # "posting" /\ pc' = "posting" /\ UNCHANGED <<seen, billed, booked>>
  BY DEF Sleep
<1> QED BY <1>2, <1>3, <1>4, <1>5, PostStep

LEMMA RequestsStep ==
  ASSUME Inv, [Next]_vars
  PROVE  (\A r \in Requests : RequestOK(r)) '
<1>1. TypeOK /\ RetryInv
  BY DEF Inv
<1>2. ASSUME UNCHANGED <<server, seen, billed, booked>>, pc # "posting", pc' # "posting",
             \/ UNCHANGED <<call, attempt>>
             \/ call' = call + 1 /\ attempt' = 0
      PROVE  (\A r \in Requests : RequestOK(r)) '
  <2> SUFFICES ASSUME NEW r \in Requests PROVE RequestOK(r)'
    OBVIOUS
  <2>1. RequestOK(r) /\ ~Awaited(r) /\ ~Awaited(r)'
    BY <1>1, <1>2 DEF RetryInv, Awaited
  <2>2. r[1] \in Nat /\ r[2] \in Nat /\ call \in Nat /\ attempt \in Nat
    BY <1>1, Numbers
  <2> QED BY <1>2, <2>1, <2>2 DEF RequestOK
<1>3. CASE Complete
  <2>1. CASE MaxRetries = 0
    BY <1>2, <1>3, <2>1 DEF Complete
  <2>2. CASE MaxRetries # 0
    BY <1>3, <2>2, CompletePosts
  <2> QED BY <2>1, <2>2
<1>4. CASE NetworkError
  <2>1. GiveUp("network") /\ UNCHANGED <<call, attempt, billed, booked>>
        /\ pc = "posting" /\ pc' # "posting"
    BY <1>4 DEF NetworkError, TryAgain
  <2>2. See("network")
    BY <2>1 DEF GiveUp
  <2> QED BY <2>1, <2>2, SeenStep
<1>5. CASE ReceiveStatus
  BY <1>5, SeenStep DEF ReceiveStatus, Receives, TryAgain, Answers
<1>6. CASE ReceiveUnusable
  BY <1>6, SeenStep DEF ReceiveUnusable, Receives, Answers
<1>7. CASE ReceiveAnswer
  BY <1>7, SeenStep DEF ReceiveAnswer, Receives, Answers
<1>8. CASE Sleep
  BY <1>8, SleepPosts
<1>9. CASE Cancel
  <2>1. CASE pc = "posting"
    <3>1. GiveUp("cancelled") /\ UNCHANGED <<call, attempt, billed, booked>> /\ pc' # "posting"
      BY <1>9, <2>1 DEF Cancel
    <3>2. See("cancelled")
      BY <3>1 DEF GiveUp
    <3> QED BY <2>1, <3>1, <3>2, SeenStep
  <2>2. CASE pc # "posting"
    BY <1>2, <1>9, <2>2 DEF Cancel
  <2> QED BY <2>1, <2>2
<1>10. CASE Serve
  <2> SUFFICES ASSUME NEW r \in Requests PROVE RequestOK(r)'
    OBVIOUS
  <2>1. PICK q \in Requests, what \in Answers \cup {"late"} :
          /\ server[q] = "transit" /\ (what = "late" <=> ~Awaited(q))
          /\ server' = [server EXCEPT ![q] = what]
          /\ \/ billed' = billed \cup {q}
             \/ what # "good" /\ UNCHANGED billed
          /\ UNCHANGED <<client, seen, booked, answer>>
    BY <1>10 DEF Serve
  <2>2. RequestOK(r) /\ (Awaited(r)' <=> Awaited(r)) /\ UNCHANGED <<call, attempt>>
    BY <1>1, <2>1 DEF RetryInv, Awaited, Current, client
  <2>3. server \in [Requests -> Answers \cup {"none", "transit", "late"}]
    BY <1>1 DEF TypeOK
  <2>4. CASE r = q
    <3>1. server'[r] = what /\ what \notin {"none", "transit"}
      BY <2>1, <2>3, <2>4 DEF Answers
    <3>2. seen[r] \notin Answers /\ r \notin billed
      BY <2>1, <2>2, <2>4 DEF RequestOK, Answers
    <3> QED BY <2>1, <2>2, <2>4, <3>1, <3>2 DEF RequestOK
  <2>5. CASE r # q
    <3>1. server'[r] = server[r] /\ (r \in billed' <=> r \in billed)
      BY <2>1, <2>3, <2>5
    <3> QED BY <2>1, <2>2, <3>1 DEF RequestOK
  <2> QED BY <2>4, <2>5
<1>11. CASE Progress \/ UNCHANGED vars
  BY <1>1, <1>11 DEF RetryInv, RequestOK, Awaited, Current, Progress, vars, client
<1> QED
  BY <1>3, <1>4, <1>5, <1>6, <1>7, <1>8, <1>9, <1>10, <1>11 DEF Next, ClientStep

-----------------------------------------------------------------------------
(* The client *)

\* Only what was seen as transient is followed by another request of its call.
LEMMA RetriedStep ==
  ASSUME Inv, [Next]_vars
  PROVE  OnlyTransientIsRetried'
<1>1. TypeOK /\ RetryInv /\ OnlyTransientIsRetried
  BY DEF Inv
<1>2. SUFFICES ASSUME NEW c \in 1..MaxCalls, NEW a \in 1..MaxRetries, NEW b \in 1..MaxRetries,
                      a < b, server'[<<c, b>>] # "none"
               PROVE  seen'[<<c, a>>] \in {"network", "transient"}
  BY DEF OnlyTransientIsRetried
<1>3. /\ call \in Nat /\ attempt \in Nat /\ a \in Nat /\ b \in Nat /\ c \in Nat
      /\ <<c, a>> \in Requests /\ <<c, b>> \in Requests
  BY <1>1, Numbers
<1>4. server \in [Requests -> Answers \cup {"none", "transit", "late"}]
      /\ seen \in [Requests -> Answers \cup {"none", "network", "cancelled"}]
  BY <1>1 DEF TypeOK
<1>5. server[<<c, b>>] # "none" => seen[<<c, a>>] \in {"network", "transient"}
  BY <1>1, <1>2 DEF OnlyTransientIsRetried
<1>6. CASE server[<<c, b>>] # "none"
  \* Such a request is not the current one, whose history alone changes.
  <2>1. RequestOK(<<c, b>>) /\ seen[<<c, a>>] # "none"
    BY <1>1, <1>3, <1>5, <1>6 DEF RetryInv
  <2>2. RequestOK(<<c, a>>) /\ server[<<c, a>>] # "none"
    BY <1>1, <1>3, <2>1 DEF RetryInv, RequestOK
  <2>3. ~Awaited(<<c, a>>)
    BY <2>1, <2>2 DEF RequestOK
  <2>4. ASSUME NEW what, pc = "posting", See(what) PROVE seen'[<<c, a>>] = seen[<<c, a>>]
    BY <1>3, <1>4, <2>3, <2>4 DEF See, Awaited
  <2>5. seen'[<<c, a>>] = seen[<<c, a>>]
    <3>1. CASE Complete \/ Sleep \/ Progress \/ Serve \/ UNCHANGED vars
      BY <3>1 DEF Complete, Sleep, Progress, Serve, vars
    <3>2. CASE NetworkError
      BY <3>2, <2>4 DEF NetworkError, GiveUp
    <3>3. CASE ReceiveStatus \/ ReceiveUnusable \/ ReceiveAnswer
      BY <3>3, <2>4 DEF ReceiveStatus, ReceiveUnusable, ReceiveAnswer, Receives
    <3>4. CASE Cancel
      BY <3>4, <2>4 DEF Cancel, GiveUp
    <3> QED BY <3>1, <3>2, <3>3, <3>4 DEF Next, ClientStep
  <2> QED BY <1>5, <1>6, <2>5
<1>7. CASE server[<<c, b>>] = "none"
  \* It is posted by this step, after the last one of its call.
  <2>1. CASE Sleep
    <3>1. server' = [server EXCEPT ![<<call, attempt + 1>>] = "transit"] /\ UNCHANGED seen
      BY <2>1 DEF Sleep, Post
    <3>2. <<c, b>> = <<call, attempt + 1>>
      BY <1>2, <1>3, <1>4, <1>7, <3>1
    <3>3. c = call /\ b = attempt + 1
      BY <3>2
    <3>4. seen[Current] \in {"network", "transient"} /\ Current \in Requests
      BY <1>1, <2>1 DEF Sleep, RetryInv
    <3>5. CASE a = attempt
      BY <3>1, <3>3, <3>4, <3>5 DEF Current
    <3>6. CASE a # attempt
      <4>1. a < attempt /\ attempt \in 1..MaxRetries
        <5>1. attempt \in 1..MaxRetries /\ attempt \in Nat
          BY <1>1, <3>4, Numbers DEF Current, Requests
        <5> QED BY <1>2, <1>3, <3>3, <3>6, <5>1
      <4>2. RequestOK(<<c, attempt>>) /\ seen[<<c, attempt>>] # "none"
        BY <1>1, <3>3, <3>4 DEF RetryInv, Current
      <4>3. server[<<c, attempt>>] # "none"
        BY <4>2 DEF RequestOK
      <4> QED BY <1>1, <3>1, <4>1, <4>3 DEF OnlyTransientIsRetried
    <3> QED BY <3>5, <3>6
  <2>2. CASE Complete
    <3>1. CASE MaxRetries = 0
      BY <1>2, <3>1
    <3>2. CASE MaxRetries # 0
      <4>1. server' = [server EXCEPT ![<<call + 1, 1>>] = "transit"]
        BY <2>2, <3>2 DEF Complete, Post
      <4>2. b # 1
        BY <1>2, <1>3
      <4>3. <<c, b>> # <<call + 1, 1>>
        BY <4>2
      <4> QED BY <1>2, <1>3, <1>4, <1>7, <4>1, <4>3
    <3> QED BY <3>1, <3>2
  <2>3. CASE Serve
    BY <1>2, <1>3, <1>4, <1>7, <2>3 DEF Serve
  <2>4. CASE NetworkError \/ Cancel
    <3>1. CASE UNCHANGED server
      BY <1>2, <1>7, <3>1
    <3>2. CASE pc = "posting" /\ server' = [server EXCEPT ![Current] = IF @ = "transit" THEN @ ELSE "late"]
      <4>1. server[Current] # "none"
        BY <1>1, <3>2 DEF RetryInv
      <4> QED BY <1>2, <1>3, <1>4, <1>7, <3>2, <4>1
    <3> QED BY <2>4, <3>1, <3>2 DEF NetworkError, Cancel, GiveUp
  <2>5. CASE \/ ReceiveStatus \/ ReceiveUnusable \/ ReceiveAnswer \/ Progress
             \/ UNCHANGED vars
    BY <1>2, <1>7, <2>5
       DEF ReceiveStatus, ReceiveUnusable, ReceiveAnswer, Receives, Progress, vars
  <2> QED BY <2>1, <2>2, <2>3, <2>4, <2>5 DEF Next, ClientStep
<1> QED BY <1>6, <1>7

\* Where the client is.
LEMMA ClientInv ==
  ASSUME Inv, [Next]_vars
  PROVE  /\ (pc = "posting" => Current \in Requests /\ server[Current] # "none")'
         /\ (pc = "sleeping" => /\ Current \in Requests /\ attempt < MaxRetries
                               /\ seen[Current] \in {"network", "transient"})'
         /\ (\A c \in 1..call : c < call \/ pc = "idle" => \E r \in booked : r[1] = c)'
<1>1. TypeOK /\ RetryInv
  BY DEF Inv
<1>2. call \in Nat /\ attempt \in Nat /\ MaxRetries \in Nat
  BY <1>1, Numbers
<1>3. server \in [Requests -> Answers \cup {"none", "transit", "late"}]
      /\ seen \in [Requests -> Answers \cup {"none", "network", "cancelled"}]
  BY <1>1 DEF TypeOK
<1>4. CASE Complete
  <2>1. \A c \in 1..call : \E r \in booked : r[1] = c
    BY <1>1, <1>4 DEF Complete, RetryInv
  <2>2. (\A c \in 1..call : c < call \/ pc = "idle" => \E r \in booked : r[1] = c)'
    <3>1. call' = call + 1 /\ booked' = booked /\ pc' # "idle"
      BY <1>4 DEF Complete
    <3>2. \A c \in 1..call' : c < call' => c \in 1..call
      BY <1>2, <3>1
    <3> QED BY <2>1, <3>1, <3>2
  <2>3. CASE MaxRetries = 0
    BY <1>4, <2>2, <2>3 DEF Complete
  <2>4. CASE MaxRetries # 0
    <3>1. Current' \in Requests /\ server'[Current'] = "transit"
      BY <1>4, <2>4, CompletePosts
    <3>2. pc' = "posting"
      BY <1>4, <2>4 DEF Complete
    <3> QED BY <2>2, <3>1, <3>2
  <2> QED BY <2>3, <2>4
<1>5. CASE Sleep
  <2>2. Current' \in Requests /\ server'[Current'] = "transit"
    BY <1>5, SleepPosts
  <2>3. (\A c \in 1..call : c < call \/ pc = "idle" => \E r \in booked : r[1] = c)'
    BY <1>1, <1>5 DEF Sleep, RetryInv
  <2> QED BY <1>5, <2>2, <2>3 DEF Sleep
<1>6. ASSUME pc = "posting", pc' # "posting", NEW what \in {"network", "cancelled"} \cup Answers,
             See(what), UNCHANGED <<call, attempt>>,
             pc' = "sleeping" => what \in {"network", "transient"} /\ attempt < MaxRetries,
             booked \subseteq booked', pc' = "idle" => Current \in booked'
      PROVE  /\ (pc = "sleeping" => /\ Current \in Requests /\ attempt < MaxRetries
                                   /\ seen[Current] \in {"network", "transient"})'
             /\ (\A c \in 1..call : c < call \/ pc = "idle" => \E r \in booked : r[1] = c)'
  <2>1. Current \in Requests /\ Current' = Current
    BY <1>1, <1>6 DEF RetryInv, Current
  <2>2. seen'[Current] = what
    BY <1>3, <1>6, <2>1 DEF See
  <2>3. ASSUME NEW c \in 1..call', (c < call \/ pc = "idle")' PROVE \E r \in booked' : r[1] = c
    <3>1. c \in 1..call /\ (c < call \/ c = call)
      BY <1>2, <1>6, <2>3
    <3>2. CASE c < call
      BY <1>1, <1>6, <3>1, <3>2 DEF RetryInv
    <3>3. CASE c = call /\ pc' = "idle"
      BY <1>6, <3>3 DEF Current
    <3> QED BY <1>6, <2>3, <3>1, <3>2, <3>3
  <2> QED BY <1>6, <2>1, <2>2, <2>3
<1>7. CASE NetworkError
  BY <1>6, <1>7 DEF NetworkError, GiveUp, TryAgain
<1>8. CASE ReceiveStatus
  BY <1>6, <1>8 DEF ReceiveStatus, Receives, TryAgain, Answers
<1>9. CASE ReceiveUnusable
  BY <1>6, <1>9 DEF ReceiveUnusable, Receives, Answers
<1>10. CASE ReceiveAnswer
  BY <1>6, <1>10 DEF ReceiveAnswer, Receives, Answers
<1>11. CASE Cancel
  <2>1. CASE pc = "posting"
    BY <1>6, <1>11, <2>1 DEF Cancel, GiveUp
  <2>2. CASE pc # "posting"
    BY <1>1, <1>11, <2>2 DEF Cancel, RetryInv
  <2> QED BY <2>1, <2>2
<1>12. CASE Serve
  <2>1. Current' = Current /\ UNCHANGED <<pc, call, attempt, seen, booked>>
    BY <1>12 DEF Serve, client, Current
  <2>2. \A r \in Requests : server[r] # "none" => server'[r] # "none"
    BY <1>3, <1>12 DEF Serve, Answers
  <2> QED BY <1>1, <2>1, <2>2 DEF RetryInv
<1>13. CASE Progress \/ UNCHANGED vars
  BY <1>1, <1>13 DEF RetryInv, Current, Progress, vars, client
<1> QED
  BY <1>4, <1>5, <1>7, <1>8, <1>9, <1>10, <1>11, <1>12, <1>13 DEF Next, ClientStep

LEMMA InvStep ==
  ASSUME Inv, [Next]_vars
  PROVE  Inv'
<1>1. TypeOK' /\ OnlyTransientIsRetried'
  BY TypeStep, RetriedStep
<1>2. RetryInv'
  BY RequestsStep, ClientInv DEF RetryInv
<1> QED BY <1>1, <1>2 DEF Inv

-----------------------------------------------------------------------------
(* Induction over the naturals, and the powers of two *)

Less == {p \in Nat \X Nat : p[1] < p[2]}

LEMMA LeastElement ==
  ASSUME NEW T \in SUBSET Nat, T # {}
  PROVE  \E m \in T : \A k \in T : m <= k
<1>1. IsWellFoundedOn(Less, Nat)
  BY NatLessThanWellFounded DEF OpToRel, Less
<1>2. PICK m \in T : \A k \in T : ~(<<k, m>> \in Less)
  BY <1>1, WFMin
<1>3. ASSUME NEW k \in T PROVE m <= k
  <2>1. ~(<<k, m>> \in Less)
    BY <1>2
  <2>2. m \in Nat /\ k \in Nat
    OBVIOUS
  <2>3. ~(k < m)
    BY <2>1, <2>2 DEF Less
  <2> QED BY <2>2, <2>3
<1> QED BY <1>3

LEMMA Induction ==
  ASSUME NEW S, 0 \in S, \A n \in Nat : n \in S => n + 1 \in S
  PROVE  Nat \subseteq S
<1> SUFFICES ASSUME Nat \ S # {} PROVE FALSE
  OBVIOUS
<1>1. PICK m \in Nat \ S : \A k \in Nat \ S : m <= k
  BY LeastElement
<1>2. m # 0
  OBVIOUS
<1>3. m - 1 \in Nat /\ (m - 1) + 1 = m /\ ~(m <= m - 1)
  BY <1>2
<1>4. m - 1 \in S
  BY <1>1, <1>3
<1> QED BY <1>3, <1>4

\* The equations that define the powers of two, up to n.
Doubles(f, n) == f[0] = 1 /\ \A k \in 1..n : f[k] = 2 * f[k - 1]

LEMMA PowersExist ==
  ASSUME NEW n \in Nat
  PROVE  \E f \in [0..n -> Nat \ {0}] : Doubles(f, n)
<1> DEFINE S == {m \in Nat : \E f \in [0..m -> Nat \ {0}] : Doubles(f, m)}
<1>1. 0 \in S
  <2> DEFINE z == [k \in 0..0 |-> 1]
  <2>1. z \in [0..0 -> Nat \ {0}] /\ Doubles(z, 0)
    BY DEF Doubles
  <2> QED BY <2>1
<1>2. ASSUME NEW m \in Nat, m \in S PROVE m + 1 \in S
  <2>1. PICK f \in [0..m -> Nat \ {0}] : Doubles(f, m)
    BY <1>2
  <2> DEFINE g == [k \in 0..m + 1 |-> IF k = m + 1 THEN 2 * f[m] ELSE f[k]]
  <2>2. g \in [0..m + 1 -> Nat \ {0}] /\ g[0] = 1
    <3>1. f[m] \in Nat \ {0} /\ f[0] = 1
      BY <2>1 DEF Doubles
    <3>2. ASSUME NEW k \in 0..m + 1 PROVE g[k] \in Nat \ {0}
      BY <3>1
    <3> QED BY <3>1, <3>2
  <2>3. ASSUME NEW k \in 1..m + 1 PROVE g[k] = 2 * g[k - 1]
    <3>1. CASE k = m + 1
      <4>1. k - 1 = m /\ m \in 0..m + 1 /\ m # m + 1 /\ k \in 0..m + 1
        BY <3>1
      <4> QED BY <3>1, <4>1
    <3>2. CASE k # m + 1
      <4>1. k \in 1..m /\ k - 1 \in 0..m + 1 /\ k - 1 # m + 1 /\ k \in 0..m + 1
        BY <3>2
      <4>2. f[k] = 2 * f[k - 1]
        BY <2>1, <4>1 DEF Doubles
      <4> QED BY <3>2, <4>1, <4>2
    <3> QED BY <3>1, <3>2
  <2> HIDE DEF g
  <2>4. Doubles(g, m + 1)
    BY <2>2, <2>3 DEF Doubles
  <2> QED BY <2>2, <2>4
<1>3. n \in S
  <2> HIDE DEF S
  <2> QED BY <1>1, <1>2, Induction
<1> QED BY <1>3

\* Pow2 satisfies its equations: its recursion has a solution.
LEMMA Powers ==
  /\ \A a \in 0..MaxRetries : Pow2[a] \in Nat \ {0}
  /\ Pow2[0] = 1
  /\ \A a \in 1..MaxRetries : Pow2[a] = 2 * Pow2[a - 1]
<1> DEFINE h == CHOOSE f : f = [n \in 0..MaxRetries |-> IF n = 0 THEN 1 ELSE 2 * f[n - 1]]
<1>0. MaxRetries \in Nat
  BY OpenRouterAssumption
<1>1. PICK f \in [0..MaxRetries -> Nat \ {0}] : Doubles(f, MaxRetries)
  BY <1>0, PowersExist
<1>2. f = [n \in 0..MaxRetries |-> IF n = 0 THEN 1 ELSE 2 * f[n - 1]]
  <2>1. \A n \in 0..MaxRetries : n # 0 => n \in 1..MaxRetries
    BY <1>0
  <2>2. \A n \in 0..MaxRetries : f[n] = IF n = 0 THEN 1 ELSE 2 * f[n - 1]
    BY <1>1, <2>1 DEF Doubles
  <2> QED BY <1>1, <2>2
<1>3. h = [n \in 0..MaxRetries |-> IF n = 0 THEN 1 ELSE 2 * h[n - 1]]
  BY <1>2
<1>4. Pow2 = h
  BY DEF Pow2
<1> HIDE DEF h
<1>5. h[0] = 1 /\ \A a \in 1..MaxRetries : h[a] = 2 * h[a - 1]
  <2>1. \A n \in 0..MaxRetries : h[n] = IF n = 0 THEN 1 ELSE 2 * h[n - 1]
    BY <1>3
  <2>2. 0 \in 0..MaxRetries /\ \A a \in 1..MaxRetries : a \in 0..MaxRetries /\ a # 0
    BY <1>0
  <2> QED BY <2>1, <2>2
<1> DEFINE S == {n \in Nat : n <= MaxRetries => h[n] \in Nat \ {0}}
<1>6. 0 \in S
  BY <1>5
<1>7. ASSUME NEW n \in Nat, n \in S PROVE n + 1 \in S
  <2> SUFFICES ASSUME n + 1 <= MaxRetries PROVE h[n + 1] \in Nat \ {0}
    OBVIOUS
  <2>1. n <= MaxRetries /\ n + 1 \in 1..MaxRetries /\ (n + 1) - 1 = n
    BY <1>0
  <2>2. h[n] \in Nat \ {0}
    BY <1>7, <2>1
  <2>3. h[n + 1] = 2 * h[n]
    BY <1>5, <2>1
  <2> QED BY <2>2, <2>3
<1>8. Nat \subseteq S
  <2> HIDE DEF S
  <2> QED BY <1>6, <1>7, Induction
<1>9. \A a \in 0..MaxRetries : h[a] \in Nat \ {0}
  BY <1>0, <1>8
<1> QED BY <1>4, <1>5, <1>9

-----------------------------------------------------------------------------
(* How long a call takes *)

\* The most that a call has taken when its request number a waits for the next progress, the
\* call having made p, and when that request is done with.
Before(a, p) == (a - 1 + p) * Timeout + Pow2[a - 1] - 1
After(a, p)  == (a + p) * Timeout + Pow2[a - 1] - 1

\* The inductive invariant.  An attempt has begun, so the clock has not run over After of it;
\* while the attempt is waited for, the time of this wait is still to come.
ClockInv ==
  /\ waited \in Nat
  /\ attempt = 0 => waited = 0
  /\ pc = "posting" => waited <= Before(attempt, progress)
  /\ attempt > 0 => waited <= After(attempt, progress)

LEMMA Clock ==
  ASSUME NEW a \in 1..MaxRetries, NEW p \in Nat
  PROVE  /\ Before(a, p) \in Nat /\ After(a, p) \in Nat /\ Timeout \in Nat
         /\ After(a, p) = Before(a, p) + Timeout
         /\ Before(a, p + 1) = After(a, p)
         /\ a = 1 /\ p = 0 => Before(a, p) = 0
         /\ a < MaxRetries => /\ Pow2[a - 1] \in Nat
                              /\ Before(a + 1, p) = After(a, p) + Pow2[a - 1]
<1>1. MaxRetries \in Nat /\ Timeout \in Nat
  BY OpenRouterAssumption
<1>2. a \in Nat /\ a - 1 \in Nat /\ a - 1 \in 0..MaxRetries /\ (a + 1) - 1 = a
  BY <1>1
<1>3. Pow2[a - 1] \in Nat \ {0}
  BY <1>2, Powers
<1>4. /\ (a - 1 + p) * Timeout \in Nat
      /\ (a + p) * Timeout = (a - 1 + p) * Timeout + Timeout
      /\ a - 1 + (p + 1) = a + p
  BY <1>1, <1>2
<1>5. /\ Before(a, p) \in Nat /\ After(a, p) \in Nat
      /\ After(a, p) = Before(a, p) + Timeout
      /\ Before(a, p + 1) = After(a, p)
  <2> DEFINE x == (a - 1 + p) * Timeout
             y == (a + p) * Timeout
             q == Pow2[a - 1]
  <2>1. x \in Nat /\ y = x + Timeout /\ q \in Nat \ {0}
    BY <1>3, <1>4
  <2>2. Before(a, p) = x + q - 1 /\ After(a, p) = y + q - 1
    BY DEF Before, After
  <2>3. Before(a, p + 1) = y + q - 1
    BY <1>4 DEF Before
  <2> HIDE DEF x, y, q
  <2> QED BY <1>1, <2>1, <2>2, <2>3
<1>6. a = 1 /\ p = 0 => Before(a, p) = 0
  <2> SUFFICES ASSUME a = 1, p = 0 PROVE Before(1, 0) = 0
    OBVIOUS
  <2>1. (1 - 1 + 0) * Timeout = 0 /\ Pow2[0] = 1 /\ 1 - 1 = 0
    BY <1>1, Powers
  <2> QED BY <2>1 DEF Before
<1>7. Pow2[a] = 2 * Pow2[a - 1]
  BY Powers
<1>8. Before(a + 1, p) = After(a, p) + Pow2[a - 1]
  <2>1. Before(a + 1, p) = (a + p) * Timeout + Pow2[a] - 1
    BY <1>2 DEF Before
  <2>2. (a + p) * Timeout \in Nat
    BY <1>1, <1>2
  <2> QED BY <1>3, <1>7, <2>1, <2>2 DEF After
<1> QED BY <1>1, <1>3, <1>5, <1>6, <1>8

\* A wait, which ends the attempt or its next part.
LEMMA ClockAwait ==
  ASSUME Inv, ClockInv, pc = "posting", attempt' = attempt, Await,
         \/ pc' # "posting" /\ progress' = progress
         \/ progress' = progress + 1
  PROVE  ClockInv'
<1>1. attempt \in 1..MaxRetries /\ MaxRetries \in Nat /\ progress \in Nat
  BY OpenRouterAssumption DEF Inv, TypeOK, RetryInv, Current, Requests
<1>2. waited \in Nat /\ waited <= Before(attempt, progress)
  BY DEF ClockInv
<1>3. waited' = waited \/ waited' = waited + Timeout
  BY <1>2, OpenRouterAssumption DEF Await
<1> DEFINE b == Before(attempt, progress)
           z == After(attempt, progress)
           y == After(attempt, progress + 1)
<1>4. b \in Nat /\ Timeout \in Nat /\ z = b + Timeout
  BY <1>1, Clock
<1>5. waited <= b
  BY <1>2
<1>6. Before(attempt, progress + 1) = z
  BY <1>1, Clock
<1>7. y \in Nat /\ y = Before(attempt, progress + 1) + Timeout
  <2>1. progress + 1 \in Nat
    BY <1>1
  <2> QED BY <1>1, <2>1, Clock
<1> HIDE DEF b, z, y
<1>8. waited' \in Nat /\ waited' <= z /\ waited' <= y /\ attempt' # 0
  BY <1>1, <1>2, <1>3, <1>4, <1>5, <1>6, <1>7
<1>9. CASE pc' # "posting" /\ progress' = progress
  <2>1. After(attempt, progress)' = z
    BY <1>9 DEF After, z
  <2> QED BY <1>8, <1>9, <2>1 DEF ClockInv
<1>10. CASE progress' = progress + 1
  <2>1. After(attempt, progress)' = y
    BY <1>10 DEF After, y
  <2>2. Before(attempt, progress)' = z
    BY <1>6, <1>10 DEF Before
  <2> QED BY <1>8, <2>1, <2>2 DEF ClockInv
<1> QED BY <1>9, <1>10

LEMMA ClockStep ==
  ASSUME Inv, ClockInv, [Next]_vars
  PROVE  ClockInv'
<1>1. CASE Complete
  <2>1. CASE MaxRetries = 0
    BY <1>1, <2>1 DEF Complete, ClockInv
  <2>2. CASE MaxRetries # 0
    <3>1. waited' = 0 /\ progress' = 0 /\ attempt' = 1 /\ 1 \in 1..MaxRetries
      BY <1>1, <2>2, OpenRouterAssumption DEF Complete, Post
    <3>2. Before(1, 0) = 0 /\ After(1, 0) \in Nat
      BY <3>1, Clock
    <3>3. Before(attempt, progress)' = Before(1, 0) /\ After(attempt, progress)' = After(1, 0)
      BY <3>1 DEF Before, After
    <3> QED BY <3>1, <3>2, <3>3 DEF ClockInv
  <2> QED BY <2>1, <2>2
<1>2. CASE NetworkError
  BY <1>2, ClockAwait DEF NetworkError, TryAgain
<1>3. CASE ReceiveStatus
  BY <1>3, ClockAwait DEF ReceiveStatus, Receives, TryAgain
<1>4. CASE ReceiveUnusable
  BY <1>4, ClockAwait DEF ReceiveUnusable, Receives
<1>5. CASE ReceiveAnswer
  BY <1>5, ClockAwait DEF ReceiveAnswer, Receives
<1>6. CASE Sleep
  <2>1. /\ attempt \in 1..MaxRetries /\ attempt < MaxRetries /\ MaxRetries \in Nat
        /\ progress \in Nat
    BY <1>6, OpenRouterAssumption DEF Sleep, Inv, TypeOK, RetryInv, Current, Requests
  <2>2. /\ waited' = waited + Pow2[attempt - 1] /\ attempt' = attempt + 1
        /\ pc' = "posting" /\ progress' = progress
    BY <1>6 DEF Sleep, Post
  <2> DEFINE z == After(attempt, progress)
             p == Pow2[attempt - 1]
             n == attempt + 1
  <2>3. waited \in Nat /\ waited <= z
    BY <2>1 DEF ClockInv
  <2>4. z \in Nat /\ p \in Nat /\ Before(n, progress) = z + p /\ n \in 1..MaxRetries /\ n # 0
    BY <2>1, Clock
  <2>5. waited' = waited + p /\ attempt' = n /\ progress' = progress
    BY <2>2
  <2> HIDE DEF z, p, n
  <2>6. After(n, progress) = Before(n, progress) + Timeout /\ Timeout \in Nat
    BY <2>1, <2>4, Clock
  <2>7. /\ waited' \in Nat /\ waited' <= Before(n, progress)
        /\ waited' <= After(n, progress)
    BY <2>3, <2>4, <2>5, <2>6
  <2>8. /\ Before(attempt, progress)' = Before(n, progress)
        /\ After(attempt, progress)' = After(n, progress)
    BY <2>5 DEF Before, After
  <2> QED BY <2>4, <2>5, <2>7, <2>8 DEF ClockInv
<1>7. CASE Cancel \/ Serve \/ UNCHANGED vars
  <2>1. UNCHANGED <<attempt, waited, progress>> /\ (pc' = "posting" => pc = "posting")
    BY <1>7 DEF Cancel, Serve, vars, client
  <2>2. /\ Before(attempt, progress)' = Before(attempt, progress)
        /\ After(attempt, progress)' = After(attempt, progress)
    BY <2>1 DEF Before, After
  <2> QED BY <2>1, <2>2 DEF ClockInv
<1>8. CASE Progress
  BY <1>8, ClockAwait DEF Progress
<1> QED BY <1>1, <1>2, <1>3, <1>4, <1>5, <1>6, <1>7, <1>8 DEF Next, ClientStep

-----------------------------------------------------------------------------
(* The elements of a finite set of numbers, in their order *)

Low(P, i)  == {j \in P : j <= i}
Rank(P, i) == Cardinality(Low(P, i))

LEMMA Bounds ==
  ASSUME NEW k \in Nat, NEW P \in SUBSET (1..k)
  PROVE  \A j \in P : j \in Nat /\ 1 <= j /\ j <= k
<1> SUFFICES ASSUME NEW j \in P PROVE j \in Nat /\ 1 <= j /\ j <= k
  OBVIOUS
<1>1. j \in 1..k
  OBVIOUS
<1> QED BY <1>1

LEMMA LowIsFinite ==
  ASSUME NEW k \in Nat, NEW P \in SUBSET (1..k)
  PROVE  /\ IsFiniteSet(P) /\ Cardinality(P) \in Nat
         /\ \A i : IsFiniteSet(Low(P, i)) /\ Rank(P, i) \in Nat /\ Rank(P, i) <= Cardinality(P)
<1>1. IsFiniteSet(1..k)
  BY FS_Interval
<1>2. IsFiniteSet(P) /\ Cardinality(P) \in Nat
  BY <1>1, FS_Subset, FS_CardinalityType
<1>3. ASSUME NEW i
      PROVE  IsFiniteSet(Low(P, i)) /\ Rank(P, i) \in Nat /\ Rank(P, i) <= Cardinality(P)
  <2>1. Low(P, i) \in SUBSET P
    BY DEF Low
  <2> QED BY <1>2, <2>1, FS_Subset, FS_CardinalityType DEF Rank
<1> QED BY <1>2, <1>3

\* Ranks grow, from one element to the next.
LEMMA RankGrows ==
  ASSUME NEW k \in Nat, NEW P \in SUBSET (1..k), NEW i \in Nat, NEW j \in P, i < j
  PROVE  Rank(P, i) < Rank(P, j)
<1>1. /\ IsFiniteSet(Low(P, i)) /\ IsFiniteSet(Low(P, j))
      /\ Rank(P, i) \in Nat /\ Rank(P, j) \in Nat
  BY LowIsFinite
<1>2. j \in Nat /\ \A x \in P : x \in Nat
  BY Bounds
<1>3. j \notin Low(P, i) /\ Low(P, i) \cup {j} \in SUBSET Low(P, j)
  <2>1. ~(j <= i) /\ j <= j /\ \A x \in P : x <= i => x <= j
    BY <1>2
  <2>2. j \notin Low(P, i) /\ j \in Low(P, j)
    BY <2>1 DEF Low
  <2>3. \A x \in Low(P, i) : x \in Low(P, j)
    BY <2>1 DEF Low
  <2> QED BY <2>2, <2>3
<1>4. Cardinality(Low(P, i) \cup {j}) = Rank(P, i) + 1
  BY <1>1, <1>3, FS_AddElement DEF Rank
<1>5. Cardinality(Low(P, i) \cup {j}) <= Rank(P, j)
  BY <1>1, <1>3, FS_Subset DEF Rank
<1> QED BY <1>1, <1>4, <1>5

\* The rank of an element is one of the first numbers, and each of these is a rank.
LEMMA RankOfElement ==
  ASSUME NEW k \in Nat, NEW P \in SUBSET (1..k), NEW i \in P
  PROVE  Rank(P, i) \in 1..Cardinality(P)
<1>1. Rank(P, i) \in Nat /\ Rank(P, 0) \in Nat /\ Rank(P, i) <= Cardinality(P)
      /\ Cardinality(P) \in Nat
  BY LowIsFinite
<1>2. Rank(P, 0) < Rank(P, i)
  <2>1. 0 < i /\ 0 \in Nat
    OBVIOUS
  <2> QED BY <2>1, RankGrows
<1> QED BY <1>1, <1>2

LEMMA RankOnto ==
  ASSUME NEW k \in Nat, NEW P \in SUBSET (1..k), NEW n \in 1..Cardinality(P)
  PROVE  \E i \in P : Rank(P, i) = n
<1>0. \A j \in P : j \in Nat /\ 1 <= j /\ j <= k
  BY Bounds
<1> DEFINE S == {m \in Nat : \A r \in 1..Rank(P, m) : \E i \in P : Rank(P, i) = r}
<1>1. 0 \in S
  <2>1. Low(P, 0) = {}
    <3>1. \A x \in P : ~(x <= 0)
      BY <1>0
    <3> QED BY <3>1 DEF Low
  <2>2. Rank(P, 0) = 0
    BY <2>1, FS_EmptySet DEF Rank
  <2> QED BY <2>2
<1>2. ASSUME NEW m \in Nat, m \in S PROVE m + 1 \in S
  <2>1. IsFiniteSet(Low(P, m)) /\ Rank(P, m) \in Nat
    BY LowIsFinite
  <2>2. CASE m + 1 \in P
    <3>1. Low(P, m + 1) = Low(P, m) \cup {m + 1} /\ m + 1 \notin Low(P, m)
      <4>1. \A j \in P : j <= m + 1 <=> j <= m \/ j = m + 1
        BY <1>0
      <4>2. ~(m + 1 <= m)
        OBVIOUS
      <4>3. m + 1 \notin Low(P, m)
        BY <4>2 DEF Low
      <4>4. Low(P, m + 1) = Low(P, m) \cup {m + 1}
        BY <2>2, <4>1 DEF Low
      <4> QED BY <4>3, <4>4
    <3>2. Rank(P, m + 1) = Rank(P, m) + 1
      BY <2>1, <3>1, FS_AddElement DEF Rank
    <3> SUFFICES ASSUME NEW r \in 1..Rank(P, m + 1) PROVE \E i \in P : Rank(P, i) = r
      OBVIOUS
    <3>3. r = Rank(P, m + 1) \/ r \in 1..Rank(P, m)
      BY <2>1, <3>2
    <3> QED BY <1>2, <2>2, <3>3
  <2>3. CASE m + 1 \notin P
    <3>1. Low(P, m + 1) = Low(P, m)
      <4>1. \A j \in P : j <= m + 1 <=> j <= m
        BY <1>0, <2>3
      <4> QED BY <4>1 DEF Low
    <3> QED BY <1>2, <3>1 DEF Rank
  <2> QED BY <2>2, <2>3
<1>3. k \in S
  <2> HIDE DEF S
  <2> QED BY <1>1, <1>2, Induction
<1>4. Low(P, k) = P
  BY <1>0 DEF Low
<1> QED BY <1>3, <1>4 DEF Rank

-----------------------------------------------------------------------------
(* The tool calls of an answer *)

\* The entry that becomes the n-th tool call.
EntryOf(list, n) ==
  CHOOSE i \in Positions(list) : Cardinality({j \in Positions(list) : j <= i}) = n

LEMMA EntryFacts ==
  ASSUME NEW list \in Raw
  PROVE  LET P == Positions(list) IN
         /\ \E k \in Nat : DOMAIN list = 1..k
         /\ \A i \in DOMAIN list : i \in Nat \ {0} /\ list[i] \in Entry
         /\ Cardinality(P) \in Nat
         /\ \A n \in 1..Cardinality(P) : EntryOf(list, n) \in P /\ Rank(P, EntryOf(list, n)) = n
<1> DEFINE P == Positions(list)
<1>1. PICK k \in 0..MaxEntries : list \in [1..k -> Entry]
  BY DEF Raw
<1>2. k \in Nat /\ DOMAIN list = 1..k /\ \A i \in DOMAIN list : i \in Nat \ {0} /\ list[i] \in Entry
  BY <1>1, OpenRouterAssumption
<1>3. P \in SUBSET (1..k)
  BY <1>2 DEF Positions
<1>4. \A n : EntryOf(list, n) = CHOOSE i \in P : Rank(P, i) = n
  BY DEF EntryOf, Rank, Low
<1> HIDE DEF P
<1>5. Cardinality(P) \in Nat
  BY <1>2, <1>3, LowIsFinite
<1>6. ASSUME NEW n \in 1..Cardinality(P)
      PROVE  EntryOf(list, n) \in P /\ Rank(P, EntryOf(list, n)) = n
  <2>1. \E i \in P : Rank(P, i) = n
    BY <1>2, <1>3, RankOnto
  <2> QED BY <1>4, <2>1
<1>7. /\ \E m \in Nat : DOMAIN list = 1..m
      /\ \A n \in 1..Cardinality(P) : EntryOf(list, n) \in P /\ Rank(P, EntryOf(list, n)) = n
  BY <1>2, <1>6
<1> QED BY <1>2, <1>5, <1>7 DEF P

\* They are taken in their order, and each one is.
LEMMA EntriesInOrder ==
  ASSUME NEW list \in Raw
  PROVE  LET c == Cardinality(Positions(list)) IN
         /\ \A m, n \in 1..c : m < n => EntryOf(list, m) < EntryOf(list, n)
         /\ {EntryOf(list, n) : n \in 1..c} = Positions(list)
<1> DEFINE P == Positions(list)
           c == Cardinality(P)
<1>1. PICK k \in Nat : DOMAIN list = 1..k
  BY EntryFacts
<1>2. P \in SUBSET (1..k) /\ \A i \in P : i \in Nat
  BY <1>1 DEF Positions
<1>3. c \in Nat /\ \A n \in 1..c : EntryOf(list, n) \in P /\ Rank(P, EntryOf(list, n)) = n
  BY EntryFacts
<1> HIDE DEF P, c
<1>4. \A i, j \in P : i < j => Rank(P, i) < Rank(P, j)
  BY <1>2, RankGrows
<1>5. \A i \in P : Rank(P, i) \in Nat
  BY <1>2, LowIsFinite
<1>6. ASSUME NEW m \in 1..c, NEW n \in 1..c, m < n PROVE EntryOf(list, m) < EntryOf(list, n)
  <2> DEFINE i == EntryOf(list, m)
             j == EntryOf(list, n)
  <2>1. i \in P /\ j \in P /\ Rank(P, i) = m /\ Rank(P, j) = n
    BY <1>3
  <2> HIDE DEF i, j
  <2>2. ~(j < i) /\ j # i
    BY <1>3, <1>4, <1>6, <2>1
  <2>3. i < j
    BY <1>2, <2>1, <2>2
  <2> QED BY <2>3 DEF i, j
<1>7. ASSUME NEW i \in P PROVE \E n \in 1..c : EntryOf(list, n) = i
  <2> DEFINE n == Rank(P, i)
             j == EntryOf(list, n)
  <2>1. n \in 1..c
    BY <1>2, RankOfElement DEF c
  <2>2. j \in P /\ Rank(P, j) = n
    BY <1>3, <2>1
  <2>3. n \in Nat /\ Rank(P, i) = n
    BY <1>5
  <2> HIDE DEF n, j
  <2>4. j = i
    BY <1>2, <1>4, <2>2, <2>3
  <2> QED BY <2>1, <2>4 DEF j
<1>8. {EntryOf(list, n) : n \in 1..c} = P
  BY <1>3, <1>7
<1> QED BY <1>6, <1>8 DEF c, P

\* What _parse_tool_calls returns, call by call.
LEMMA ToolCalls ==
  ASSUME NEW list \in Raw
  PROVE  LET c == Cardinality(Positions(list))
             p == ParseToolCalls(list)
         IN  /\ c \in Nat
             /\ p = [n \in 1..c |-> ToolCall(list, EntryOf(list, n))]
             /\ p \in Seq([id : Nat, entry : Nat \ {0}])
             /\ DOMAIN p = 1..c
             /\ \A n \in 1..c : /\ p[n].entry = EntryOf(list, n)
                                /\ p[n].id = CallId(list, EntryOf(list, n))
                                /\ EntryOf(list, n) \in DOMAIN list
<1> DEFINE c == Cardinality(Positions(list))
           p == ParseToolCalls(list)
<1>1. p = [n \in 1..c |-> ToolCall(list, EntryOf(list, n))]
  BY DEF ParseToolCalls, EntryOf
<1>2. c \in Nat /\ \A n \in 1..c : EntryOf(list, n) \in Positions(list)
  BY EntryFacts
<1>3. \A i \in DOMAIN list : i \in Nat \ {0} /\ list[i] \in Entry
  BY EntryFacts
<1> HIDE DEF p, c
<1>4. \A i \in Positions(list) : i \in DOMAIN list
  BY DEF Positions
<1>5. ASSUME NEW i \in DOMAIN list
      PROVE  ToolCall(list, i) \in [id : Nat, entry : Nat \ {0}]
  <2>1. list[i].id \in GivenIds \cup {NoId} /\ i \in Nat /\ i - 1 \in Nat /\ GivenIds \subseteq Nat
    BY <1>3, OpenRouterAssumption DEF Entry
  <2>2. CallId(list, i) \in Nat
    BY <2>1 DEF CallId
  <2> QED BY <1>3, <2>2 DEF ToolCall
<1>6. p \in [1..c -> [id : Nat, entry : Nat \ {0}]]
  BY <1>1, <1>2, <1>4, <1>5
<1>7. p \in Seq([id : Nat, entry : Nat \ {0}])
  <2> DEFINE T == [id : Nat, entry : Nat \ {0}]
  <2>1. p \in [1..c -> T]
    BY <1>6
  <2> HIDE DEF T
  <2>2. p \in Seq(T)
    BY <1>2, <2>1
  <2> QED BY <2>2 DEF T
<1>8. \A n \in 1..c : /\ p[n].entry = EntryOf(list, n) /\ p[n].id = CallId(list, EntryOf(list, n))
                      /\ EntryOf(list, n) \in DOMAIN list
  BY <1>1, <1>2, <1>4 DEF ToolCall
<1>9. DOMAIN p = 1..c
  BY <1>1
<1> QED BY <1>1, <1>2, <1>7, <1>8, <1>9 DEF c, p

\* The inductive invariant: what is parsed is what the last answer asked for.
AnswerInv == raw \in Raw /\ parsed = ParseToolCalls(raw)

LEMMA NothingParsed == <<>> \in Raw /\ ParseToolCalls(<<>>) = <<>>
<1>1. <<>> \in Raw
  <2>1. 0 \in 0..MaxEntries /\ <<>> \in [1..0 -> Entry]
    BY OpenRouterAssumption
  <2> QED BY <2>1 DEF Raw
<1>2. Positions(<<>>) = {}
  BY DEF Positions
<1>3. Cardinality(Positions(<<>>)) = 0
  BY <1>2, FS_EmptySet
<1>4. ParseToolCalls(<<>>) = [n \in 1..0 |-> ToolCall(<<>>, EntryOf(<<>>, n))]
  BY <1>1, <1>3, ToolCalls
<1> QED BY <1>1, <1>4

LEMMA AnswerStep ==
  ASSUME AnswerInv, [Next]_vars
  PROVE  AnswerInv'
<1>1. CASE Complete
  BY <1>1, NothingParsed DEF Complete, AnswerInv
<1>2. CASE ReceiveAnswer
  BY <1>2 DEF ReceiveAnswer, AnswerInv
<1>3. CASE UNCHANGED answer
  BY <1>3 DEF AnswerInv, answer
<1>4. CASE \/ NetworkError \/ ReceiveStatus \/ ReceiveUnusable \/ Sleep
           \/ Progress \/ Cancel \/ Serve \/ UNCHANGED vars
  BY <1>3, <1>4
     DEF NetworkError, ReceiveStatus, ReceiveUnusable, Sleep, Progress, Cancel, Serve, vars
<1> QED BY <1>1, <1>2, <1>4 DEF Next, ClientStep

-----------------------------------------------------------------------------
(* Theorems *)

\* RetryInv holds in every reachable state.
THEOREM RetryInvariant == Spec => [](TypeOK /\ RetryInv)
<1>1. Inv => TypeOK /\ RetryInv
  BY DEF Inv
<1> QED BY InvInit, InvStep, <1>1, PTL DEF Spec

\* Only what was seen as transient is tried again.
THEOREM RetriesAreJustified == Spec => []OnlyTransientIsRetried
<1>1. Inv => OnlyTransientIsRetried
  BY DEF Inv
<1> QED BY InvInit, InvStep, <1>1, PTL DEF Spec

\* Nothing good is thrown away: who was billed for what was not booked gave it up, could not
\* use it, or is waiting for it.
THEOREM NothingGoodIsLost == Spec => []UnbookedHasACause
<1>1. ASSUME Inv PROVE UnbookedHasACause
  <2>1. TypeOK /\ RetryInv
    BY <1>1 DEF Inv
  <2>2. ASSUME NEW r \in billed, r \notin booked
        PROVE  \/ seen[r] \in {"network", "cancelled", "transient", "fatal", "broken", "malformed"}
               \/ Awaited(r)
    <3>1. r \in Requests /\ RequestOK(r)
      BY <2>1, <2>2 DEF TypeOK, RetryInv
    <3>2. seen[r] \in Answers \cup {"none", "network", "cancelled"}
      BY <2>1, <3>1 DEF TypeOK
    <3> QED BY <2>2, <3>1, <3>2 DEF RequestOK, Answers
  <2> QED BY <2>2 DEF UnbookedHasACause
<1> QED BY InvInit, InvStep, <1>1, PTL DEF Spec

\* A call that was answered has booked one request, and no request follows it.
THEOREM CallsAreBookedOnce == Spec => []BookedOncePerCall
<1>1. ASSUME Inv PROVE BookedOncePerCall
  <2>1. TypeOK /\ RetryInv /\ OnlyTransientIsRetried
    BY <1>1 DEF Inv
  <2>2. ASSUME NEW r \in booked, NEW a \in 1..MaxRetries, a > r[2]
        PROVE  server[<<r[1], a>>] = "none"
    <3>1. /\ r \in Requests /\ RequestOK(r) /\ r = <<r[1], r[2]>>
          /\ r[1] \in 1..MaxCalls /\ r[2] \in 1..MaxRetries
      BY <2>1, Numbers DEF TypeOK, RetryInv
    <3>2. seen[r] = "good" /\ r[2] < a
      BY <2>2, <3>1, Numbers, <2>1 DEF RequestOK
    <3> QED BY <2>1, <3>1, <3>2 DEF OnlyTransientIsRetried
  <2>3. ASSUME NEW r \in booked, NEW q \in booked, r[1] = q[1] PROVE r = q
    <3>1. /\ RequestOK(r) /\ r = <<r[1], r[2]>> /\ r[2] \in Nat /\ r[2] \in 1..MaxRetries
          /\ RequestOK(q) /\ q = <<q[1], q[2]>> /\ q[2] \in Nat /\ q[2] \in 1..MaxRetries
      BY <2>1, Numbers DEF TypeOK, RetryInv
    <3>2. server[r] # "none" /\ server[q] # "none"
      BY <3>1 DEF RequestOK, Answers
    <3>3. ~(q[2] > r[2])
      <4> SUFFICES ASSUME q[2] > r[2] PROVE server[q] = "none"
        BY <3>2
      <4>1. server[<<r[1], q[2]>>] = "none"
        BY <2>2, <3>1
      <4> QED BY <2>3, <3>1, <4>1
    <3>4. ~(r[2] > q[2])
      <4> SUFFICES ASSUME r[2] > q[2] PROVE server[r] = "none"
        BY <3>2
      <4>1. server[<<q[1], r[2]>>] = "none"
        BY <2>2, <3>1
      <4> QED BY <2>3, <3>1, <4>1
    <3>5. r[2] = q[2]
      BY <3>1, <3>3, <3>4
    <3> QED BY <2>3, <3>1, <3>5
  <2>4. ASSUME NEW c \in 1..call, c < call \/ pc = "idle"
        PROVE  Cardinality({r \in booked : r[1] = c}) = 1
    <3>1. PICK r \in booked : r[1] = c
      BY <2>1, <2>4 DEF RetryInv
    <3>2. {q \in booked : q[1] = c} = {r}
      BY <2>3, <3>1
    <3> QED BY <3>2, FS_Singleton
  <2>5. ASSUME NEW c \in 1..call, NEW r \in booked, NEW a \in 1..MaxRetries, r[1] = c, a > r[2]
        PROVE  server[<<c, a>>] = "none"
    BY <2>2, <2>5
  <2> QED BY <2>4, <2>5 DEF BookedOncePerCall
<1> QED BY InvInit, InvStep, <1>1, PTL DEF Spec

\* A call takes no longer than the doubling waits between its attempts, and a time-out for
\* each attempt and for each time one makes progress: httpx bounds the silence of a server
\* and not a request (openrouter.py:101).
THEOREM WaitsAreBounded == Spec => []WaitIsBounded
<1>1. Init => ClockInv
  BY DEF Init, ClockInv
<1>2. ClockInv => WaitIsBounded
  BY DEF ClockInv, WaitIsBounded, After
<1> QED BY InvInit, InvStep, ClockStep, <1>1, <1>2, PTL DEF Spec

\* The tool calls are the named entries of the answer, in their order, and their ids tell
\* them apart unless the model's own ids collide.
THEOREM CallsAreParsed == Spec => []CallsAreTheModels
<1>1. Init => AnswerInv
  BY NothingParsed DEF Init, AnswerInv
<1>2. ASSUME AnswerInv PROVE CallsAreTheModels
  <2> DEFINE list == raw
             p    == parsed
             c    == Cardinality(Positions(list))
  <2>1. list \in Raw /\ p = ParseToolCalls(list)
    BY <1>2 DEF AnswerInv
  <2> HIDE DEF list, p
  <2>2. /\ p \in Seq([id : Nat, entry : Nat \ {0}]) /\ DOMAIN p = 1..c /\ c \in Nat
        /\ \A n \in 1..c : /\ p[n].entry = EntryOf(list, n)
                           /\ p[n].id = CallId(list, EntryOf(list, n))
                           /\ EntryOf(list, n) \in DOMAIN list
    BY <2>1, ToolCalls
  <2>3. /\ \A m, n \in 1..c : m < n => EntryOf(list, m) < EntryOf(list, n)
        /\ {EntryOf(list, n) : n \in 1..c} = Positions(list)
    BY <2>1, EntriesInOrder
  <2>4. \A i \in DOMAIN list : i \in Nat
    BY <2>1, EntryFacts
  <2> HIDE DEF c
  <2>5. {p[n].entry : n \in DOMAIN p} = {i \in DOMAIN list : list[i].named}
    BY <2>2, <2>3 DEF Positions
  <2> DEFINE ids == {i \in DOMAIN list : list[i].id # NoId}
             Unambiguous == \A i, j \in DOMAIN list : i # j /\ i \in ids =>
                              list[i].id # (IF j \in ids THEN list[j].id ELSE j - 1)
  <2>6. ASSUME NEW m \in DOMAIN p, NEW n \in DOMAIN p, m < n
        PROVE  p[m].entry < p[n].entry /\ (Unambiguous => p[m].id # p[n].id)
    <3> DEFINE i == EntryOf(list, m)
               j == EntryOf(list, n)
    <3>1. /\ i \in DOMAIN list /\ j \in DOMAIN list /\ i < j
          /\ p[m].entry = i /\ p[n].entry = j
          /\ p[m].id = CallId(list, i) /\ p[n].id = CallId(list, j)
      BY <2>2, <2>3, <2>6
    <3> HIDE DEF i, j
    <3>2. i \in Nat /\ j \in Nat /\ i # j
      BY <2>4, <3>1
    <3>3. ASSUME Unambiguous PROVE CallId(list, i) # CallId(list, j)
      <4>1. CASE i \in ids
        <5>1. list[i].id # (IF j \in ids THEN list[j].id ELSE j - 1)
          BY <3>1, <3>2, <3>3, <4>1
        <5> QED BY <3>1, <4>1, <5>1 DEF CallId
      <4>2. CASE i \notin ids /\ j \in ids
        <5>1. list[j].id # i - 1
          BY <3>1, <3>2, <3>3, <4>2
        <5> QED BY <3>1, <4>2, <5>1 DEF CallId
      <4>3. CASE i \notin ids /\ j \notin ids
        BY <3>1, <3>2, <4>3 DEF CallId
      <4> QED BY <4>1, <4>2, <4>3
    <3> QED BY <3>1, <3>3
  <2> QED BY <2>1, <2>2, <2>5, <2>6 DEF CallsAreTheModels, list, p
<1> QED BY AnswerStep, <1>1, <1>2, PTL DEF Spec
-----------------------------------------------------------------------------
(* The end of a call: what CallsEnd rests on, apart from fairness.  A call *)
(* takes at most 2 * MaxRetries + 1 steps of the client.                   *)

\* The steps the current call has left, and with them those of the whole run.
CallLeft ==
  IF pc = "posting" THEN 2 * (MaxRetries - attempt) + 2
  ELSE IF pc = "sleeping" THEN 2 * (MaxRetries - attempt) + 1
  ELSE 0
ClientLeft == (MaxCalls - call) * (2 * MaxRetries + 1) + CallLeft

LEMMA OneCallLess ==
  ASSUME NEW m \in Nat, NEW n \in Nat, n <= m, NEW k \in Nat
  PROVE  (m - n) * k \in Nat /\ (m - (n + 1)) * k = (m - n) * k - k
<1> DEFINE d == m - n
<1>1. d \in Nat /\ m - (n + 1) = d - 1
  OBVIOUS
<1> HIDE DEF d
<1>2. d * k \in Nat /\ (d - 1) * k = d * k - k
  BY <1>1
<1> QED BY <1>1, <1>2 DEF d

LEMMA CallLeftTyped == Inv => CallLeft \in Nat
<1> SUFFICES ASSUME Inv PROVE CallLeft \in Nat
  OBVIOUS
<1>1. attempt \in Nat /\ MaxRetries \in Nat /\ attempt <= MaxRetries
  BY Numbers DEF Inv, TypeOK
<1> QED BY <1>1 DEF CallLeft

LEMMA ClientLeftTyped == Inv => ClientLeft \in Nat
<1> SUFFICES ASSUME Inv PROVE ClientLeft \in Nat
  OBVIOUS
<1> DEFINE rest == (MaxCalls - call) * (2 * MaxRetries + 1)
<1>1. call \in Nat /\ call <= MaxCalls
  BY Numbers DEF Inv, TypeOK
<1>2. MaxCalls \in Nat /\ 2 * MaxRetries + 1 \in Nat
  BY OpenRouterAssumption
<1>3. rest \in Nat
  BY <1>1, <1>2, OneCallLess
<1>4. ClientLeft = rest + CallLeft
  BY DEF ClientLeft
<1> HIDE DEF rest
<1> QED BY <1>3, <1>4, CallLeftTyped

\* A step of a call, apart from its first one, leaves fewer; one of the server leaves as many.
LEMMA CallLeftStep ==
  Inv /\ Next => \/ call' = call /\ CallLeft' < CallLeft
                 \/ Complete
                 \/ Serve \/ Progress
<1> SUFFICES ASSUME Inv, Next
             PROVE  (call' = call /\ CallLeft' < CallLeft) \/ Complete \/ Serve \/ Progress
  OBVIOUS
<1>0. attempt \in Nat /\ MaxRetries \in Nat /\ attempt <= MaxRetries
  BY Numbers DEF Inv, TypeOK
<1>1. ASSUME pc = "posting", pc' \in {"idle", "refused", "raised", "cancelled"}
      PROVE  CallLeft' < CallLeft
  <2>1. CallLeft' = 0 /\ CallLeft = 2 * (MaxRetries - attempt) + 2
    BY <1>1 DEF CallLeft
  <2> QED BY <1>0, <2>1
<1>2. ASSUME pc = "posting", TryAgain, attempt' = attempt
      PROVE  CallLeft' < CallLeft
  <2>1. CASE pc' = "refused"
    BY <1>1, <1>2, <2>1
  <2>2. CASE pc' = "sleeping"
    <3>1. /\ CallLeft = 2 * (MaxRetries - attempt) + 2
          /\ CallLeft' = 2 * (MaxRetries - attempt) + 1
      BY <1>2, <2>2 DEF CallLeft
    <3> QED BY <1>0, <3>1
  <2> QED BY <1>2, <2>1, <2>2 DEF TryAgain
<1>3. CASE NetworkError
  BY <1>2, <1>3 DEF NetworkError
<1>4. CASE ReceiveStatus
  BY <1>1, <1>2, <1>4 DEF ReceiveStatus, Receives
<1>5. CASE ReceiveUnusable
  BY <1>1, <1>5 DEF ReceiveUnusable, Receives
<1>6. CASE ReceiveAnswer
  BY <1>1, <1>6 DEF ReceiveAnswer, Receives
<1>7. CASE Sleep
  <2>1. call' = call /\ pc = "sleeping" /\ pc' = "posting" /\ attempt' = attempt + 1
    BY <1>7 DEF Sleep, Post
  <2>2. /\ CallLeft = 2 * (MaxRetries - attempt) + 1
        /\ CallLeft' = 2 * (MaxRetries - (attempt + 1)) + 2
    BY <2>1 DEF CallLeft
  <2> QED BY <1>0, <2>1, <2>2
<1>8. CASE Cancel
  <2>1. CASE pc = "posting"
    BY <1>1, <1>8, <2>1 DEF Cancel
  <2>2. CASE pc = "sleeping"
    <3>1. CallLeft' = 0 /\ CallLeft = 2 * (MaxRetries - attempt) + 1 /\ call' = call
      BY <1>8, <2>2 DEF Cancel, CallLeft
    <3> QED BY <1>0, <3>1
  <2> QED BY <1>8, <2>1, <2>2 DEF Cancel
<1> QED BY <1>3, <1>4, <1>5, <1>6, <1>7, <1>8 DEF Next, ClientStep

\* Whatever the server answers, in parts, late or never, a run is at most
\* MaxCalls * (2 * MaxRetries + 1) steps of its client: each of them leaves fewer, and neither
\* the server nor the progress of a request, however much of it there is, adds one.  That is
\* the part of CallsEnd that holds without fairness (openrouter.py:110-156).
THEOREM ClientIsFinite ==
  Spec => /\ ClientLeft = MaxCalls * (2 * MaxRetries + 1)
          /\ [](ClientLeft \in Nat)
          /\ [][IF Serve \/ Progress THEN ClientLeft' = ClientLeft ELSE ClientLeft' < ClientLeft]_vars
<1>1. Init => ClientLeft = MaxCalls * (2 * MaxRetries + 1)
  <2> SUFFICES ASSUME Init PROVE ClientLeft = MaxCalls * (2 * MaxRetries + 1)
    OBVIOUS
  <2>1. CallLeft = 0 /\ call = 0
    BY DEF Init, CallLeft
  <2>2. MaxCalls - call = MaxCalls
    BY <2>1, OpenRouterAssumption
  <2> DEFINE n == MaxCalls * (2 * MaxRetries + 1)
  <2>3. n \in Nat
    <3>1. 2 * MaxRetries + 1 \in Nat
      BY OpenRouterAssumption
    <3> QED BY <3>1, OpenRouterAssumption
  <2>4. ClientLeft = n + 0
    BY <2>1, <2>2 DEF ClientLeft
  <2> HIDE DEF n
  <2>5. ClientLeft = n
    BY <2>3, <2>4
  <2> QED BY <2>5 DEF n
<1>2. Inv /\ Inv' /\ [Next]_vars =>
        [IF Serve \/ Progress THEN ClientLeft' = ClientLeft ELSE ClientLeft' < ClientLeft]_vars
  <2> SUFFICES ASSUME Inv, Inv', Next
               PROVE  IF Serve \/ Progress THEN ClientLeft' = ClientLeft ELSE ClientLeft' < ClientLeft
    OBVIOUS
  <2> DEFINE rest     == (MaxCalls - call) * (2 * MaxRetries + 1)
             nextRest == (MaxCalls - call') * (2 * MaxRetries + 1)
             left     == CallLeft
             nextLeft == CallLeft'
  <2>0. /\ call \in Nat /\ call <= MaxCalls /\ MaxCalls \in Nat
        /\ MaxRetries \in Nat /\ 2 * MaxRetries + 1 \in Nat
    BY Numbers, OpenRouterAssumption DEF Inv, TypeOK
  <2>1. rest \in Nat
    BY <2>0, OneCallLess
  <2>2. left \in Nat
    BY CallLeftTyped
  <2>3. nextLeft \in Nat
    <3>1. (Inv => CallLeft \in Nat)'
      BY CallLeftTyped, PTL
    <3> QED BY <3>1
  <2>4. ClientLeft = rest + left /\ ClientLeft' = nextRest + nextLeft
    BY DEF ClientLeft
  <2>5. CASE Serve \/ Progress
    <3>1. UNCHANGED <<pc, call, attempt>>
      BY <2>5 DEF Serve, Progress, client
    <3>2. nextRest = rest /\ nextLeft = left
      BY <3>1 DEF CallLeft
    <3>3. ClientLeft' = ClientLeft
      BY <2>4, <3>2
    <3> QED BY <2>5, <3>3
  <2>6. CASE call' = call /\ CallLeft' < CallLeft /\ ~(Serve \/ Progress)
    <3>1. nextRest = rest /\ nextLeft < left
      BY <2>6
    <3> HIDE DEF rest, nextRest, left, nextLeft
    <3>2. ClientLeft' < ClientLeft
      BY <2>1, <2>2, <2>3, <2>4, <3>1
    <3> QED BY <2>6, <3>2
  <2>7. CASE Complete /\ ~(Serve \/ Progress)
    <3>1. call' = call + 1 /\ pc = "idle"
      BY <2>7 DEF Complete
    <3>2. nextRest = rest - (2 * MaxRetries + 1)
      BY <2>0, <3>1, OneCallLess
    <3>3. left = 0
      BY <3>1 DEF CallLeft
    <3>4. nextLeft <= 2 * MaxRetries
      <4>1. CASE pc' = "refused"
        <5>1. nextLeft = 0
          BY <4>1 DEF CallLeft
        <5> QED BY <2>0, <5>1
      <4>2. CASE pc' = "posting" /\ attempt' = 1
        <5>1. nextLeft = 2 * (MaxRetries - 1) + 2
          BY <4>2 DEF CallLeft
        <5> QED BY <2>0, <5>1
      <4> QED BY <2>7, <4>1, <4>2 DEF Complete, Post
    <3> HIDE DEF rest, nextRest, left, nextLeft
    <3>5. ClientLeft' < ClientLeft
      BY <2>0, <2>1, <2>2, <2>3, <2>4, <3>2, <3>3, <3>4
    <3> QED BY <2>7, <3>5
  <2> QED BY <2>5, <2>6, <2>7, CallLeftStep
<1> QED BY InvInit, InvStep, ClientLeftTyped, <1>1, <1>2, PTL DEF Spec
=============================================================================
