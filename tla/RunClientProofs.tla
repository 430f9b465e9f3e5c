--------------------------- MODULE RunClientProofs ---------------------------
(***************************************************************************)
(* Proofs about RunClient, for any number of events and of failures: the   *)
(* page and the socket fit together, what is labelled finished is, and a   *)
(* view that has settled keeps a final summary.                            *)
(***************************************************************************)
EXTENDS RunClient, FiniteSetTheorems, TLAPS

Sent == Len(seen["socket"])

\* The stream: events count up, the viewer has been sent a stretch of them, from the one
\* after `from`.
StreamInv ==
  /\ log \in Seq(Nat) /\ Len(log) <= MaxEvents
  /\ \A i \in 1..Len(log) : log[i] = i - 1
  /\ sealed \in BOOLEAN
  /\ view \in [Viewers -> {"idle", "open", "closed", "gone"}]
  /\ from \in [Viewers -> Int] /\ from["socket"] >= -1
  /\ seen \in [Viewers -> Seq(Nat)]
  /\ from["socket"] + Sent + 1 <= Len(log)
  /\ \A k \in 1..Sent : seen["socket"][k] = from["socket"] + k
  /\ view["socket"] = "closed" => sealed
  /\ view["socket"] = "idle" => Sent = 0

\* The client, but for what is shown: the variables that only have a type.
ClientTypeOK ==
  /\ recorded \in BOOLEAN /\ registered \in BOOLEAN
  /\ page \in [at : {"asked", "read", "answered", "lost", "done"},
              events : SUBSET (0..(MaxEvents - 1)), live : BOOLEAN]
  /\ poll \in [at : {"asked", "read", "answered", "lost", "idle"},
              final : BOOLEAN, live : BOOLEAN, refetch : BOOLEAN]
  /\ socket \in {"none", "connecting", "open", "over", "cancelled"}
  /\ connection \in {"loading", "live", "closed", "error"}
  /\ data \in [known : BOOLEAN, final : BOOLEAN, live : BOOLEAN]
  /\ failed \in BOOLEAN /\ settled \in BOOLEAN /\ torn \in BOOLEAN
  /\ faults \in 0..MaxFaults

\* What is shown is a prefix of the log, that reaches as far as the socket has delivered;
\* the page is a prefix too.
ShownInv ==
  /\ last \in Int /\ last >= -1 /\ last < Len(log)
  /\ events = 0..last
  /\ received \in Nat /\ received <= Sent
  /\ after \in Int /\ after >= -1 /\ after <= last
  /\ view["socket"] # "idle" => from["socket"] + received <= last
  /\ \E k \in 0..Len(log) : page.events = 0..(k - 1)

\* A page that says that the run is over says it rightly, and is complete unless it is torn.
PageInv ==
  /\ page.at \in {"asked", "read"} => ~torn
  /\ page.at = "answered" /\ ~page.live =>
       sealed /\ (torn \/ page.events = 0..(Len(log) - 1))

Inv == StreamInv /\ ClientTypeOK /\ ShownInv /\ PageInv /\ FinishedIsComplete

-----------------------------------------------------------------------------
(* The initial state *)

LEMMA InvInit == Init => Inv
<1> SUFFICES ASSUME Init PROVE Inv
  OBVIOUS
<1>1. log = <<>> /\ sealed = FALSE /\ view["socket"] = "idle" /\ from["socket"] = -1
      /\ view = [v \in Viewers |-> "idle"] /\ from = [v \in Viewers |-> -1]
      /\ seen = [v \in Viewers |-> <<>>] /\ seen["socket"] = <<>>
  BY DEF Init, Stream!Init, Viewers
<1>2. StreamInv
  <2>1. Sent = 0 /\ Len(log) = 0 /\ log \in Seq(Nat)
    BY <1>1 DEF Sent
  <2>2. view \in [Viewers -> {"idle", "open", "closed", "gone"}] /\ from \in [Viewers -> Int]
        /\ seen \in [Viewers -> Seq(Nat)]
    BY <1>1
  <2>3. (\A i \in 1..Len(log) : log[i] = i - 1)
        /\ (\A k \in 1..Sent : seen["socket"][k] = from["socket"] + k)
    BY <2>1
  <2>4. sealed = FALSE /\ view["socket"] = "idle" /\ from["socket"] = -1
    BY <1>1
  <2>5. Len(log) <= MaxEvents
    BY <2>1, RunClientAssumption
  <2>6. from["socket"] + Sent + 1 <= Len(log)
    BY <2>1, <2>4
  <2>7. from["socket"] >= -1 /\ view["socket"] # "closed"
    BY <2>4
  <2>8. sealed \in BOOLEAN
    BY <2>4, Zenon
  <2> QED BY <2>1, <2>2, <2>3, <2>5, <2>6, <2>7, <2>8 DEF StreamInv
<1>3. ClientTypeOK
  <2>1. page \in [at : {"asked", "read", "answered", "lost", "done"},
                  events : SUBSET (0..(MaxEvents - 1)), live : BOOLEAN]
    BY RunClientAssumption DEF Init
  <2>2. poll \in [at : {"asked", "read", "answered", "lost", "idle"}, final : BOOLEAN,
                  live : BOOLEAN, refetch : BOOLEAN]
    BY DEF Init
  <2>3. faults \in 0..MaxFaults
    BY RunClientAssumption DEF Init
  <2> QED BY <2>1, <2>2, <2>3 DEF Init, ClientTypeOK
<1>4. ShownInv
  <2>1. page.events = {} /\ {} = 0..(0 - 1) /\ 0 \in 0..Len(log) /\ events = 0..last
    BY <1>1 DEF Init
  <2> QED BY <1>1, <2>1 DEF Init, ShownInv, Sent
<1>5. PageInv /\ FinishedIsComplete
  BY DEF Init, PageInv, FinishedIsComplete
<1> QED BY <1>2, <1>3, <1>4, <1>5 DEF Inv

-----------------------------------------------------------------------------
(* The stream *)

\* What the stream does in a step: nothing, or one of its steps.
StreamStep ==
  \/ UNCHANGED <<log, sealed, view, from, seen>>
  \/ Stream!Record /\ Len(log) < MaxEvents
  \/ Stream!Seal \/ Stream!Die
  \/ Stream!Open("socket") /\ from' = [v \in Viewers |-> after]
  \/ Stream!Receive("socket") \/ Stream!Close("socket") \/ Stream!Leave("socket")

LEMMA StepsOfStream ==
  ASSUME [Next]_vars
  PROVE  StreamStep
<1>1. CASE Emit \/ RecordRun \/ FinishRun \/ Crash \/ Connect
  BY <1>1 DEF Emit, RecordRun, FinishRun, Crash, Connect, StreamStep
<1>2. CASE Serve
  BY <1>2 DEF Serve, StreamStep, Viewers
<1>3. CASE ReadPage \/ AskPageLive \/ TakePage \/ LosePage \/ PollStep \/ LosePoll
           \/ OnOpen \/ OnMessage \/ OnClose \/ UNCHANGED vars
  BY <1>3 DEF ReadPage, AskPageLive, TakePage, LosePage, PollStep, ReadPoll, AskPollLive,
              TakePoll, PollAgain, LosePoll, OnOpen, OnMessage, OnClose, vars, server, StreamStep
<1> QED BY <1>1, <1>2, <1>3 DEF Next

LEMMA StreamInvStep ==
  ASSUME StreamInv, ShownInv, StreamStep
  PROVE  StreamInv'
<1>1. CASE UNCHANGED <<log, sealed, view, from, seen>>
  BY <1>1 DEF StreamInv, Sent
<1>2. CASE Stream!Record /\ Len(log) < MaxEvents
  <2>1. log' = Append(log, Len(log)) /\ UNCHANGED <<sealed, view, from, seen>>
    BY <1>2 DEF Stream!Record
  <2>2. log' \in Seq(Nat) /\ Len(log') = Len(log) + 1 /\ Len(log) \in Nat
        /\ \A i \in 1..Len(log') : log'[i] = i - 1
    BY <2>1 DEF StreamInv
  <2>3. Sent' = Sent /\ Sent \in Nat /\ from["socket"] \in Int
    BY <2>1 DEF Sent, StreamInv, Viewers
  <2> QED BY <1>2, <2>1, <2>2, <2>3, RunClientAssumption DEF StreamInv
<1>3. CASE Stream!Seal \/ Stream!Die
  <2>1. sealed' = TRUE /\ UNCHANGED <<log, from, seen>> /\ Sent' = Sent
    BY <1>3 DEF Stream!Seal, Stream!Die, Sent
  <2>2. view' \in [Viewers -> {"idle", "open", "closed", "gone"}]
        /\ (view'["socket"] = "idle" => view["socket"] = "idle")
    BY <1>3 DEF Stream!Seal, Stream!Die, StreamInv, Viewers
  <2> QED BY <2>1, <2>2 DEF StreamInv
<1>4. CASE Stream!Open("socket") /\ from' = [v \in Viewers |-> after]
  <2>1. view["socket"] = "idle" /\ from'["socket"] = after /\ UNCHANGED <<log, sealed, seen>>
        /\ Sent' = Sent /\ from' \in [Viewers -> Int]
    BY <1>4 DEF Stream!Open, Sent, Viewers, ShownInv
  <2>2. view' \in [Viewers -> {"idle", "open", "closed", "gone"}]
        /\ (view'["socket"] = "closed" => sealed) /\ view'["socket"] # "idle"
    BY <1>4 DEF Stream!Open, StreamInv, Viewers
  <2>3. Sent = 0 /\ after \in Int /\ after >= -1 /\ after + 1 <= Len(log) /\ Len(log) \in Nat
    BY <2>1 DEF StreamInv, ShownInv
  <2> QED BY <2>1, <2>2, <2>3 DEF StreamInv
<1>5. CASE Stream!Receive("socket")
  <2> DEFINE next == from["socket"] + Sent + 2
  <2>1. next <= Len(log) /\ seen' = [seen EXCEPT !["socket"] = Append(@, log[next])]
        /\ UNCHANGED <<log, sealed, view, from>> /\ view["socket"] = "open"
    BY <1>5 DEF Stream!Receive, Sent
  <2>2. seen["socket"] \in Seq(Nat) /\ Sent \in Nat /\ from["socket"] \in Int /\ next \in 1..Len(log)
    <3>1. seen["socket"] \in Seq(Nat) /\ from["socket"] \in Int /\ from["socket"] >= -1
          /\ Len(log) \in Nat
      BY DEF StreamInv, Viewers
    <3>2. Sent \in Nat
      BY <3>1 DEF Sent
    <3> QED BY <2>1, <3>1, <3>2
  <2>3. seen'["socket"] = Append(seen["socket"], next - 1) /\ next - 1 \in Nat
    <3>1. log[next] = next - 1
      BY <2>2 DEF StreamInv
    <3>2. seen'["socket"] = Append(seen["socket"], log[next])
      BY <2>1 DEF StreamInv, Viewers
    <3>3. next - 1 \in Nat
      BY <2>2
    <3> QED BY <3>1, <3>2, <3>3
  <2>4. seen' \in [Viewers -> Seq(Nat)]
    <3>1. Append(seen["socket"], next - 1) \in Seq(Nat)
      BY <2>2, <2>3
    <3>2. seen \in [Viewers -> Seq(Nat)]
      BY DEF StreamInv
    <3> QED BY <2>1, <2>3, <3>1, <3>2 DEF Viewers
  <2>5. Sent' = Sent + 1
    BY <2>2, <2>3 DEF Sent
  <2>6. ASSUME NEW k \in 1..Sent' PROVE seen'["socket"][k] = from["socket"] + k
    <3>1. CASE k = Sent + 1
      <4>1. seen'["socket"][k] = next - 1
        BY <2>2, <2>3, <3>1 DEF Sent
      <4> QED BY <2>2, <3>1, <4>1
    <3>2. CASE k # Sent + 1
      <4>1. k \in 1..Sent
        BY <2>2, <2>5, <2>6, <3>2
      <4>2. seen["socket"][k] = from["socket"] + k
        BY <4>1 DEF StreamInv
      <4>3. seen'["socket"][k] = seen["socket"][k]
        BY <2>2, <2>3, <4>1 DEF Sent
      <4> QED BY <4>2, <4>3
    <3> QED BY <3>1, <3>2
  <2>7. view["socket"] # "closed" /\ view["socket"] # "idle" /\ from["socket"] + Sent' + 1 <= Len(log)
    BY <2>1, <2>2, <2>5
  <2> QED BY <2>1, <2>2, <2>4, <2>5, <2>6, <2>7 DEF StreamInv
<1>6. CASE Stream!Close("socket") \/ Stream!Leave("socket")
  <2>1. UNCHANGED <<log, sealed, from, seen>> /\ Sent' = Sent
    BY <1>6 DEF Stream!Close, Stream!Leave, Sent
  <2>2. view' \in [Viewers -> {"idle", "open", "closed", "gone"}]
        /\ (view'["socket"] = "closed" => sealed) /\ view'["socket"] # "idle"
    BY <1>6 DEF Stream!Close, Stream!Leave, StreamInv, Viewers
  <2> QED BY <2>1, <2>2 DEF StreamInv
<1> QED BY <1>1, <1>2, <1>3, <1>4, <1>5, <1>6 DEF StreamStep

\* The log grows until it is sealed, and is sealed for good; a viewer that has left or was
\* told that the run is over stays so.
LEMMA StreamGrows ==
  ASSUME StreamInv, StreamStep
  PROVE  /\ Len(log) \in Nat /\ Len(log') \in Nat /\ Len(log') >= Len(log)
         /\ sealed => sealed' /\ log' = log
         /\ view["socket"] = "gone" => view'["socket"] = "gone"
         /\ view["socket"] = "closed" => view'["socket"] = "closed" /\ UNCHANGED <<from, seen>>
         /\ view'["socket"] = "idle" => view["socket"] = "idle"
         /\ view["socket"] # "idle" => from' = from
         /\ view["socket"] = "idle" /\ view'["socket"] # "idle" => from'["socket"] = after
         /\ Sent \in Nat /\ Sent' \in Nat /\ Sent' >= Sent
<1>1. CASE UNCHANGED <<log, sealed, view, from, seen>>
  BY <1>1 DEF StreamInv, Sent, Viewers
<1>2. CASE Stream!Record
  BY <1>2 DEF Stream!Record, StreamInv, Sent, Viewers
<1>3. CASE Stream!Seal \/ Stream!Die
  BY <1>3 DEF Stream!Seal, Stream!Die, StreamInv, Sent, Viewers
<1>4. CASE Stream!Open("socket") /\ from' = [v \in Viewers |-> after]
  <2>1. /\ view["socket"] = "idle" /\ UNCHANGED <<log, sealed, seen>>
        /\ view'["socket"] \in {"open", "closed"}
    BY <1>4 DEF Stream!Open, StreamInv, Viewers
  <2>2. from'["socket"] = after /\ Sent' = Sent /\ Sent \in Nat /\ Len(log) \in Nat
    BY <1>4, <2>1 DEF StreamInv, Sent, Viewers
  <2> QED BY <2>1, <2>2
<1>5. CASE Stream!Receive("socket")
  <2>1. seen["socket"] \in Seq(Nat) /\ view["socket"] = "open" /\ UNCHANGED <<log, sealed, view, from>>
        /\ Len(log) \in Nat
    BY <1>5 DEF Stream!Receive, StreamInv, Viewers
  <2>2. seen'["socket"] = Append(seen["socket"], log[from["socket"] + Len(seen["socket"]) + 2])
    BY <1>5 DEF Stream!Receive, StreamInv, Viewers
  <2>3. Sent' = Sent + 1 /\ Sent \in Nat
    BY <2>1, <2>2 DEF Sent
  <2> QED BY <2>1, <2>3
<1>6. CASE Stream!Close("socket") \/ Stream!Leave("socket")
  BY <1>6 DEF Stream!Close, Stream!Leave, StreamInv, Sent, Viewers
<1> QED BY <1>1, <1>2, <1>3, <1>4, <1>5, <1>6 DEF StreamStep

-----------------------------------------------------------------------------
(* What is shown *)

\* Appending a stretch that does not begin behind the end leaves a prefix, up to the later
\* of the two ends.
LEMMA AppendsStretch ==
  ASSUME last \in Int, last >= -1, events = 0..last,
         NEW a \in Nat, NEW b \in Int, a <= last + 1, AppendEvents(a..b)
  PROVE  /\ last' \in Int /\ last' >= last /\ last' >= b /\ (last' = last \/ last' = b)
         /\ events' = 0..last'
<1> DEFINE fresh == (a..b) \ events
<1>1. /\ events' = events \cup fresh
      /\ last' = IF fresh = {} THEN last
                 ELSE CHOOSE e \in fresh \cup {last} : \A f \in fresh \cup {last} : f <= e
  BY DEF AppendEvents
<1>2. CASE b <= last
  <2>1. fresh = {}
    BY <1>2
  <2> QED BY <1>1, <1>2, <2>1
<1>3. CASE b > last
  <2>1. fresh = (last + 1)..b
    BY <1>3
  <2> HIDE DEF fresh
  <2>2. b \in fresh /\ \A f \in fresh \cup {last} : f <= b
    BY <1>3, <2>1
  <2>3. \A e \in fresh \cup {last} : (\A f \in fresh \cup {last} : f <= e) => e = b
    BY <2>1, <2>2
  <2>4. last' = b
    BY <1>1, <2>2, <2>3
  <2>5. events' = 0..b
    BY <1>1, <1>3, <2>1
  <2> QED BY <1>3, <2>4, <2>5
<1> QED BY <1>2, <1>3

\* A single event, which is not behind the end either.
LEMMA AppendsOne ==
  ASSUME last \in Int, last >= -1, events = 0..last,
         NEW x \in Nat, x <= last + 1, AppendEvents({x})
  PROVE  /\ last' \in Int /\ last' >= last /\ last' >= x /\ (last' = last \/ last' = x)
         /\ events' = 0..last'
<1>1. {x} = x..x /\ x \in Int
  OBVIOUS
<1>2. ASSUME NEW b \in Int, AppendEvents(x..b)
      PROVE  /\ last' \in Int /\ last' >= last /\ last' >= b /\ (last' = last \/ last' = b)
             /\ events' = 0..last'
  BY <1>2, AppendsStretch
<1>3. AppendEvents(x..x)
  BY <1>1
<1> QED BY <1>1, <1>2, <1>3

LEMMA RecordedIsPrefix == StreamInv => Recorded = 0..(Len(log) - 1)
<1> SUFFICES ASSUME StreamInv PROVE Recorded = 0..(Len(log) - 1)
  OBVIOUS
<1>1. Len(log) \in Nat /\ DOMAIN log = 1..Len(log) /\ \A i \in 1..Len(log) : log[i] = i - 1
  BY DEF StreamInv
<1>2. ASSUME NEW e \in 0..(Len(log) - 1) PROVE e \in Recorded
  <2>1. e + 1 \in DOMAIN log /\ log[e + 1] = e
    BY <1>1
  <2> QED BY <2>1 DEF Recorded
<1>3. ASSUME NEW e \in Recorded PROVE e \in 0..(Len(log) - 1)
  BY <1>1 DEF Recorded
<1> QED BY <1>2, <1>3

\* A page is appended, or a message.
LEMMA PageAppends ==
  ASSUME StreamInv, ShownInv, AppendEvents(page.events)
  PROVE  /\ last' \in Int /\ last' >= last /\ last' < Len(log) /\ events' = 0..last'
         /\ page.events = 0..(Len(log) - 1) => last' = Len(log) - 1
<1>1. PICK k \in 0..Len(log) : page.events = 0..(k - 1)
  BY DEF ShownInv
<1>2. Len(log) \in Nat /\ last \in Int /\ last >= -1 /\ last < Len(log) /\ events = 0..last
  BY DEF StreamInv, ShownInv
<1>3. ASSUME NEW m \in 0..Len(log), page.events = 0..(m - 1)
      PROVE  /\ last' \in Int /\ last' >= last /\ last' >= m - 1
             /\ (last' = last \/ last' = m - 1) /\ events' = 0..last'
  BY <1>2, <1>3, AppendsStretch
<1>4. last' \in Int /\ last' >= last /\ last' < Len(log) /\ events' = 0..last'
  BY <1>1, <1>2, <1>3
<1>5. ASSUME page.events = 0..(Len(log) - 1) PROVE last' = Len(log) - 1
  BY <1>2, <1>3, <1>4, <1>5
<1> QED BY <1>4, <1>5

LEMMA MessageAppends ==
  ASSUME StreamInv, ShownInv, OnMessage
  PROVE  /\ last' \in Int /\ last' >= last /\ last' < Len(log) /\ events' = 0..last'
         /\ received' \in Nat /\ received' <= Sent /\ from["socket"] + received' <= last'
<1>1. /\ received' = received + 1 /\ received < Sent
      /\ AppendEvents({seen["socket"][received + 1]})
  BY DEF OnMessage, Sent
<1>2. /\ Len(log) \in Nat /\ last \in Int /\ last >= -1 /\ last < Len(log) /\ events = 0..last
      /\ received \in Nat /\ Sent \in Nat /\ from["socket"] \in Int /\ from["socket"] >= -1
      /\ from["socket"] + Sent + 1 <= Len(log)
  BY DEF StreamInv, ShownInv, Sent, Viewers
<1> DEFINE e == from["socket"] + received + 1
<1>3. seen["socket"][received + 1] = e
  <2>1. received + 1 \in 1..Sent
    BY <1>1, <1>2
  <2>2. seen["socket"][received + 1] = from["socket"] + (received + 1)
    BY <2>1 DEF StreamInv
  <2> QED BY <1>2, <2>2
<1>4. view["socket"] # "idle"
  <2>1. Sent # 0
    BY <1>1, <1>2
  <2> QED BY <2>1 DEF StreamInv
<1>5. PICK x \in Nat : x = e
  BY <1>2
<1>6. x <= last + 1 /\ x < Len(log)
  <2>1. from["socket"] + received <= last
    BY <1>4 DEF ShownInv
  <2> QED BY <1>1, <1>2, <1>5, <2>1
<1>7. AppendEvents({x})
  BY <1>1, <1>3, <1>5
<1>8. last' \in Int /\ last' >= last /\ last' >= x /\ (last' = last \/ last' = x) /\ events' = 0..last'
  BY <1>2, <1>6, <1>7, AppendsOne
<1>9. received' \in Nat /\ received' <= Sent
  BY <1>1, <1>2
<1>10. last' < Len(log)
  BY <1>2, <1>6, <1>8
<1>11. from["socket"] + received' = x
  BY <1>1, <1>2, <1>5
<1>12. from["socket"] + received' <= last'
  BY <1>8, <1>11
<1> QED BY <1>8, <1>9, <1>10, <1>12

LEMMA ShownStep ==
  ASSUME StreamInv, ShownInv, ClientTypeOK, [Next]_vars
  PROVE  ShownInv' /\ last' >= last
<1>1. StreamStep
  BY StepsOfStream
<1>2. StreamInv'
  BY <1>1, StreamInvStep
<1>3. /\ Len(log) \in Nat /\ Len(log') \in Nat /\ Len(log') >= Len(log)
      /\ view'["socket"] = "idle" => view["socket"] = "idle"
      /\ view["socket"] # "idle" => from' = from
      /\ view["socket"] = "idle" /\ view'["socket"] # "idle" => from'["socket"] = after
      /\ Sent \in Nat /\ Sent' \in Nat /\ Sent' >= Sent
  BY <1>1, StreamGrows
<1>4. /\ last \in Int /\ last >= -1 /\ last < Len(log) /\ received \in Nat /\ received <= Sent
      /\ after \in Int /\ after >= -1 /\ after <= last
      /\ view["socket"] # "idle" => from["socket"] + received <= last
      /\ view["socket"] = "idle" => Sent = 0
      /\ from["socket"] \in Int
  BY DEF ShownInv, StreamInv, Viewers
<1>5. PICK k \in 0..Len(log) : page.events = 0..(k - 1)
  BY DEF ShownInv
<1>6. ASSUME UNCHANGED <<received, after, shown>>, page'.events = page.events
      PROVE  ShownInv' /\ last' >= last
  <2>1. k \in 0..Len(log') /\ page'.events = 0..(k - 1)
    BY <1>3, <1>5, <1>6
  <2>2. events' = 0..last' /\ last' = last /\ received' = received /\ after' = after
    BY <1>6 DEF ShownInv, shown
  <2>3. view'["socket"] # "idle" => from'["socket"] + received' <= last'
    BY <1>3, <1>4, <2>2
  <2> QED BY <1>3, <1>4, <2>1, <2>2, <2>3 DEF ShownInv
<1>7. CASE ReadPage
  <2>1. page'.events = 0..(Len(log) - 1) /\ UNCHANGED <<server, received, after, shown>>
    BY <1>7, RecordedIsPrefix DEF ReadPage, Recorded, hook, ClientTypeOK
  <2>2. Len(log') \in 0..Len(log') /\ page'.events = 0..(Len(log') - 1)
    BY <1>3, <2>1 DEF server
  <2>3. events' = 0..last' /\ last' = last /\ received' = received /\ after' = after
    BY <2>1 DEF ShownInv, shown
  <2>4. view'["socket"] # "idle" => from'["socket"] + received' <= last'
    BY <1>3, <1>4, <2>3
  <2> QED BY <1>3, <1>4, <2>2, <2>3, <2>4 DEF ShownInv
<1>8. CASE TakePage
  <2>1. AppendEvents(page.events) /\ UNCHANGED <<server, received, after>> /\ page'.events = page.events
    BY <1>8 DEF TakePage, ClientTypeOK
  <2>2. last' \in Int /\ last' >= last /\ last' < Len(log) /\ events' = 0..last'
    BY <2>1, PageAppends
  <2>3. UNCHANGED <<log, view, from>> /\ Sent' = Sent
    BY <2>1 DEF server, Sent
  <2> QED BY <1>3, <1>4, <1>5, <2>1, <2>2, <2>3 DEF ShownInv
<1>9. CASE OnMessage
  <2>1. UNCHANGED <<log, view, from, after, page>> /\ Sent' = Sent
    BY <1>9 DEF OnMessage, server, Sent
  <2>2. /\ last' \in Int /\ last' >= last /\ last' < Len(log) /\ events' = 0..last'
        /\ received' \in Nat /\ received' <= Sent /\ from["socket"] + received' <= last'
    BY <1>9, MessageAppends
  <2>3. after' = after /\ Len(log') = Len(log) /\ from' = from /\ page'.events = 0..(k - 1)
    BY <1>5, <2>1
  <2>4. after' <= last' /\ last' >= -1
    BY <1>4, <2>2, <2>3
  <2> QED BY <1>4, <2>1, <2>2, <2>3, <2>4 DEF ShownInv
<1>10. CASE TakePoll
  <2>1. UNCHANGED <<log, view, from, seen, page, received, shown>> /\ Sent' = Sent
    BY <1>10 DEF TakePoll, server, Sent
  <2>2. after' \in {after, last}
    BY <1>10 DEF TakePoll, FollowLive
  <2>3. events' = 0..last' /\ last' = last /\ received' = received
    BY <2>1 DEF ShownInv, shown
  <2> QED BY <1>3, <1>4, <1>5, <2>1, <2>2, <2>3 DEF ShownInv
<1>11. CASE Crash
  <2>1. page'.events = page.events
    BY <1>11 DEF Crash, ClientTypeOK
  <2> QED BY <1>6, <1>11, <2>1 DEF Crash, hook
<1>12. CASE AskPageLive \/ LosePage
  BY <1>6, <1>12 DEF AskPageLive, LosePage, hook, ClientTypeOK
<1>13. CASE Emit \/ RecordRun \/ FinishRun \/ Connect \/ Serve
  BY <1>6, <1>13 DEF Emit, RecordRun, FinishRun, Connect, Serve, hook
<1>14. CASE ReadPoll \/ AskPollLive \/ PollAgain \/ LosePoll \/ OnOpen \/ OnClose \/ UNCHANGED vars
  BY <1>6, <1>14 DEF ReadPoll, AskPollLive, PollAgain, LosePoll, OnOpen, OnClose, hook, vars
<1> QED
  BY <1>7, <1>8, <1>9, <1>10, <1>11, <1>12, <1>13, <1>14 DEF Next, PollStep

-----------------------------------------------------------------------------
(* What it is labelled *)

LEMMA TypeStep ==
  ASSUME StreamInv, ShownInv, ClientTypeOK, [Next]_vars
  PROVE  ClientTypeOK'
<1> USE DEF ClientTypeOK
<1>1. CASE Emit \/ RecordRun \/ FinishRun \/ Connect \/ Serve
  <2>1. UNCHANGED <<page, poll, hook, registered, faults, torn>>
        /\ (recorded' = recorded \/ recorded' = TRUE)
    BY <1>1 DEF Emit, RecordRun, FinishRun, Connect, Serve
  <2>2. UNCHANGED <<page, poll, socket, connection, data, failed, settled, registered, faults, torn>>
    BY <2>1 DEF hook
  <2>3. recorded' \in BOOLEAN
    BY <2>1, Zenon
  <2> QED BY <2>2, <2>3
<1>2. CASE Crash
  <2>1. page' \in [at : {"asked", "read", "answered", "lost", "done"},
                   events : SUBSET (0..(MaxEvents - 1)), live : BOOLEAN]
    BY <1>2 DEF Crash
  <2>2. poll' \in [at : {"asked", "read", "answered", "lost", "idle"}, final : BOOLEAN,
                   live : BOOLEAN, refetch : BOOLEAN]
    BY <1>2 DEF Crash
  <2>3. registered' \in BOOLEAN /\ UNCHANGED <<recorded, socket, connection, data, failed,
                                               settled, torn, faults>>
    BY <1>2 DEF Crash, hook
  <2> HIDE DEF ClientTypeOK
  <2> QED BY <2>1, <2>2, <2>3 DEF ClientTypeOK
<1>3. CASE ReadPage
  <2>1. {log[i] : i \in DOMAIN log} \in SUBSET (0..(MaxEvents - 1))
    <3>1. Recorded = 0..(Len(log) - 1) /\ Len(log) \in Nat /\ Len(log) <= MaxEvents
      BY RecordedIsPrefix DEF StreamInv
    <3>2. Recorded \in SUBSET (0..(MaxEvents - 1))
      BY <3>1, RunClientAssumption
    <3> QED BY <3>2 DEF Recorded
  <2>2. page' = [page EXCEPT !.at = "read", !.events = {log[i] : i \in DOMAIN log}]
    BY <1>3 DEF ReadPage
  <2> HIDE DEF ClientTypeOK
  <2>3. page' \in [at : {"asked", "read", "answered", "lost", "done"},
                   events : SUBSET (0..(MaxEvents - 1)), live : BOOLEAN]
    BY <2>1, <2>2 DEF ClientTypeOK
  <2>4. UNCHANGED <<recorded, registered, poll, socket, connection, data, failed, settled, torn,
                    faults>>
    BY <1>3 DEF ReadPage, server, hook
  <2> QED BY <2>3, <2>4 DEF ClientTypeOK
<1>4. CASE AskPageLive
  <2>1. page' \in [at : {"asked", "read", "answered", "lost", "done"},
                   events : SUBSET (0..(MaxEvents - 1)), live : BOOLEAN]
    BY <1>4 DEF AskPageLive, StreamInv
  <2>2. torn' \in BOOLEAN
    BY <1>4, Zenon DEF AskPageLive
  <2> QED BY <1>4, <2>1, <2>2 DEF AskPageLive, server, hook
<1>5. CASE TakePage
  <2>1. poll' \in [at : {"asked", "read", "answered", "lost", "idle"}, final : BOOLEAN,
                   live : BOOLEAN, refetch : BOOLEAN]
    BY <1>5 DEF TakePage, RefetchOnClose
  <2> QED BY <1>5, <2>1 DEF TakePage, server
<1>6. CASE LosePage
  BY <1>6, RunClientAssumption DEF LosePage, server
<1>7. CASE ReadPoll
  <2>1. poll' \in [at : {"asked", "read", "answered", "lost", "idle"}, final : BOOLEAN,
                   live : BOOLEAN, refetch : BOOLEAN]
    BY <1>7 DEF ReadPoll, StreamInv
  <2> QED BY <1>7, <2>1 DEF ReadPoll, server, hook
<1>8. CASE AskPollLive
  <2>1. poll' \in [at : {"asked", "read", "answered", "lost", "idle"}, final : BOOLEAN,
                   live : BOOLEAN, refetch : BOOLEAN]
    BY <1>8 DEF AskPollLive, StreamInv
  <2> QED BY <1>8, <2>1 DEF AskPollLive, server, hook
<1>9. CASE TakePoll
  <2>1. socket' \in {socket, "connecting", "cancelled"}
    BY <1>9 DEF TakePoll, FollowLive
  <2>2. settled' \in BOOLEAN
    BY <1>9 DEF TakePoll, Settle
  <2>3. data' \in [known : BOOLEAN, final : BOOLEAN, live : BOOLEAN]
    BY <1>9 DEF TakePoll
  <2>4. poll' \in [at : {"asked", "read", "answered", "lost", "idle"}, final : BOOLEAN,
                   live : BOOLEAN, refetch : BOOLEAN]
    BY <1>9 DEF TakePoll
  <2>5. failed' \in BOOLEAN /\ UNCHANGED <<recorded, registered, page, connection, faults, torn>>
    BY <1>9, Zenon DEF TakePoll, server
  <2> HIDE DEF ClientTypeOK
  <2> QED BY <2>1, <2>2, <2>3, <2>4, <2>5 DEF ClientTypeOK
<1>10. CASE LosePoll
  <2>1. poll' \in [at : {"asked", "read", "answered", "lost", "idle"}, final : BOOLEAN,
                   live : BOOLEAN, refetch : BOOLEAN]
    BY <1>10 DEF LosePoll
  <2>2. faults' \in 0..MaxFaults
    BY <1>10, RunClientAssumption DEF LosePoll
  <2>3. failed' = failed \/ failed' = TRUE
    BY <1>10 DEF LosePoll
  <2>4. UNCHANGED <<recorded, registered, page, socket, connection, data, settled, torn>>
    BY <1>10 DEF LosePoll, server
  <2>5. failed' \in BOOLEAN
    BY <2>3, Zenon
  <2> HIDE DEF ClientTypeOK
  <2> QED BY <2>1, <2>2, <2>4, <2>5 DEF ClientTypeOK
<1>11. CASE PollAgain
  <2>1. poll' \in [at : {"asked", "read", "answered", "lost", "idle"}, final : BOOLEAN,
                   live : BOOLEAN, refetch : BOOLEAN]
    BY <1>11 DEF PollAgain
  <2>2. UNCHANGED <<recorded, registered, page, socket, connection, data, failed, settled, faults,
                    torn>>
    BY <1>11 DEF PollAgain, server, hook
  <2> HIDE DEF ClientTypeOK
  <2> QED BY <2>1, <2>2 DEF ClientTypeOK
<1>12. CASE OnOpen \/ OnMessage
  BY <1>12 DEF OnOpen, OnMessage, server
<1>14. CASE OnClose
  <2>1. poll' \in [at : {"asked", "read", "answered", "lost", "idle"}, final : BOOLEAN,
                   live : BOOLEAN, refetch : BOOLEAN]
    BY <1>14 DEF OnClose, RefetchOnClose
  <2> QED BY <1>14, <2>1 DEF OnClose, server
<1>13. CASE UNCHANGED vars
  BY <1>13 DEF vars, server, hook
<1> QED
  BY <1>1, <1>2, <1>3, <1>4, <1>5, <1>6, <1>7, <1>8, <1>9, <1>10, <1>11, <1>12, <1>13,
     <1>14 DEF Next, PollStep

LEMMA PageStep ==
  ASSUME StreamInv, ShownInv, ClientTypeOK, PageInv, [Next]_vars
  PROVE  PageInv'
<1>1. sealed => sealed' /\ log' = log
  BY StepsOfStream, StreamGrows
<1>2. CASE page'.at = page.at /\ page'.live = page.live /\ page'.events = page.events /\ torn' = torn
  BY <1>1, <1>2 DEF PageInv
<1>3. CASE AskPageLive
  <2>1. /\ page.at = "read" /\ page'.at = "answered" /\ page'.events = page.events
        /\ page'.live = ~sealed /\ UNCHANGED <<log, sealed>>
        /\ torn' <=> sealed /\ Cardinality(page.events) < Len(log)
    BY <1>3 DEF AskPageLive, ClientTypeOK, server
  <2>2. ASSUME sealed, ~torn' PROVE page.events = 0..(Len(log) - 1)
    <3>1. PICK k \in 0..Len(log) : page.events = 0..(k - 1)
      BY DEF ShownInv
    <3>2. Len(log) \in Nat
      BY DEF StreamInv
    <3>3. Cardinality(0..(k - 1)) = k
      BY <3>1, <3>2, FS_Interval
    <3> QED BY <2>1, <2>2, <3>1, <3>2, <3>3
  <2> QED BY <2>1, <2>2 DEF PageInv
<1>4. CASE page'.at \notin {"asked", "answered"} /\ (page'.at = "read" => page.at = "asked" /\ torn' = torn)
  BY <1>4 DEF PageInv
<1>5. CASE ReadPage \/ TakePage \/ LosePage
  BY <1>4, <1>5 DEF ReadPage, TakePage, LosePage, hook, ClientTypeOK
<1>6. CASE Crash
  <2>1. torn' = torn /\ (page' = page \/ page' = [page EXCEPT !.at = "lost"])
    BY <1>6 DEF Crash
  <2> QED BY <1>2, <1>4, <2>1 DEF ClientTypeOK
<1>7. CASE UNCHANGED <<page, torn>>
  BY <1>2, <1>7
<1>8. CASE Emit \/ RecordRun \/ FinishRun \/ Connect \/ Serve
  BY <1>7, <1>8 DEF Emit, RecordRun, FinishRun, Connect, Serve
<1>9. CASE PollStep \/ LosePoll \/ OnOpen \/ OnMessage \/ OnClose \/ UNCHANGED vars
  BY <1>7, <1>9 DEF PollStep, ReadPoll, AskPollLive, TakePoll, PollAgain, LosePoll, OnOpen,
                    OnMessage, OnClose, vars
<1> QED BY <1>3, <1>5, <1>6, <1>8, <1>9 DEF Next

LEMMA FinishedStep ==
  ASSUME Inv, [Next]_vars
  PROVE  FinishedIsComplete'
<1>1. StreamInv /\ ShownInv /\ ClientTypeOK /\ PageInv /\ FinishedIsComplete
  BY DEF Inv
<1>2. StreamStep /\ StreamInv' /\ ShownInv' /\ last' >= last
  BY <1>1, StepsOfStream, StreamInvStep, ShownStep
<1>3. /\ Len(log) \in Nat /\ Len(log') \in Nat /\ Len(log') >= Len(log)
      /\ sealed => sealed' /\ log' = log
      /\ view["socket"] = "gone" => view'["socket"] = "gone"
      /\ view["socket"] = "closed" => view'["socket"] = "closed" /\ UNCHANGED <<from, seen>>
  BY <1>1, <1>2, StreamGrows
<1>4. last \in Int /\ last' \in Int /\ last < Len(log) /\ last' < Len(log')
  BY <1>1, <1>2 DEF ShownInv
<1>5. last' = Len(log') - 1 => events' = Recorded'
  <2>1. (StreamInv => Recorded = 0..(Len(log) - 1))'
    BY RecordedIsPrefix, PTL
  <2> QED BY <1>2, <2>1 DEF ShownInv
<1>6. ASSUME sealed, events = Recorded PROVE last' = Len(log') - 1 /\ sealed'
  <2>1. 0..last = 0..(Len(log) - 1) /\ last >= -1
    BY <1>1, <1>6, RecordedIsPrefix DEF ShownInv
  <2>2. last = Len(log) - 1
    BY <1>3, <1>4, <2>1
  <2> QED BY <1>2, <1>3, <1>4, <1>6, <2>2
<1>7. CutShort => CutShort'
  <2> SUFFICES ASSUME CutShort PROVE CutShort'
    OBVIOUS
  <2>1. view["socket"] = "closed" /\ from["socket"] + Sent + 1 < Len(log)
    BY DEF CutShort, Sent
  <2>2. view'["socket"] = "closed" /\ from' = from /\ Sent' = Sent
    BY <1>3, <2>1 DEF Sent
  <2>3. Sent \in Nat /\ from["socket"] \in Int
    BY <1>1 DEF StreamInv, Sent, Viewers
  <2>4. from'["socket"] + Sent' + 1 < Len(log')
    BY <1>3, <2>1, <2>2, <2>3
  <2> QED BY <2>2, <2>4 DEF CutShort, Sent
<1>8. ASSUME connection = "closed", torn => torn' PROVE FinishedIsComplete'
  BY <1>1, <1>3, <1>5, <1>6, <1>7, <1>8 DEF FinishedIsComplete
<1>9. CASE AskPageLive
  <2>1. ~torn
    BY <1>1, <1>9 DEF AskPageLive, PageInv
  <2>2. connection' = connection
    BY <1>9 DEF AskPageLive, hook
  <2> QED BY <1>8, <2>1, <2>2 DEF FinishedIsComplete
<1>10. CASE TakePage
  <2>1. torn' = torn /\ UNCHANGED <<log, sealed>> /\ AppendEvents(page.events)
        /\ connection' = (IF page.live THEN connection ELSE "closed") /\ page.at = "answered"
    BY <1>10 DEF TakePage, server
  <2>2. CASE page.live
    BY <1>8, <2>1, <2>2 DEF FinishedIsComplete
  <2>3. CASE ~page.live /\ torn
    BY <2>1, <2>3 DEF FinishedIsComplete
  <2>4. CASE ~page.live /\ ~torn
    <3>1. sealed /\ page.events = 0..(Len(log) - 1)
      BY <1>1, <2>1, <2>4 DEF PageInv
    <3>2. last' = Len(log) - 1
      BY <1>1, <2>1, <3>1, PageAppends
    <3> QED BY <1>5, <2>1, <3>1, <3>2 DEF FinishedIsComplete
  <2> QED BY <2>2, <2>3, <2>4
<1>11. CASE OnClose
  <2>1. torn' = torn /\ UNCHANGED <<log, sealed, view, from, seen, shown>>
    BY <1>11 DEF OnClose, server
  <2>2. CASE view["socket"] = "closed" /\ received = Sent
    <3>1. sealed /\ from["socket"] + Sent <= last /\ Sent \in Nat /\ from["socket"] \in Int
      BY <1>1, <2>2 DEF StreamInv, ShownInv, Sent, Viewers
    <3>2. CASE from["socket"] + Sent + 1 < Len(log)
      <4>1. CutShort
        BY <2>2, <3>2 DEF CutShort, Sent
      <4> QED BY <1>7, <4>1 DEF FinishedIsComplete
    <3>3. CASE ~(from["socket"] + Sent + 1 < Len(log))
      <4>1. last' = Len(log') - 1
        BY <1>3, <1>4, <2>1, <3>1, <3>3 DEF shown
      <4> QED BY <1>5, <2>1, <3>1, <4>1 DEF FinishedIsComplete
    <3> QED BY <3>2, <3>3
  <2>3. CASE view["socket"] = "gone"
    BY <1>3, <2>3 DEF FinishedIsComplete
  <2>4. CASE connection' # "closed"
    BY <2>4 DEF FinishedIsComplete
  <2> QED BY <1>11, <2>2, <2>3, <2>4 DEF OnClose, Sent
<1>12. CASE connection' \in {connection, "live", "error"} /\ torn' = torn
  BY <1>8, <1>12 DEF FinishedIsComplete
<1>13. CASE Emit \/ RecordRun \/ FinishRun \/ Crash \/ Connect \/ Serve \/ ReadPage
  BY <1>12, <1>13 DEF Emit, RecordRun, FinishRun, Crash, Connect, Serve, ReadPage, hook
<1>14. CASE LosePage \/ PollStep \/ LosePoll \/ OnOpen \/ OnMessage \/ UNCHANGED vars
  BY <1>12, <1>14 DEF LosePage, PollStep, ReadPoll, AskPollLive, TakePoll, PollAgain, LosePoll,
                      OnOpen, OnMessage, vars, hook
<1> QED BY <1>9, <1>10, <1>11, <1>13, <1>14 DEF Next

LEMMA InvStep ==
  ASSUME Inv, [Next]_vars
  PROVE  Inv'
<1>1. StreamInv /\ ShownInv /\ ClientTypeOK /\ PageInv
  BY DEF Inv
<1>2. StreamInv'
  BY <1>1, StepsOfStream, StreamInvStep
<1> QED BY <1>1, <1>2, ShownStep, TypeStep, PageStep, FinishedStep DEF Inv

-----------------------------------------------------------------------------
(* Theorems *)

\* The variables of the client have their types.
THEOREM ClientTypeCorrect == Spec => []TypeOK
<1>1. ASSUME Inv PROVE TypeOK
  <2>1. StreamInv /\ ShownInv /\ ClientTypeOK
    BY <1>1 DEF Inv
  <2>2. Len(log) \in Nat /\ Len(log) <= MaxEvents /\ MaxEvents \in Nat /\ Sent \in Nat
        /\ from["socket"] \in Int /\ from["socket"] >= -1 /\ from["socket"] + Sent + 1 <= Len(log)
    BY <2>1, RunClientAssumption DEF StreamInv, Sent, Viewers
  <2>3. received \in 0..MaxEvents /\ after \in -1..(MaxEvents - 1) /\ last \in -1..(MaxEvents - 1)
    BY <2>1, <2>2 DEF ShownInv
  <2>4. events \subseteq Recorded
    BY <2>1, <2>2, RecordedIsPrefix DEF ShownInv
  <2> QED BY <2>1, <2>3, <2>4 DEF TypeOK, ClientTypeOK
<1> QED BY InvInit, InvStep, <1>1, PTL DEF Spec

\* What is shown is the log up to the last event that is, however page and socket overtake
\* each other.
THEOREM NoGapsInView == Spec => []ViewHasNoGaps
<1>1. Inv => ViewHasNoGaps
  BY DEF Inv, ShownInv, ViewHasNoGaps
<1> QED BY InvInit, InvStep, <1>1, PTL DEF Spec

\* A view labelled finished is complete, but for the three causes named.
THEOREM FinishedMeansComplete == Spec => []FinishedIsComplete
<1>1. Inv => FinishedIsComplete
  BY DEF Inv
<1> QED BY InvInit, InvStep, <1>1, PTL DEF Spec

\* A poll that says that the run is over says it rightly, and once the view has settled every
\* poll whose answer is still to come will say that it is, and that the outcome is final.
SettledInv ==
  /\ poll.at = "answered" /\ ~poll.live => sealed
  /\ poll.at \in {"read", "answered"} /\ poll.final => recorded \/ ~registered
  /\ settled => /\ SettledIsFinal
                /\ recorded \/ ~registered
                /\ poll.at \in {"read", "answered"} => poll.final
                /\ poll.at = "answered" => ~poll.live

LEMMA SettledStep ==
  ASSUME Inv, SettledInv, [Next]_vars
  PROVE  SettledInv'
<1>1. sealed => sealed'
  BY StepsOfStream, StreamGrows DEF Inv
<1>2. poll \in [at : {"asked", "read", "answered", "lost", "idle"},
               final : BOOLEAN, live : BOOLEAN, refetch : BOOLEAN]
      /\ data \in [known : BOOLEAN, final : BOOLEAN, live : BOOLEAN]
      /\ settled \in BOOLEAN /\ recorded \in BOOLEAN /\ registered \in BOOLEAN
  BY DEF Inv, ClientTypeOK
<1>3. recorded \/ ~registered => recorded' \/ ~registered'
  <2>1. CASE RecordRun \/ Crash
    BY <2>1 DEF RecordRun, Crash
  <2>2. CASE UNCHANGED <<recorded, registered>>
    BY <2>2
  <2>3. CASE Emit \/ FinishRun \/ Connect \/ Serve
    BY <2>2, <2>3 DEF Emit, FinishRun, Connect, Serve
  <2>4. CASE ReadPage \/ AskPageLive \/ TakePage \/ LosePage \/ PollStep \/ LosePoll
             \/ OnOpen \/ OnMessage \/ OnClose \/ UNCHANGED vars
    BY <2>2, <2>4 DEF ReadPage, AskPageLive, TakePage, LosePage, PollStep, ReadPoll, AskPollLive,
                      TakePoll, PollAgain, LosePoll, OnOpen, OnMessage, OnClose, vars, server
  <2> QED BY <2>1, <2>3, <2>4 DEF Next
<1>4. ASSUME UNCHANGED <<data, settled>>, poll' = poll \/ poll'.at \in {"asked", "lost", "idle"}
      PROVE  SettledInv'
  BY <1>1, <1>2, <1>3, <1>4 DEF SettledInv, SettledIsFinal
<1>5. CASE Emit \/ RecordRun \/ FinishRun \/ Connect \/ Serve \/ ReadPage \/ AskPageLive
           \/ LosePage \/ OnOpen \/ OnMessage \/ UNCHANGED vars
  <2>1. UNCHANGED <<poll, data, settled>>
    BY <1>5 DEF Emit, RecordRun, FinishRun, Connect, Serve, ReadPage, AskPageLive,
                LosePage, OnOpen, OnMessage, vars, hook
  <2> QED BY <1>4, <2>1
<1>6. CASE TakePage \/ OnClose
  <2>1. UNCHANGED <<data, settled>>
    BY <1>6 DEF TakePage, OnClose
  <2>2. RefetchOnClose
    BY <1>6 DEF TakePage, OnClose
  <2>3. poll' = poll \/ poll'.at = "asked"
    BY <1>2, <2>2 DEF RefetchOnClose
  <2> QED BY <1>4, <2>1, <2>3
<1>7. CASE Crash \/ LosePoll \/ PollAgain
  <2>1. UNCHANGED <<data, settled>>
    BY <1>7 DEF Crash, LosePoll, PollAgain, hook
  <2>2. poll' = poll \/ poll'.at \in {"asked", "lost", "idle"}
    BY <1>2, <1>7 DEF Crash, LosePoll, PollAgain
  <2> QED BY <1>4, <2>1, <2>2
<1>8. CASE ReadPoll
  <2>1. /\ poll'.at = "read" /\ (poll'.final <=> recorded \/ ~registered)
        /\ UNCHANGED <<data, settled, sealed, recorded, registered>>
    BY <1>2, <1>8 DEF ReadPoll, hook, server
  <2> QED BY <2>1 DEF SettledInv, SettledIsFinal
<1>9. CASE AskPollLive
  <2>1. /\ poll.at = "read" /\ poll'.at = "answered" /\ poll'.final = poll.final
        /\ poll'.live = ~sealed /\ UNCHANGED <<data, settled, sealed, recorded, registered>>
    BY <1>2, <1>9 DEF AskPollLive, hook, server
  <2> QED BY <2>1 DEF SettledInv, SettledIsFinal
<1>10. CASE TakePoll
  <2>1. /\ poll.at = "answered" /\ poll'.at = "idle"
        /\ data' = [known |-> TRUE, final |-> poll.final, live |-> poll.live]
        /\ settled' = (settled \/ (poll.final /\ ~poll.live))
        /\ UNCHANGED <<sealed, recorded, registered>>
    BY <1>2, <1>10 DEF TakePoll, Settle, server
  <2> QED BY <2>1 DEF SettledInv, SettledIsFinal
<1> QED BY <1>5, <1>6, <1>7, <1>8, <1>9, <1>10 DEF Next, PollStep

\* A view that has settled shows a final summary of a run that is over, and no later poll
\* takes that back: the part of RunSettles that holds without fairness, whatever order the
\* two looks of get_run, the end of the run, the refetches and a crash come in
\* (RunDetail.tsx:25-28, 44-52).
THEOREM SettledStaysFinal == Spec => []SettledIsFinal
<1>1. Init => SettledInv
  BY DEF Init, SettledInv
<1>2. SettledInv => SettledIsFinal
  BY DEF SettledInv, SettledIsFinal
<1> QED BY InvInit, InvStep, SettledStep, <1>1, <1>2, PTL DEF Spec
=============================================================================
