-------------------------- MODULE LiveStreamProofs --------------------------
(***************************************************************************)
(* Proofs about LiveStream for every set of viewers, queue size and number *)
(* of events.                                                              *)
(***************************************************************************)
EXTENDS LiveStream, SequenceTheorems, TLAPS

-----------------------------------------------------------------------------
(* Type correctness *)

LEMMA TypeInit == Init => TypeOK
<1> SUFFICES ASSUME Init PROVE TypeOK
  OBVIOUS
<1>1. \A S : <<>> \in Seq(S)
  OBVIOUS
<1>2. /\ stage \in [Viewers -> Stages]
      /\ after \in [Viewers -> Nat \cup {-1}] /\ lastSent \in [Viewers -> Nat \cup {-1}]
      /\ cursor \in [Viewers -> Nat \ {0}]
  BY DEF Init, Stages
<1>3. /\ snapshot \in [Viewers -> Seq(Nat)] /\ received \in [Viewers -> Seq(Nat)]
      /\ queue \in [Viewers -> Seq(Nat \cup {Sentinel})]
  BY <1>1 DEF Init
<1>4. \A v \in Viewers : Len(queue[v]) <= QueueSize
  <2>1. \A v \in Viewers : Len(queue[v]) = 0
    BY DEF Init
  <2>2. 0 <= QueueSize
    BY LiveStreamAssumption
  <2> QED BY <2>1, <2>2
<1> QED BY <1>1, <1>2, <1>3, <1>4 DEF Init, TypeOK

LEMMA LenNat == \A s \in Seq(Nat) : Len(s) \in Nat
  OBVIOUS
LEMMA AppendTyped == \A s \in Seq(Nat), e \in Nat : Append(s, e) \in Seq(Nat)
  OBVIOUS

LEMMA TypeRun ==
  ASSUME TypeOK, Emit \/ EmitFails \/ Finish \/ Restart
  PROVE  TypeOK'
<1> USE LiveStreamAssumption
<1>1. CASE Emit
  <2> USE <1>1 DEF TypeOK, Emit, Publish, HasRoom
  <2>1. sink' \in Seq(Nat) /\ journal' \in Seq(Nat) /\ events' \in Seq(Nat)
    BY LenNat, AppendTyped
  <2>2. queue' \in [Viewers -> Seq(Nat \cup {Sentinel})]
    <3>1. ASSUME NEW v \in Viewers
          PROVE  Append(queue[v], Len(sink)) \in Seq(Nat \cup {Sentinel})
      OBVIOUS
    <3> QED BY <3>1, SMTT(30)
  <2>3. ASSUME NEW v \in Viewers PROVE Len(queue'[v]) <= QueueSize
    <3>1. CASE v \in subscribers /\ Len(queue[v]) < QueueSize
      <4>1. queue'[v] = Append(queue[v], Len(sink))
        BY <3>1
      <4>2. Len(queue'[v]) = Len(queue[v]) + 1
        BY <4>1, queue[v] \in Seq(Nat \cup {Sentinel})
      <4> QED BY <4>2, <3>1, queue[v] \in Seq(Nat \cup {Sentinel})
    <3>2. CASE ~(v \in subscribers /\ Len(queue[v]) < QueueSize)
      BY <3>2
    <3> QED BY <3>1, <3>2
  <2> QED BY <2>1, <2>2, <2>3
<1>2. CASE EmitFails
  BY <1>2 DEF TypeOK, EmitFails, viewerVars
<1>3. CASE Finish
  <2> USE <1>3 DEF TypeOK, Finish, HasRoom
  <2>1. queue' \in [Viewers -> Seq(Nat \cup {Sentinel})]
    OBVIOUS
  <2>2. ASSUME NEW v \in Viewers PROVE Len(queue'[v]) <= QueueSize
    <3>1. CASE v \in subscribers /\ Len(queue[v]) < QueueSize
      <4>1. queue'[v] = Append(queue[v], Sentinel)
        BY <3>1
      <4>2. Len(queue'[v]) = Len(queue[v]) + 1
        BY <4>1, queue[v] \in Seq(Nat \cup {Sentinel})
      <4> QED BY <4>2, <3>1, queue[v] \in Seq(Nat \cup {Sentinel})
    <3>2. CASE ~(v \in subscribers /\ Len(queue[v]) < QueueSize)
      BY <3>2
    <3> QED BY <3>1, <3>2
  <2> QED BY <2>1, <2>2
<1>4. CASE Restart
  BY <1>4 DEF TypeOK, Restart, Stages, Open
<1> QED BY <1>1, <1>2, <1>3, <1>4

\* A send changes only the viewer's log and last_sent, or ends its handler.
LEMMA SendTyped ==
  ASSUME TypeOK, NEW v \in Viewers, NEW e \in Nat, Send(v, e)
  PROVE  /\ stage' \in [Viewers -> Stages]
         /\ received' \in [Viewers -> Seq(Nat)]
         /\ lastSent' \in [Viewers -> Nat \cup {-1}]
<1>1. CASE connected[v]
  <2>1. /\ received' = [received EXCEPT ![v] = Append(@, e)]
        /\ lastSent' = [lastSent EXCEPT ![v] = e]
        /\ stage' = stage
    BY <1>1 DEF Send
  <2>2. Append(received[v], e) \in Seq(Nat)
    BY DEF TypeOK
  <2> QED BY <2>1, <2>2 DEF TypeOK
<1>2. CASE ~connected[v]
  <2>1. /\ stage' = [stage EXCEPT ![v] = "aborting"]
        /\ received' = received /\ lastSent' = lastSent
    BY <1>2 DEF Send
  <2> QED BY <2>1, SMTT(30) DEF TypeOK, Stages
<1> QED BY <1>1, <1>2

LEMMA TypeViewer ==
  ASSUME TypeOK, NEW v \in Viewers, ViewerStep(v)
  PROVE  TypeOK'
<1> USE LiveStreamAssumption DEF TypeOK, Stages, runVars
<1>1. ASSUME NEW a \in AfterValues, ConnectLive(v, a) PROVE TypeOK'
  <2>1. a \in Nat \cup {-1}
    OBVIOUS
  <2>2. after' \in [Viewers -> Nat \cup {-1}] /\ lastSent' \in [Viewers -> Nat \cup {-1}]
    BY <1>1, <2>1 DEF ConnectLive
  <2>3. snapshot' \in [Viewers -> Seq(Nat)]
    BY <1>1 DEF ConnectLive
  <2>4. \E s \in Stages : stage' = [stage EXCEPT ![v] = s]
    BY <1>1 DEF ConnectLive
  <2>5. stage' \in [Viewers -> Stages] /\ subscribers' \subseteq Viewers
    BY <1>1, <2>4 DEF ConnectLive
  <2> QED BY <1>1, <2>2, <2>3, <2>5 DEF ConnectLive
<1>2. ASSUME NEW a \in AfterValues, ConnectReplay(v, a) PROVE TypeOK'
  BY <1>2 DEF ConnectReplay
<1>3. CASE SendBacklog(v)
  <2>1. PICK k \in Unsent(snapshot[v], cursor[v], lastSent[v]) :
          /\ Send(v, snapshot[v][k])
          /\ cursor' = [cursor EXCEPT ![v] = k + 1]
    BY <1>3 DEF SendBacklog
  <2>2. k \in 1..Len(snapshot[v]) /\ snapshot[v][k] \in Nat
    BY <2>1 DEF Unsent
  <2>3. cursor' \in [Viewers -> Nat \ {0}]
    BY <2>1, <2>2
  <2> QED BY <1>3, <2>1, <2>2, <2>3, SendTyped DEF SendBacklog
<1>4. CASE EndBacklog(v)
  <2>1. /\ UNCHANGED <<runVars, connected, after, snapshot, cursor, queue, lastSent, received>>
        /\ subscribers' \subseteq subscribers
        /\ \E s \in Stages : stage' = [stage EXCEPT ![v] = s]
    <3>1. CASE finished
      BY <1>4, <3>1 DEF EndBacklog, Close
    <3>2. CASE ~finished
      BY <1>4, <3>2, SMTT(30) DEF EndBacklog
    <3> QED BY <3>1, <3>2
  <2> QED BY <2>1, SMTT(30)
<1>5. CASE EndReplay(v)
  BY <1>5 DEF EndReplay, Close
<1>6. CASE TakeEvent(v)
  <2>1. Head(queue[v]) \in Nat /\ Tail(queue[v]) \in Seq(Nat \cup {Sentinel})
        /\ Len(Tail(queue[v])) <= QueueSize
    BY <1>6 DEF TakeEvent
  <2>2. /\ stage' \in [Viewers -> Stages]
        /\ received' \in [Viewers -> Seq(Nat)]
        /\ lastSent' \in [Viewers -> Nat \cup {-1}]
    <3>1. CASE Send(v, Head(queue[v]))
      BY <2>1, <3>1, SendTyped
    <3>2. CASE UNCHANGED <<stage, received, lastSent>>
      BY <3>2
    <3> QED BY <1>6, <3>1, <3>2 DEF TakeEvent
  <2> QED BY <1>6, <2>1, <2>2 DEF TakeEvent
<1>7. CASE TakeSentinel(v)
  <2>1. Tail(queue[v]) \in Seq(Nat \cup {Sentinel}) /\ Len(Tail(queue[v])) <= QueueSize
    BY <1>7 DEF TakeSentinel
  <2> QED BY <1>7, <2>1 DEF TakeSentinel, Close
<1>8. CASE Finalise(v)
  BY <1>8 DEF Finalise
<1>9. CASE Vanish(v)
  BY <1>9 DEF Vanish
<1> QED
  BY <1>1, <1>2, <1>3, <1>4, <1>5, <1>6, <1>7, <1>8, <1>9 DEF ViewerStep, HandlerStep

\* Every variable keeps its type and no subscriber queue outgrows SUBSCRIBER_QUEUE_SIZE,
\* whatever its value and however many viewers follow the run.
THEOREM TypeCorrect == Spec => []TypeOK
<1>1. TypeOK /\ [Next]_vars => TypeOK'
  <2> SUFFICES ASSUME TypeOK, [Next]_vars PROVE TypeOK'
    OBVIOUS
  <2>1. CASE UNCHANGED vars
    BY <2>1 DEF TypeOK, vars, runVars, viewerVars
  <2>2. CASE Next
    BY <2>2, TypeRun, TypeViewer DEF Next
  <2> QED BY <2>1, <2>2
<1> QED BY TypeInit, <1>1, PTL DEF Spec

-----------------------------------------------------------------------------
(* The inductive invariant *)

\* What the invariant says of one viewer.
ViewerInv(v) == SentInv(v) /\ (stage[v] \in {"backlog", "live"} => QueueInv(v))

LEMMA StreamInvInit == Init => StreamInv
<1> SUFFICES ASSUME Init PROVE StreamInv
  OBVIOUS
<1>1. LogInv
  BY DEF Init, LogInv
<1>2. ASSUME NEW v \in Viewers PROVE SentInv(v) /\ stage[v] \notin {"backlog", "live"}
  <2>1. /\ stage[v] = "idle" /\ cursor[v] = 1 /\ v \notin subscribers
        /\ queue[v] = <<>> /\ received[v] = <<>> /\ snapshot[v] = <<>> /\ journal = <<>>
    BY DEF Init
  <2> QED BY <2>1 DEF SentInv
<1>3. EndInv
  BY DEF Init, EndInv
<1> QED BY <1>1, <1>2, <1>3 DEF StreamInv

\* A step that leaves a viewer and the log alone keeps what the invariant says of it.
LEMMA ViewerFrame ==
  ASSUME NEW w \in Viewers, ViewerInv(w),
         UNCHANGED <<journal, finished>>,
         /\ stage'[w] = stage[w] /\ after'[w] = after[w] /\ snapshot'[w] = snapshot[w]
         /\ cursor'[w] = cursor[w] /\ queue'[w] = queue[w] /\ lastSent'[w] = lastSent[w]
         /\ received'[w] = received[w],
         w \in subscribers' => w \in subscribers
  PROVE  ViewerInv(w)'
<1>1. SentInv(w)'
  BY DEF ViewerInv, SentInv
<1>2. ASSUME stage'[w] \in {"backlog", "live"} PROVE QueueInv(w)'
  <2>1. QueueInv(w)
    BY <1>2 DEF ViewerInv
  <2>2. Needed(w)' = Needed(w)
    BY DEF Needed
  <2> QED BY <2>1, <2>2 DEF QueueInv
<1> QED BY <1>1, <1>2 DEF ViewerInv

LEMMA EmitKeepsViewer ==
  ASSUME TypeOK, LogInv, Emit, NEW v \in Viewers, ViewerInv(v)
  PROVE  ViewerInv(v)'
<1> DEFINE n == Len(journal)
           q == queue[v]
<1>1. /\ n \in Nat
      /\ q \in Seq(Nat \cup {Sentinel})
      /\ ~finished /\ ~finished'
      /\ Len(journal') = n + 1
      /\ \A i \in 1..n : journal'[i] = journal[i]
      /\ UNCHANGED <<stage, after, snapshot, cursor, lastSent, received>>
  BY DEF TypeOK, LogInv, Emit, Publish
<1>t. /\ after[v] \in Int /\ lastSent[v] \in Int /\ cursor[v] \in Int
      /\ Len(snapshot[v]) \in Int /\ Len(q) \in Nat
  BY DEF TypeOK
<1>s. queue'[v] = q \/ stage[v] # "idle" => SentInv(v)'
  <2>1. SentInv(v) /\ (v \in subscribers' => v \in subscribers)
    BY DEF ViewerInv, Emit, Publish
  <2>2. lastSent[v] < n => lastSent[v] < n + 1
    BY <1>1, <1>t
  <2>3. Len(snapshot[v]) <= n => Len(snapshot[v]) <= n + 1
    BY <1>1, <1>t
  <2> QED BY <2>1, <2>2, <2>3, <1>1 DEF SentInv
<1>2. CASE v \in subscribers /\ HasRoom(v)
  <2>1. v \in subscribers' /\ stage[v] # "idle"
    BY <1>2 DEF ViewerInv, SentInv, Emit, Publish
  <2>2. queue'[v] = Append(q, n)
    BY <1>2 DEF Emit, Publish, LogInv
  <2>3. /\ queue'[v] # <<>>
        /\ Len(queue'[v]) = Len(q) + 1
        /\ queue'[v][Len(q) + 1] = n
        /\ \A i \in 1..Len(q) : queue'[v][i] = q[i]
        /\ n # Sentinel
    <3>1. n \in Nat \cup {Sentinel} /\ n # Sentinel
      BY <1>1, LiveStreamAssumption
    <3> QED BY <3>1, <2>2, <1>1
  <2>4. SentInv(v)'
    BY <1>s, <2>1
  <2>5. ASSUME stage[v] \in {"backlog", "live"} PROVE QueueInv(v)'
    <3>1. QueueInv(v) /\ Needed(v)' = Needed(v) /\ Needed(v) \in Int
      BY <2>5, <1>1, <1>t DEF ViewerInv, Needed
    <3>2. \A i \in 1..Len(q) : q[i] # Sentinel
      BY <3>1, <1>1 DEF QueueInv
    <3>3. CASE q = <<>>
      <4>1. Len(q) = 0 /\ n <= Needed(v)
        BY <3>3, <3>1, <1>1, <1>2 DEF QueueInv
      <4> QED BY <4>1, <2>3, <3>1, <1>1 DEF QueueInv
    <3>4. CASE q # <<>>
      <4>1. /\ Len(q) >= 1 /\ Len(q) \in Nat
            /\ q[1] + Len(q) = n /\ q[1] <= Needed(v) /\ q[1] \in Nat
            /\ \A i \in 1..Len(q) : q[i] = q[1] + i - 1 /\ q[i] < n
        <5>1. Len(q) >= 1 /\ Len(q) \in Nat /\ 1 \in 1..Len(q)
          BY <3>4, <1>t
        <5>2. q[1] # Sentinel /\ q[1] \in Nat
          BY <5>1, <3>2, <1>1
        <5>3. \A i \in 1..Len(q) : q[i] = q[1] + i - 1 /\ q[i] < n
          BY <3>1, <3>2 DEF QueueInv
        <5>4. q[1] <= Needed(v)
          BY <3>4, <3>1, <5>2 DEF QueueInv
        <5>5. q[1] + Len(q) = n
          BY <3>4, <3>1, <1>1, <1>2 DEF QueueInv
        <5> QED BY <5>1, <5>2, <5>3, <5>4, <5>5
      <4>2. \A i \in 1..Len(queue'[v]) :
              queue'[v][i] = queue'[v][1] + i - 1 /\ queue'[v][i] < Len(journal')
        <5>1. ASSUME NEW i \in 1..Len(q) + 1
              PROVE  queue'[v][i] = q[1] + i - 1 /\ queue'[v][i] < n + 1
          <6>1. CASE i \in 1..Len(q)
            <7>1. queue'[v][i] = q[i] /\ q[i] = q[1] + i - 1 /\ q[i] < n /\ i \in Int
              BY <6>1, <4>1, <2>3
            <7> QED BY <7>1, <4>1, <1>1
          <6>2. CASE i = Len(q) + 1
            BY <6>2, <4>1, <2>3, <1>1
          <6> QED BY <6>1, <6>2, <1>t
        <5>2. queue'[v][1] = q[1]
          BY <4>1, <2>3
        <5> QED BY <5>1, <5>2, <2>3, <1>1
      <4>3. ASSUME NEW i \in 1..Len(queue'[v]) PROVE queue'[v][i] # Sentinel
        <5>1. i \in 1..Len(q) \/ i = Len(q) + 1
          BY <2>3, <1>t
        <5> QED BY <5>1, <2>3, <3>2
      <4>4. queue'[v][1] = q[1] /\ Len(queue'[v]) \in 1..Len(queue'[v])
        BY <4>1, <2>3
      <4>5. q[1] + (Len(q) + 1) = n + 1
        <5>1. \A a, b, c \in Int : a + b = c => a + (b + 1) = c + 1
          OBVIOUS
        <5>2. q[1] \in Int /\ Len(q) \in Int /\ n \in Int /\ q[1] + Len(q) = n
          BY <4>1, <1>1
        <5> HIDE DEF q, n
        <5> QED BY <5>1, <5>2
      <4>6. queue'[v][1] + Len(queue'[v]) = Len(journal') /\ queue'[v][1] <= Needed(v)'
        BY <4>1, <4>4, <4>5, <2>3, <3>1, <1>1
      <4>7. queue'[v][Len(queue'[v])] # Sentinel /\ queue'[v] # <<>>
        BY <4>3, <4>4, <2>3
      <4> QED BY <4>2, <4>3, <4>6, <4>7 DEF QueueInv
    <3> QED BY <3>3, <3>4
  <2> QED BY <2>4, <2>5, <1>1 DEF ViewerInv
<1>3. CASE ~(v \in subscribers /\ HasRoom(v))
  <2>1. queue'[v] = q /\ v \notin subscribers'
    BY <1>3 DEF Emit, Publish
  <2>2. SentInv(v)'
    BY <1>s, <2>1
  <2>3. ASSUME stage[v] \in {"backlog", "live"} PROVE QueueInv(v)'
    <3>1. QueueInv(v) /\ Needed(v)' = Needed(v)
      BY <2>3, <1>1 DEF ViewerInv, Needed
    <3>2. \A i \in 1..Len(q) : q[i] # Sentinel
      BY <3>1, <1>1 DEF QueueInv
    <3>3. \A i \in 1..Len(q) : q[i] = q[1] + i - 1 /\ q[i] < n + 1
      <4>1. \A i \in 1..Len(q) : q[i] = q[1] + i - 1 /\ q[i] < n /\ q[i] \in Nat
        BY <3>1, <3>2, <1>1 DEF QueueInv
      <4> QED BY <4>1, <1>1
    <3>4. q # <<>> => Len(q) \in 1..Len(q)
      BY <1>1
    <3>5. v \notin subscribers' /\ Len(journal') = n + 1
      BY <2>1, <1>1
    <3>6. q # <<>> => q[Len(q)] # Sentinel
      BY <3>2, <3>4
    <3>7. q # <<>> => q[1] <= Needed(v)'
      <4>1. q # <<>> => 1 \in 1..Len(q)
        BY <1>1
      <4> QED BY <4>1, <3>1, <3>2 DEF QueueInv
    <3> QED BY <3>2, <3>3, <3>5, <3>6, <3>7, <2>1, SMTT(30) DEF QueueInv
  <2> QED BY <2>2, <2>3, <1>1 DEF ViewerInv
<1> QED BY <1>2, <1>3

LEMMA FinishKeepsViewer ==
  ASSUME TypeOK, LogInv, Finish, NEW v \in Viewers, ViewerInv(v)
  PROVE  ViewerInv(v)'
<1> DEFINE q == queue[v]
<1>1. /\ q \in Seq(Nat \cup {Sentinel})
      /\ ~finished /\ finished'
      /\ UNCHANGED <<journal, subscribers, stage, after, snapshot, cursor, lastSent, received>>
  BY DEF TypeOK, LogInv, Finish
<1>2. CASE v \in subscribers /\ HasRoom(v)
  <2>1. queue'[v] = Append(q, Sentinel) /\ stage[v] # "idle"
    BY <1>2 DEF Finish, ViewerInv, SentInv
  <2>2. /\ queue'[v] # <<>>
        /\ Len(queue'[v]) = Len(q) + 1
        /\ queue'[v][Len(q) + 1] = Sentinel
        /\ \A i \in 1..Len(q) : queue'[v][i] = q[i]
    BY <2>1, <1>1
  <2>3. SentInv(v)'
    BY <1>1, <2>1 DEF ViewerInv, SentInv
  <2>4. ASSUME stage[v] \in {"backlog", "live"} PROVE QueueInv(v)'
    <3>1. QueueInv(v) /\ Needed(v)' = Needed(v)
      BY <2>4, <1>1 DEF ViewerInv, Needed
    <3>2. \A i \in 1..Len(q) : q[i] # Sentinel
      BY <3>1, <1>1 DEF QueueInv
    <3>3. CASE q = <<>>
      <4>1. Len(q) = 0 /\ Len(journal) <= Needed(v)
        BY <3>3, <3>1, <1>1, <1>2 DEF QueueInv
      <4> QED BY <4>1, <2>2, <3>1, <1>1 DEF QueueInv
    <3>4. CASE q # <<>>
      <4>1. /\ Len(q) >= 1 /\ Len(q) \in Nat
            /\ q[1] + Len(q) = Len(journal) /\ q[1] <= Needed(v) /\ q[1] # Sentinel
            /\ \A i \in 1..Len(q) : q[i] = q[1] + i - 1 /\ q[i] < Len(journal)
        <5>1. Len(q) >= 1 /\ Len(q) \in Nat /\ 1 \in 1..Len(q)
          BY <3>4, <1>1
        <5>2. q[1] # Sentinel /\ q[1] \in Nat
          BY <5>1, <3>2, <1>1
        <5>3. \A i \in 1..Len(q) : q[i] = q[1] + i - 1 /\ q[i] < Len(journal)
          BY <3>1, <3>2 DEF QueueInv
        <5>4. q[1] <= Needed(v)
          BY <3>4, <3>1, <5>2 DEF QueueInv
        <5>5. q[1] + Len(q) = Len(journal)
          BY <3>4, <3>1, <1>1, <1>2 DEF QueueInv
        <5> QED BY <5>1, <5>2, <5>3, <5>4, <5>5
      <4>2. \A i \in 1..Len(queue'[v]) : queue'[v][i] # Sentinel =>
              queue'[v][i] = queue'[v][1] + i - 1 /\ queue'[v][i] < Len(journal)
        BY <4>1, <2>2, SMTT(30)
      <4>3. \A i \in 1..Len(queue'[v]) : queue'[v][i] = Sentinel => i = Len(queue'[v])
        BY <2>2, <3>2, <4>1, SMTT(30)
      <4>4. queue'[v][1] = q[1] /\ Len(queue'[v]) # 1 /\ Len(queue'[v]) - 1 = Len(q)
        BY <2>2, <4>1
      <4> QED BY <4>1, <4>2, <4>3, <4>4, <2>2, <3>1, <1>1 DEF QueueInv
    <3> QED BY <3>3, <3>4
  <2> QED BY <2>3, <2>4, <1>1 DEF ViewerInv
<1>3. CASE ~(v \in subscribers /\ HasRoom(v))
  <2>1. queue'[v] = q
    BY <1>3 DEF Finish
  <2>2. SentInv(v)'
    BY <1>1, <2>1 DEF ViewerInv, SentInv
  <2>3. ASSUME stage[v] \in {"backlog", "live"} PROVE QueueInv(v)'
    <3>1. QueueInv(v) /\ Needed(v)' = Needed(v)
      BY <2>3, <1>1 DEF ViewerInv, Needed
    <3> QED BY <3>1, <2>1, <1>1 DEF QueueInv
  <2> QED BY <2>2, <2>3, <1>1 DEF ViewerInv
<1> QED BY <1>2, <1>3

\* The next element of a snapshot to be sent is the one after last_sent.
LEMMA UnsentNext ==
  ASSUME NEW s \in Seq(Nat), \A i \in 1..Len(s) : s[i] = i - 1,
         NEW i \in Nat \ {0}, NEW sent \in Nat \cup {-1}, i <= sent + 2
  PROVE  /\ Unsent(s, i, sent) = {} => Len(s) <= sent + 1
         /\ \A k \in Unsent(s, i, sent) :
              (\A j \in Unsent(s, i, sent) : k <= j)
                => k = sent + 2 /\ s[k] = sent + 1 /\ k <= Len(s)
<1>1. ASSUME sent + 2 <= Len(s) PROVE sent + 2 \in Unsent(s, i, sent)
  <2>1. sent + 2 \in i..Len(s) /\ sent + 2 \in 1..Len(s)
    BY <1>1
  <2>2. s[sent + 2] = sent + 1
    BY <2>1
  <2> QED BY <2>1, <2>2 DEF Unsent
<1>2. ASSUME NEW k \in Unsent(s, i, sent)
      PROVE  k \in 1..Len(s) /\ s[k] = k - 1 /\ k >= sent + 2
  <2>1. k \in 1..Len(s) /\ s[k] > sent
    BY DEF Unsent
  <2>2. s[k] = k - 1
    BY <2>1
  <2> QED BY <2>1, <2>2
<1>3. Len(s) \in Nat
  OBVIOUS
<1> QED BY <1>1, <1>2, <1>3

\* Sending the event after last_sent keeps what was sent contiguous.
LEMMA SendKeepsSent ==
  ASSUME TypeOK, NEW v \in Viewers, SentInv(v), stage[v] \in Open,
         NEW e \in Nat, e = lastSent[v] + 1, e < Len(journal), Send(v, e),
         UNCHANGED <<journal, subscribers, after, snapshot>>,
         stage[v] \in {"backlog", "replay"} => cursor'[v] <= e + 2
  PROVE  SentInv(v)'
<1>1. stage'[v] # "idle"
  BY DEF Send, Open, TypeOK
<1>2. /\ after[v] \in Int /\ lastSent[v] \in Int /\ after[v] <= lastSent[v]
      /\ received[v] \in Seq(Nat) /\ Len(received[v]) = lastSent[v] - after[v]
      /\ \A i \in 1..Len(received[v]) : received[v][i] = after[v] + i
      /\ lastSent[v] > after[v] => lastSent[v] < Len(journal)
  <2>1. after[v] \in Int /\ lastSent[v] \in Int /\ received[v] \in Seq(Nat)
    BY DEF TypeOK
  <2>2. stage[v] # "idle"
    BY DEF Open
  <2>3. /\ after[v] <= lastSent[v] /\ Len(received[v]) = lastSent[v] - after[v]
        /\ lastSent[v] > after[v] => lastSent[v] < Len(journal)
    BY <2>2 DEF SentInv
  <2>4. \A i \in 1..Len(received[v]) : received[v][i] = after[v] + i
    BY DEF SentInv
  <2> QED BY <2>1, <2>3, <2>4
<1>3. CASE connected[v]
  <2>1. /\ received'[v] = Append(received[v], e)
        /\ lastSent'[v] = e
        /\ stage' = stage
    BY <1>3 DEF Send, TypeOK
  <2>2. /\ Len(received'[v]) = Len(received[v]) + 1
        /\ received'[v][Len(received[v]) + 1] = e
        /\ \A i \in 1..Len(received[v]) : received'[v][i] = received[v][i]
    BY <2>1, <1>2
  <2>3. ASSUME NEW i \in 1..Len(received'[v]) PROVE received'[v][i] = after[v] + i
    <3>1. CASE i \in 1..Len(received[v])
      BY <3>1, <2>2, <1>2
    <3>2. CASE i = Len(received[v]) + 1
      BY <3>2, <2>2, <1>2
    <3> QED BY <3>1, <3>2, <2>2, <1>2
  <2>4. Len(received'[v]) = e - after[v] /\ after[v] <= e
    BY <2>2, <1>2
  <2> QED BY <1>1, <1>2, <2>1, <2>3, <2>4 DEF SentInv
<1>4. CASE ~connected[v]
  <2>1. stage'[v] = "aborting" /\ received' = received /\ lastSent' = lastSent
    BY <1>4 DEF Send, TypeOK
  <2> QED BY <1>2, <2>1 DEF SentInv, Open
<1> QED BY <1>3, <1>4

LEMMA ConnectKeepsViewer ==
  ASSUME TypeOK, LogInv, NEW v \in Viewers, ViewerInv(v), NEW a \in AfterValues,
         ConnectLive(v, a) \/ ConnectReplay(v, a)
  PROVE  ViewerInv(v)'
<1>1. /\ a \in Nat \cup {-1}
      /\ queue[v] = <<>> /\ cursor[v] = 1 /\ received[v] = <<>>
      /\ events = journal /\ journal \in Seq(Nat)
      /\ \A i \in 1..Len(journal) : journal[i] = i - 1
      /\ v \notin subscribers
  BY LiveStreamAssumption
     DEF TypeOK, LogInv, ViewerInv, SentInv, ConnectLive, ConnectReplay
<1>2. /\ after'[v] = a /\ lastSent'[v] = a /\ snapshot'[v] = journal
      /\ queue'[v] = <<>> /\ cursor'[v] = 1 /\ received'[v] = <<>> /\ journal' = journal
      /\ stage'[v] # "idle" /\ finished' = finished
  BY <1>1 DEF ConnectLive, ConnectReplay, TypeOK, runVars
<1>3. SentInv(v)'
  <2>1. Len(<<>>) = a - a /\ 1 <= a + 2
    BY <1>1
  <2> QED BY <1>1, <1>2, <2>1 DEF SentInv
<1>4. ASSUME stage'[v] \in {"backlog", "live"} PROVE QueueInv(v)'
  <2>1. stage'[v] = "live" => Len(journal) <= a + 1
    <3>1. stage'[v] = "live" => Unsent(journal, 1, a) = {}
      BY <1>1 DEF ConnectLive, ConnectReplay, TypeOK
    <3>2. 1 \in Nat \ {0} /\ 1 <= a + 2
      BY <1>1
    <3>3. Unsent(journal, 1, a) = {} => Len(journal) <= a + 1
      BY <3>2, <1>1, UnsentNext
    <3> QED BY <3>1, <3>3
  <2>2. Len(journal) <= Needed(v)'
    BY <2>1, <1>2, <1>4, <1>1 DEF Needed
  <2>3. Len(queue'[v]) = 0
    BY <1>2
  <2> QED BY <2>2, <2>3, <1>2 DEF QueueInv
<1> QED BY <1>3, <1>4 DEF ViewerInv

\* What the snapshot loop sends, and what of the queue is sent, is the event after last_sent.
LEMMA BacklogSends ==
  ASSUME TypeOK, NEW v \in Viewers, SentInv(v), SendBacklog(v)
  PROVE  /\ lastSent[v] + 1 \in Nat /\ lastSent[v] + 1 < Len(journal)
         /\ Send(v, lastSent[v] + 1) /\ cursor'[v] = lastSent[v] + 3
<1>1. PICK k \in Unsent(snapshot[v], cursor[v], lastSent[v]) :
        /\ \A j \in Unsent(snapshot[v], cursor[v], lastSent[v]) : k <= j
        /\ Send(v, snapshot[v][k])
        /\ cursor' = [cursor EXCEPT ![v] = k + 1]
  BY DEF SendBacklog
<1>2. /\ snapshot[v] \in Seq(Nat) /\ cursor[v] \in Nat \ {0}
      /\ lastSent[v] \in Nat \cup {-1} /\ cursor[v] <= lastSent[v] + 2
      /\ \A i \in 1..Len(snapshot[v]) : snapshot[v][i] = i - 1
      /\ Len(snapshot[v]) <= Len(journal) /\ journal \in Seq(Nat)
  BY DEF SendBacklog, SentInv, TypeOK
<1>3. k = lastSent[v] + 2 /\ snapshot[v][k] = lastSent[v] + 1 /\ k <= Len(snapshot[v])
  BY <1>1, <1>2, UnsentNext
<1>4. cursor'[v] = k + 1
  BY <1>1 DEF TypeOK
<1>5. \A l \in Nat \cup {-1} : \A m, n \in Nat : l + 2 <= m /\ m <= n
        => l + 1 \in Nat /\ l + 1 < n /\ (l + 2) + 1 = l + 3
  OBVIOUS
<1>6. Len(snapshot[v]) \in Nat /\ Len(journal) \in Nat
  BY <1>2
<1> QED BY <1>1, <1>2, <1>3, <1>4, <1>5, <1>6

LEMMA QueueSends ==
  ASSUME TypeOK, NEW v \in Viewers, ViewerInv(v), TakeEvent(v), Head(queue[v]) > lastSent[v]
  PROVE  /\ lastSent[v] + 1 \in Nat /\ lastSent[v] + 1 < Len(journal)
         /\ Head(queue[v]) = lastSent[v] + 1 /\ Send(v, lastSent[v] + 1)
<1> DEFINE h == Head(queue[v])
<1>1. /\ stage[v] = "live" /\ queue[v] # <<>> /\ h # Sentinel /\ Send(v, h)
      /\ h = queue[v][1] /\ h \in Nat /\ 1 \in 1..Len(queue[v])
      /\ lastSent[v] \in Int
  BY DEF TypeOK, TakeEvent
<1>2. QueueInv(v) /\ Needed(v) = lastSent[v] + 1
  BY <1>1 DEF ViewerInv, Needed
<1>3. h <= lastSent[v] + 1 /\ h < Len(journal)
  BY <1>1, <1>2 DEF QueueInv
<1>4. h = lastSent[v] + 1
  BY <1>1, <1>3
<1> HIDE DEF h
<1> QED BY <1>1, <1>3, <1>4 DEF h

LEMMA SendBacklogKeepsViewer ==
  ASSUME TypeOK, LogInv, NEW v \in Viewers, ViewerInv(v), SendBacklog(v)
  PROVE  ViewerInv(v)'
<1>2. /\ stage[v] \in {"backlog", "replay"} /\ stage[v] \in Open
      /\ UNCHANGED <<runVars, subscribers, after, snapshot, queue>>
  BY DEF SendBacklog, Open
<1>3. SentInv(v) /\ lastSent[v] \in Nat \cup {-1}
  BY DEF ViewerInv, TypeOK
<1> DEFINE e == lastSent[v] + 1
<1>5. e \in Nat /\ e < Len(journal) /\ Send(v, e) /\ cursor'[v] = e + 2
  BY <1>3, BacklogSends
<1>6. SentInv(v)'
  <2> HIDE DEF e
  <2>1. e = lastSent[v] + 1 /\ cursor'[v] <= e + 2
    BY <1>5 DEF e
  <2>2. UNCHANGED <<journal, subscribers, after, snapshot>>
    BY <1>2 DEF runVars
  <2> QED BY <1>2, <1>3, <1>5, <2>1, <2>2, SendKeepsSent
<1>7. ASSUME stage'[v] \in {"backlog", "live"} PROVE QueueInv(v)'
  <2>1. stage[v] = "backlog" /\ stage'[v] = "backlog"
    BY <1>2, <1>5, <1>7 DEF Send, TypeOK
  <2>2. Needed(v)' = Needed(v)
    BY <2>1, <1>2 DEF Needed
  <2> QED BY <2>1, <2>2, <1>2 DEF ViewerInv, QueueInv, runVars
<1> QED BY <1>6, <1>7 DEF ViewerInv

LEMMA EndBacklogKeepsViewer ==
  ASSUME TypeOK, LogInv, NEW v \in Viewers, ViewerInv(v),
         EndBacklog(v) \/ EndReplay(v)
  PROVE  ViewerInv(v)'
<1>1. /\ UNCHANGED <<runVars, after, snapshot, cursor, queue, lastSent, received>>
      /\ stage[v] \in {"backlog", "replay"} /\ stage'[v] \in {"closed", "aborted", "live"}
      /\ subscribers' \subseteq subscribers
      /\ stage'[v] = "live" => stage[v] = "backlog"
      /\ Unsent(snapshot[v], cursor[v], lastSent[v]) = {}
  BY DEF EndBacklog, EndReplay, Close, TypeOK
<1>2. SentInv(v)'
  BY <1>1 DEF ViewerInv, SentInv, runVars
<1>3. ASSUME stage'[v] \in {"backlog", "live"} PROVE QueueInv(v)'
  <2>1. stage[v] = "backlog" /\ stage'[v] = "live" /\ QueueInv(v)
    BY <1>1, <1>3 DEF ViewerInv
  <2>2. /\ snapshot[v] \in Seq(Nat) /\ cursor[v] \in Nat \ {0}
        /\ lastSent[v] \in Nat \cup {-1} /\ cursor[v] <= lastSent[v] + 2
        /\ \A i \in 1..Len(snapshot[v]) : snapshot[v][i] = i - 1
    BY <2>1 DEF ViewerInv, SentInv, TypeOK
  <2>3. Len(snapshot[v]) <= lastSent[v] + 1
    BY <1>1, <2>2, UnsentNext
  <2>4. Needed(v) = Len(snapshot[v]) /\ Needed(v)' = lastSent[v] + 1
        /\ Needed(v) \in Int /\ Needed(v)' \in Int /\ Needed(v) <= Needed(v)'
    BY <2>1, <2>2, <2>3, <1>1 DEF Needed
  <2>5. /\ queue[v] \in Seq(Nat \cup {Sentinel}) /\ Len(journal) \in Nat
        /\ queue[v] # <<>> => queue[v][1] \in Nat \cup {Sentinel}
    BY DEF TypeOK
  <2>6. /\ Len(journal) <= Needed(v) => Len(journal) <= Needed(v)'
        /\ queue[v] # <<>> =>
             (queue[v][1] = Sentinel \/ queue[v][1] <= Needed(v)
                => queue[v][1] = Sentinel \/ queue[v][1] <= Needed(v)')
    BY <2>4, <2>5
  <2> QED BY <2>1, <2>6, <1>1 DEF QueueInv, runVars
<1> QED BY <1>2, <1>3 DEF ViewerInv

LEMMA TailFacts ==
  ASSUME NEW S, NEW s \in Seq(S), s # <<>>
  PROVE  /\ Len(Tail(s)) = Len(s) - 1
         /\ \A i \in 1..Len(s) - 1 : Tail(s)[i] = s[i + 1] /\ i + 1 \in 1..Len(s)
         /\ Tail(s) = <<>> <=> Len(s) = 1
<1>1. Len(s) \in Nat /\ Len(s) >= 1
  OBVIOUS
<1>2. Tail(s) \in Seq(S) /\ Len(Tail(s)) = Len(s) - 1
  OBVIOUS
<1>3. Tail(s) = <<>> <=> Len(Tail(s)) = 0
  BY <1>2, EmptySeq
<1>4. \A i \in 1..Len(s) - 1 : Tail(s)[i] = s[i + 1] /\ i + 1 \in 1..Len(s)
  OBVIOUS
<1> QED BY <1>1, <1>2, <1>3, <1>4

LEMMA TakeEventKeepsViewer ==
  ASSUME TypeOK, LogInv, NEW v \in Viewers, ViewerInv(v), TakeEvent(v)
  PROVE  ViewerInv(v)'
<1> DEFINE q == queue[v]
           h == Head(queue[v])
<1>1. /\ stage[v] = "live" /\ stage[v] \in Open /\ q # <<>> /\ h # Sentinel
      /\ queue'[v] = Tail(q)
      /\ UNCHANGED <<runVars, subscribers, after, snapshot, cursor>>
      /\ IF h > lastSent[v] THEN Send(v, h) ELSE UNCHANGED <<stage, received, lastSent>>
      /\ q \in Seq(Nat \cup {Sentinel}) /\ h = q[1] /\ h \in Nat
      /\ lastSent[v] \in Int /\ Len(q) \in Nat /\ Len(q) >= 1 /\ Len(journal) \in Nat
  BY DEF TypeOK, TakeEvent, Open
<1>2. QueueInv(v) /\ SentInv(v) /\ Needed(v) = lastSent[v] + 1
  BY <1>1 DEF ViewerInv, Needed
<1>3. h <= lastSent[v] + 1 /\ h < Len(journal)
  BY <1>1, <1>2 DEF QueueInv
<1>4. SentInv(v)'
  <2>1. CASE h > lastSent[v]
    <3>1. h = lastSent[v] + 1 /\ Send(v, h)
      BY <2>1, <1>1, <1>3
    <3>2. UNCHANGED <<journal, subscribers, after, snapshot>>
      BY <1>1 DEF runVars
    <3> HIDE DEF h
    <3> QED BY <3>1, <3>2, <1>1, <1>2, <1>3, SendKeepsSent
  <2>2. CASE ~(h > lastSent[v])
    BY <2>2, <1>1, <1>2 DEF SentInv, runVars
  <2> QED BY <2>1, <2>2
<1>5. ASSUME stage'[v] \in {"backlog", "live"} PROVE QueueInv(v)'
  <2>1. stage'[v] = "live" /\ lastSent'[v] \in Int /\ h <= lastSent'[v]
    <3>1. CASE h > lastSent[v]
      BY <3>1, <1>1, <1>5 DEF Send, TypeOK
    <3>2. CASE ~(h > lastSent[v])
      BY <3>2, <1>1
    <3> QED BY <3>1, <3>2
  <2>2. Needed(v)' = lastSent'[v] + 1 /\ h + 1 <= Needed(v)'
    BY <2>1, <1>1 DEF Needed
  <2>3. /\ Len(queue'[v]) = Len(q) - 1
        /\ \A i \in 1..Len(q) - 1 : queue'[v][i] = q[i + 1] /\ i + 1 \in 1..Len(q)
        /\ queue'[v] = <<>> <=> Len(q) = 1
        /\ journal' = journal /\ finished' = finished /\ subscribers' = subscribers
    BY <1>1, TailFacts DEF runVars
  <2>4. /\ \A i \in 1..Len(q) : q[i] = Sentinel => i = Len(q) /\ finished
        /\ \A i \in 1..Len(q) : q[i] # Sentinel => q[i] = h + i - 1 /\ q[i] < Len(journal)
        /\ v \in subscribers /\ ~finished => h + Len(q) = Len(journal)
        /\ q[Len(q)] = Sentinel => Len(q) # 1 /\ h + Len(q) - 1 = Len(journal)
    BY <1>1, <1>2 DEF QueueInv
  <2>5. \A i \in 1..Len(queue'[v]) :
          /\ queue'[v][i] = Sentinel => i = Len(queue'[v]) /\ finished
          /\ queue'[v][i] # Sentinel => queue'[v][i] = h + i /\ queue'[v][i] < Len(journal)
    <3> TAKE i \in 1..Len(queue'[v])
    <3>1. i + 1 \in 1..Len(q) /\ queue'[v][i] = q[i + 1] /\ i \in Int
      BY <2>3, <1>1
    <3>2. q[i + 1] = Sentinel => i + 1 = Len(q) /\ finished
      BY <3>1, <2>4
    <3>3. q[i + 1] # Sentinel => q[i + 1] = h + (i + 1) - 1 /\ q[i + 1] < Len(journal)
      BY <3>1, <2>4
    <3>4. h + (i + 1) - 1 = h + i
      BY <3>1, <1>1
    <3> QED BY <3>1, <3>2, <3>3, <3>4, <2>3, <1>1
  <2>6. CASE Len(q) = 1
    <3>1. queue'[v] = <<>> /\ Len(queue'[v]) = 0
      BY <2>6, <2>3
    <3>2. v \in subscribers /\ ~finished => Len(journal) <= Needed(v)'
      BY <2>2, <2>4, <2>6
    <3> QED BY <3>1, <3>2, <2>3 DEF QueueInv
  <2>7. CASE Len(q) # 1
    <3>1. /\ Len(q) >= 2 /\ queue'[v] # <<>> /\ 1 \in 1..Len(queue'[v])
          /\ Len(queue'[v]) \in 1..Len(queue'[v])
          /\ queue'[v][Len(queue'[v])] = q[Len(q)]
      BY <2>7, <2>3, <1>1
    <3>2. queue'[v][1] # Sentinel => queue'[v][1] = h + 1 /\ queue'[v][1] <= Needed(v)'
      BY <3>1, <2>5, <2>2
    <3>3. \A i \in 1..Len(queue'[v]) : queue'[v][i] # Sentinel =>
            queue'[v][i] = queue'[v][1] + i - 1 /\ queue'[v][i] < Len(journal)
      <4> TAKE i \in 1..Len(queue'[v])
      <4> HAVE queue'[v][i] # Sentinel
      <4>1. queue'[v][1] # Sentinel
        <5>1. CASE Len(queue'[v]) = 1
          BY <5>1
        <5>2. CASE Len(queue'[v]) # 1
          BY <5>2, <3>1, <2>5
        <5> QED BY <5>1, <5>2
      <4>2. h + i = (h + 1) + i - 1
        BY <1>1
      <4> QED BY <4>1, <4>2, <3>1, <3>2, <2>5
    <3>4. v \in subscribers /\ ~finished => queue'[v][1] + Len(queue'[v]) = Len(journal)
      <4> HAVE v \in subscribers /\ ~finished
      <4>1. queue'[v][1] = h + 1
        BY <3>1, <3>2, <2>5
      <4>2. h + Len(q) = Len(journal) /\ Len(queue'[v]) = Len(q) - 1
        BY <2>3, <2>4, SMTT(30)
      <4>3. \A a, b \in Nat : (a + 1) + (b - 1) = a + b
        OBVIOUS
      <4> HIDE DEF h, q
      <4> QED BY <4>1, <4>2, <4>3, <1>1
    <3>5. queue'[v][Len(queue'[v])] = Sentinel =>
            IF Len(queue'[v]) = 1 THEN Len(journal) <= Needed(v)'
            ELSE queue'[v][1] + Len(queue'[v]) - 1 = Len(journal)
      <4> HAVE queue'[v][Len(queue'[v])] = Sentinel
      <4>1. h + Len(q) - 1 = Len(journal)
        BY <3>1, <2>4
      <4>2. CASE Len(queue'[v]) = 1
        BY <4>1, <4>2, <2>2, <2>3, <1>1
      <4>3. CASE Len(queue'[v]) # 1
        <5>1. queue'[v][1] = h + 1
          BY <4>3, <3>1, <3>2, <2>5
        <5> QED BY <5>1, <4>1, <4>3, <2>3, <1>1
      <4> QED BY <4>2, <4>3
    <3> QED BY <3>1, <3>2, <3>3, <3>4, <3>5, <2>3, <2>5 DEF QueueInv
  <2> QED BY <2>6, <2>7
<1> QED BY <1>4, <1>5 DEF ViewerInv

\* The steps of a handler that only end it, and the loss of a socket.
LEMMA LeaveKeepsViewer ==
  ASSUME TypeOK, LogInv, NEW v \in Viewers, ViewerInv(v),
         TakeSentinel(v) \/ Finalise(v) \/ Vanish(v)
  PROVE  ViewerInv(v)'
<1>1. CASE TakeSentinel(v) \/ Finalise(v)
  <2>1. /\ UNCHANGED <<runVars, after, snapshot, cursor, lastSent, received>>
        /\ stage[v] # "idle" /\ stage'[v] \in {"closed", "aborted"}
    BY <1>1 DEF TakeSentinel, Finalise, Close, TypeOK
  <2> QED BY <2>1 DEF ViewerInv, SentInv, runVars
<1>2. CASE Vanish(v)
  BY <1>2, ViewerFrame DEF Vanish, runVars
<1> QED BY <1>1, <1>2

\* A viewer's step leaves the run and the other viewers as they are.
LEMMA ViewerStepAlone ==
  ASSUME TypeOK, NEW v \in Viewers, ViewerStep(v), NEW w \in Viewers, w # v
  PROVE  /\ UNCHANGED runVars
         /\ stage'[w] = stage[w] /\ after'[w] = after[w] /\ snapshot'[w] = snapshot[w]
         /\ cursor'[w] = cursor[w] /\ queue'[w] = queue[w] /\ lastSent'[w] = lastSent[w]
         /\ received'[w] = received[w]
         /\ w \in subscribers' => w \in subscribers
<1> USE DEF TypeOK, Close
<1> DEFINE Same(f) == f'[w] = f[w]
           Alone == /\ UNCHANGED runVars
                    /\ Same(stage) /\ Same(after) /\ Same(snapshot) /\ Same(cursor)
                    /\ Same(queue) /\ Same(lastSent) /\ Same(received)
                    /\ w \in subscribers' => w \in subscribers
<1>1. ASSUME NEW a \in AfterValues, ConnectLive(v, a) \/ ConnectReplay(v, a) PROVE Alone
  BY <1>1 DEF ConnectLive, ConnectReplay
<1>2. CASE SendBacklog(v)
  BY <1>2 DEF SendBacklog, Send
<1>3. CASE EndBacklog(v) \/ EndReplay(v)
  BY <1>3 DEF EndBacklog, EndReplay
<1>4. CASE TakeEvent(v)
  BY <1>4 DEF TakeEvent, Send
<1>5. CASE TakeSentinel(v) \/ Finalise(v) \/ Vanish(v)
  BY <1>5 DEF TakeSentinel, Finalise, Vanish
<1> QED BY <1>1, <1>2, <1>3, <1>4, <1>5 DEF ViewerStep, HandlerStep

LEMMA ViewerStepKeepsOthers ==
  ASSUME TypeOK, NEW v \in Viewers, ViewerStep(v), NEW w \in Viewers, w # v, ViewerInv(w)
  PROVE  ViewerInv(w)'
<1> QED BY ViewerStepAlone, ViewerFrame DEF runVars

\* A live handler with the sentinel at the head of its queue has sent the whole journal.
LEMMA SentinelIsLast ==
  ASSUME TypeOK, LogInv, NEW v \in Viewers, stage[v] = "live", QueueInv(v),
         queue[v] # <<>>, Head(queue[v]) = Sentinel
  PROVE  Len(journal) <= lastSent[v] + 1 /\ finished
<1>1. Needed(v) = lastSent[v] + 1
  BY DEF Needed
<1>2. queue[v][1] = Sentinel /\ 1 \in 1..Len(queue[v])
  BY DEF TypeOK
<1>3. Len(queue[v]) = 1 /\ queue[v][Len(queue[v])] = Sentinel /\ finished
  BY <1>2 DEF QueueInv
<1> QED BY <1>1, <1>3 DEF QueueInv

\* A viewer's step leaves what the other viewers' ends rest on as it is, and closes its own
\* viewer only with the whole snapshot sent.
LEMMA EndKeptByViewer ==
  ASSUME TypeOK, LogInv, EndInv, NEW v \in Viewers, ViewerInv(v), ViewerStep(v)
  PROVE  EndInv'
<1>1. UNCHANGED runVars
  BY DEF ViewerStep, HandlerStep, ConnectLive, ConnectReplay, SendBacklog,
         EndBacklog, EndReplay, TakeEvent, TakeSentinel, Finalise, Vanish
<1>2. ASSUME NEW w \in Viewers, w # v
      PROVE  stage'[w] = stage[w] /\ snapshot'[w] = snapshot[w] /\ lastSent'[w] = lastSent[w]
  BY <1>2, ViewerStepAlone
<1>3. stage'[v] = "replay" => ~registered
  <2>1. stage[v] = "replay" => ~registered
    BY DEF EndInv
  <2> USE DEF TypeOK
  <2>2. ASSUME NEW a \in AfterValues, ConnectLive(v, a) \/ ConnectReplay(v, a) PROVE <1>3!:
    BY <2>2 DEF ConnectLive, ConnectReplay
  <2>3. CASE SendBacklog(v) \/ TakeEvent(v)
    BY <2>1, <2>3 DEF SendBacklog, TakeEvent, Send
  <2>4. CASE EndBacklog(v) \/ EndReplay(v) \/ TakeSentinel(v) \/ Finalise(v) \/ Vanish(v)
    BY <2>1, <2>4 DEF EndBacklog, EndReplay, TakeSentinel, Finalise, Vanish, Close
  <2> QED BY <2>2, <2>3, <2>4 DEF ViewerStep, HandlerStep
<1>4. stage'[v] = "closed" => Len(snapshot'[v]) <= lastSent'[v] + 1
  <2>1. ASSUME NEW a \in AfterValues, ConnectLive(v, a) \/ ConnectReplay(v, a) PROVE <1>4!:
    <3>1. /\ stage'[v] = "closed" => Unsent(journal, 1, a) = {}
          /\ snapshot'[v] = journal /\ lastSent'[v] = a
      BY <2>1 DEF ConnectLive, ConnectReplay, TypeOK, LogInv
    <3>2. a \in Nat \cup {-1} /\ 1 \in Nat \ {0}
      BY LiveStreamAssumption
    <3>3. 1 <= a + 2
      BY <3>2
    <3>4. journal \in Seq(Nat) /\ \A i \in 1..Len(journal) : journal[i] = i - 1
      BY DEF TypeOK, LogInv
    <3>5. Unsent(journal, 1, a) = {} => Len(journal) <= a + 1
      BY <3>2, <3>3, <3>4, UnsentNext
    <3> QED BY <3>1, <3>5
  <2>2. CASE SendBacklog(v) \/ TakeEvent(v)
    <3>1. stage'[v] # "closed"
      BY <2>2 DEF SendBacklog, TakeEvent, Send, TypeOK
    <3> QED BY <3>1
  <2>3. CASE EndBacklog(v) \/ EndReplay(v)
    <3>1. /\ Unsent(snapshot[v], cursor[v], lastSent[v]) = {}
          /\ stage[v] \in {"backlog", "replay"}
          /\ snapshot' = snapshot /\ lastSent' = lastSent
      BY <2>3 DEF EndBacklog, EndReplay
    <3>2. /\ snapshot[v] \in Seq(Nat) /\ cursor[v] \in Nat \ {0}
          /\ lastSent[v] \in Nat \cup {-1} /\ cursor[v] <= lastSent[v] + 2
          /\ \A i \in 1..Len(snapshot[v]) : snapshot[v][i] = i - 1
      BY <3>1 DEF ViewerInv, SentInv, TypeOK
    <3> QED BY <3>1, <3>2, UnsentNext
  <2>4. CASE TakeSentinel(v)
    <3>1. snapshot' = snapshot /\ lastSent' = lastSent
      BY <2>4 DEF TakeSentinel
    <3>2. Len(journal) <= lastSent[v] + 1
      BY <2>4, SentinelIsLast DEF TakeSentinel, ViewerInv
    <3>3. Len(snapshot[v]) <= Len(journal)
      BY DEF ViewerInv, SentInv
    <3>4. Len(snapshot[v]) \in Int /\ Len(journal) \in Int /\ lastSent[v] \in Int
      BY DEF TypeOK
    <3> QED BY <3>1, <3>2, <3>3, <3>4
  <2>5. CASE Finalise(v) \/ Vanish(v)
    <3>1. /\ snapshot' = snapshot /\ lastSent' = lastSent
          /\ stage'[v] = "closed" => stage[v] = "closed"
      BY <2>5 DEF Finalise, Vanish, TypeOK
    <3> QED BY <3>1 DEF EndInv
  <2> QED BY <2>1, <2>2, <2>3, <2>4, <2>5 DEF ViewerStep, HandlerStep
<1>5. ~registered' => task' \in {"over", "killed"}
  BY <1>1 DEF EndInv, runVars
<1>6. registered' = registered
  BY <1>1 DEF runVars
<1>7. \A w \in Viewers : stage'[w] = "replay" => ~registered'
  BY <1>2, <1>3, <1>6 DEF EndInv
<1>8. \A w \in Viewers : stage'[w] = "closed" => Len(snapshot'[w]) <= lastSent'[w] + 1
  BY <1>2, <1>4 DEF EndInv
<1> QED BY <1>5, <1>7, <1>8 DEF EndInv

LEMMA EndKept ==
  ASSUME TypeOK, StreamInv, [Next]_vars
  PROVE  EndInv'
<1>1. EndInv
  BY DEF StreamInv
<1>2. CASE Emit \/ EmitFails \/ Finish
  <2>1. /\ UNCHANGED <<registered, stage, snapshot, lastSent>>
        /\ task \in {"running", "failing"}
    BY <1>2 DEF Emit, EmitFails, Finish, viewerVars
  <2>2. registered
    BY <2>1, <1>1 DEF EndInv
  <2> QED BY <2>1, <2>2, <1>1 DEF EndInv
<1>3. CASE Restart
  <2>1. /\ UNCHANGED <<snapshot, lastSent>> /\ ~registered' /\ task' \in {"over", "killed"}
        /\ \A w \in Viewers : stage'[w] = "closed" => stage[w] = "closed"
    BY <1>3 DEF Restart, TypeOK
  <2> QED BY <2>1, <1>1 DEF EndInv
<1>4. ASSUME NEW v \in Viewers, ViewerStep(v) PROVE EndInv'
  <2>1. LogInv /\ ViewerInv(v)
    BY DEF StreamInv, ViewerInv
  <2> QED BY <2>1, <1>1, <1>4, EndKeptByViewer
<1>5. CASE UNCHANGED vars
  BY <1>1, <1>5 DEF EndInv, vars, runVars, viewerVars
<1> QED BY <1>2, <1>3, <1>4, <1>5 DEF Next

LEMMA StreamInvNext ==
  ASSUME TypeOK, StreamInv, [Next]_vars
  PROVE  StreamInv'
<1>1. LogInv /\ \A w \in Viewers : ViewerInv(w)
  BY DEF StreamInv, ViewerInv
<1>2. LogInv'
  <2> USE <1>1 DEF LogInv
  <2>1. CASE Emit
    <3>1. /\ journal' = Append(journal, Len(journal)) /\ sink' = journal' /\ events' = journal'
          /\ finished' = finished /\ task' = task /\ registered' = registered
      BY <2>1 DEF Emit, Publish
    <3>2. \A i \in 1..Len(journal') : journal'[i] = i - 1
      BY <3>1 DEF TypeOK
    <3> QED BY <3>1, <3>2
  <2>2. CASE EmitFails
    BY <2>2 DEF EmitFails
  <2>3. CASE Finish
    BY <2>3 DEF Finish
  <2>4. CASE Restart
    BY <2>4 DEF Restart, TypeOK
  <2>5. ASSUME NEW v \in Viewers, ViewerStep(v) PROVE UNCHANGED runVars
    BY <2>5 DEF ViewerStep, HandlerStep, ConnectLive, ConnectReplay, SendBacklog,
                EndBacklog, EndReplay, TakeEvent, TakeSentinel, Finalise, Vanish
  <2>6. CASE UNCHANGED runVars
    BY <2>6 DEF runVars
  <2> QED BY <2>1, <2>2, <2>3, <2>4, <2>5, <2>6 DEF Next, vars
<1>3. ASSUME NEW w \in Viewers PROVE ViewerInv(w)'
  <2>1. CASE Emit
    BY <2>1, <1>1, EmitKeepsViewer
  <2>2. CASE EmitFails
    BY <2>2, <1>1, ViewerFrame DEF EmitFails, viewerVars
  <2>3. CASE Finish
    BY <2>3, <1>1, FinishKeepsViewer
  <2>4. CASE Restart
    <3>1. /\ UNCHANGED <<journal, finished, after, snapshot, cursor, queue, lastSent, received>>
          /\ stage'[w] \notin {"backlog", "live", "replay"} /\ subscribers' = {}
          /\ stage'[w] = "idle" <=> stage[w] = "idle"
      BY <2>4 DEF Restart, TypeOK, Stages, Open
    <3> QED BY <3>1, <1>1 DEF ViewerInv, SentInv
  <2>5. ASSUME NEW v \in Viewers, ViewerStep(v) PROVE ViewerInv(w)'
    <3>1. CASE w # v
      BY <3>1, <2>5, <1>1, ViewerStepKeepsOthers
    <3>2. CASE w = v
      BY <3>2, <2>5, <1>1, ConnectKeepsViewer, SendBacklogKeepsViewer,
         EndBacklogKeepsViewer, TakeEventKeepsViewer, LeaveKeepsViewer
         DEF ViewerStep, HandlerStep
    <3> QED BY <3>1, <3>2
  <2>6. CASE UNCHANGED vars
    BY <2>6, <1>1, ViewerFrame DEF vars, runVars, viewerVars
  <2> QED BY <2>1, <2>2, <2>3, <2>4, <2>5, <2>6 DEF Next
<1> QED BY <1>2, <1>3, EndKept DEF StreamInv, ViewerInv

-----------------------------------------------------------------------------
(* The theorems *)

\* The inductive invariant holds in every reachable state.
THEOREM StreamInvariant == Spec => []StreamInv
<1> QED BY TypeCorrect, StreamInvInit, StreamInvNext, PTL DEF Spec

\* No interleaving of the run, the snapshot, the queue and its overflow makes a viewer miss
\* an event between two it received, or receive one twice.
THEOREM StreamHasNoGaps == Spec => []NoGaps
<1>1. StreamInv => NoGaps
  BY DEF StreamInv, SentInv, NoGaps
<1> QED BY <1>1, StreamInvariant, PTL

\* A viewer never receives an event that a replay of the journal would not show.
THEOREM StreamIsJournalled == Spec => []DeliveredIsJournalled
<1>1. TypeOK /\ StreamInv => DeliveredIsJournalled
  <2> SUFFICES ASSUME TypeOK, StreamInv,
                      NEW v \in Viewers, NEW i \in 1..Len(received[v])
               PROVE  \E k \in 1..Len(journal) : journal[k] = received[v][i]
    BY DEF DeliveredIsJournalled
  <2>1. /\ after[v] \in Int /\ after[v] >= -1 /\ lastSent[v] \in Int
        /\ Len(received[v]) \in Nat /\ Len(journal) \in Nat
        /\ stage[v] = "idle" => received[v] = <<>>
        /\ SentInv(v) /\ \A k \in 1..Len(journal) : journal[k] = k - 1
    BY SMTT(30) DEF TypeOK, StreamInv, LogInv, SentInv
  <2>2. stage[v] # "idle"
    BY <2>1, EmptySeq
  <2>3. received[v][i] = after[v] + i /\ after[v] + i <= lastSent[v] /\ lastSent[v] < Len(journal)
    BY <2>1, <2>2 DEF SentInv
  <2>4. after[v] + i + 1 \in 1..Len(journal) /\ journal[after[v] + i + 1] = after[v] + i
    BY <2>1, <2>3
  <2> QED BY <2>3, <2>4
<1> QED BY <1>1, TypeCorrect, StreamInvariant, PTL

\* A handler that takes the sentinel has sent every event the run emitted.
THEOREM SentinelIsComplete == Spec => []SentinelMeansComplete
<1>1. TypeOK /\ StreamInv => SentinelMeansComplete
  <2> SUFFICES ASSUME TypeOK, StreamInv, NEW v \in Viewers,
                      stage[v] = "live", queue[v] # <<>>, Head(queue[v]) = Sentinel
               PROVE  lastSent[v] + 1 >= Len(events)
    BY DEF SentinelMeansComplete
  <2>1. QueueInv(v) /\ LogInv /\ events = journal
    BY DEF StreamInv, LogInv
  <2>2. Len(journal) <= lastSent[v] + 1
    BY <2>1, SentinelIsLast
  <2>3. Len(journal) \in Int /\ lastSent[v] \in Int
    BY DEF TypeOK
  <2> QED BY <2>1, <2>2, <2>3
<1> QED BY <1>1, TypeCorrect, StreamInvariant, PTL

\* A viewer that is told the stream is over was sent the whole snapshot it was given: one
\* that connects after the end has the whole journal, whatever ?after= it asked for.
THEOREM ReplayIsWhole == Spec => []ReplayIsComplete
<1>1. TypeOK /\ StreamInv => ReplayIsComplete
  <2> SUFFICES ASSUME TypeOK, StreamInv, NEW v \in Viewers,
                      stage[v] = "closed", snapshot[v] = journal
               PROVE  ToldComplete(v)
    BY DEF ReplayIsComplete
  <2>1. Len(journal) <= lastSent[v] + 1
    BY DEF StreamInv, EndInv
  <2>2. Len(received[v]) = lastSent[v] - after[v]
    BY DEF StreamInv, SentInv
  <2>3. Len(journal) \in Int /\ lastSent[v] \in Int /\ after[v] \in Int
    BY DEF TypeOK
  <2> QED BY <2>1, <2>2, <2>3 DEF ToldComplete
<1> QED BY <1>1, TypeCorrect, StreamInvariant, PTL

-----------------------------------------------------------------------------
(* The code's stream is the one the journal promises *)

LEMMA ImageOf ==
  /\ Image("idle") = "idle" /\ Image("closed") = "closed"
  /\ Image("backlog") = "open" /\ Image("live") = "open" /\ Image("replay") = "open"
  /\ Image("aborting") = "gone" /\ Image("aborted") = "gone"
<1> QED BY DEF Image, Open

\* The abstract view follows the stage of the one viewer that moved.
LEMMA ViewMoves ==
  ASSUME TypeOK, NEW v \in Viewers, NEW s, stage' = [stage EXCEPT ![v] = s]
  PROVE  View' = [View EXCEPT ![v] = Image(s)]
<1>1. ASSUME NEW w \in Viewers
      PROVE  Image(stage'[w]) = IF w = v THEN Image(s) ELSE Image(stage[w])
  BY DEF TypeOK
<1>2. View' = [w \in Viewers |-> Image(stage'[w])]
  BY DEF View, Image
<1> QED BY <1>1, <1>2 DEF View

LEMMA ViewStays ==
  ASSUME TypeOK, NEW v \in Viewers, NEW s, stage' = [stage EXCEPT ![v] = s],
         Image(s) = Image(stage[v])
  PROVE  View' = View
<1>1. View' = [View EXCEPT ![v] = Image(s)]
  BY ViewMoves
<1>2. View[v] = Image(s) /\ View = [w \in Viewers |-> View[w]]
  BY DEF View
<1> QED BY <1>1, <1>2

LEMMA SameStage == stage' = stage => View' = View
<1> QED BY DEF View, Image

LEMMA AbstractInit == Init => Abstract!Init
<1> SUFFICES ASSUME Init PROVE Abstract!Init
  OBVIOUS
<1>1. View = [v \in Viewers |-> "idle"]
  BY ImageOf DEF View, Init
<1>2. Sealed = FALSE
  BY SMT DEF Sealed, Init
<1> QED BY <1>1, <1>2 DEF Init, Abstract!Init

LEMMA RunImplements ==
  ASSUME TypeOK, StreamInv, Emit \/ EmitFails \/ Finish \/ Restart
  PROVE  [Abstract!Next]_(Abstract!vars)
<1> USE DEF Abstract!Next, Abstract!vars
<1>1. CASE Emit
  <2>1. stage' = stage /\ after' = after /\ received' = received /\ task' = task
    BY <1>1 DEF Emit
  <2>2. View' = View
    BY <2>1, SameStage
  <2>3. ~Sealed /\ Sealed' = Sealed
    BY <1>1, <2>1 DEF Sealed, Emit
  <2>4. journal' = Append(journal, Len(journal))
    BY <1>1 DEF Emit, StreamInv, LogInv
  <2>5. Abstract!Record
    BY <2>1, <2>2, <2>3, <2>4 DEF Abstract!Record
  <2> QED BY <2>5
<1>2. CASE EmitFails
  <2>1. /\ stage' = stage /\ after' = after /\ received' = received /\ journal' = journal
        /\ task = "running" /\ task' = "failing"
    BY <1>2 DEF EmitFails, viewerVars
  <2>2. View' = View
    BY <2>1, SameStage
  <2>3. Sealed' = Sealed
    BY <2>1 DEF Sealed
  <2> QED BY <2>1, <2>2, <2>3
<1>3. CASE Finish
  <2>1. /\ stage' = stage /\ after' = after /\ received' = received /\ journal' = journal
        /\ task \in {"running", "failing"} /\ task' = "over"
    BY <1>3 DEF Finish
  <2>2. View' = View
    BY <2>1, SameStage
  <2>3. ~Sealed /\ Sealed' = TRUE
    BY <2>1, Zenon DEF Sealed
  <2>4. Abstract!Seal
    BY <2>1, <2>2, <2>3 DEF Abstract!Seal
  <2> QED BY <2>4
<1>4. CASE Restart
  <2>1. /\ after' = after /\ received' = received /\ journal' = journal
        /\ task' \in {"over", "killed"}
        /\ stage' = [v \in Viewers |->
                       IF stage[v] \in Open \cup {"aborting"} THEN "aborted" ELSE stage[v]]
    BY <1>4 DEF Restart
  <2>2. Sealed' = TRUE
    BY <2>1, Zenon DEF Sealed
  <2>3. ASSUME NEW v \in Viewers
        PROVE  Image(stage'[v]) = IF Image(stage[v]) = "open" THEN "gone" ELSE Image(stage[v])
    <3>1. CASE stage[v] \in Open \cup {"aborting"}
      <4>1. stage'[v] = "aborted" /\ Image(stage[v]) \in {"open", "gone"}
        BY <2>1, <3>1, ImageOf DEF Open
      <4> QED BY <4>1, ImageOf
    <3>2. CASE stage[v] \notin Open \cup {"aborting"}
      <4>1. stage'[v] = stage[v] /\ stage[v] \in {"idle", "aborted", "closed"}
        BY <2>1, <3>2 DEF Open, TypeOK, Stages
      <4> QED BY <4>1, ImageOf
    <3> QED BY <3>1, <3>2
  <2>4. View' = [v \in Viewers |-> IF View[v] = "open" THEN "gone" ELSE View[v]]
    <3>1. View' = [v \in Viewers |-> Image(stage'[v])]
      BY DEF View, Image
    <3>2. \A v \in Viewers : View[v] = Image(stage[v])
      BY DEF View
    <3> QED BY <2>3, <3>1, <3>2
  <2>5. Abstract!Die
    BY <2>1, <2>2, <2>4 DEF Abstract!Die
  <2> QED BY <2>5
<1> QED BY <1>1, <1>2, <1>3, <1>4

LEMMA ConnectImplements ==
  ASSUME TypeOK, StreamInv, NEW v \in Viewers, NEW a \in AfterValues,
         ConnectLive(v, a) \/ ConnectReplay(v, a)
  PROVE  Abstract!Open(v)
<1>1. /\ stage[v] = "idle" /\ after' = [after EXCEPT ![v] = a]
      /\ received' = received /\ journal' = journal /\ task' = task /\ events = journal
  BY DEF ConnectLive, ConnectReplay, runVars, StreamInv, LogInv
<1>2. Sealed' = Sealed
  BY <1>1 DEF Sealed
<1>3. Unsent(journal, 1, a) = {} <=> a + 1 >= Len(journal)
  <2>1. a \in Nat \cup {-1} /\ 1 \in Nat \ {0} /\ journal \in Seq(Nat)
        /\ \A i \in 1..Len(journal) : journal[i] = i - 1
    BY LiveStreamAssumption DEF TypeOK, StreamInv, LogInv
  <2>2. 1 <= a + 2 /\ Len(journal) \in Nat
    BY <2>1
  <2>3. Unsent(journal, 1, a) = {} => Len(journal) <= a + 1
    BY <2>1, <2>2, UnsentNext
  <2>4. ASSUME NEW k \in Unsent(journal, 1, a) PROVE Len(journal) > a + 1
    <3>1. k \in 1..Len(journal) /\ journal[k] > a
      BY DEF Unsent
    <3>2. journal[k] = k - 1 /\ k <= Len(journal)
      BY <3>1, <2>1
    <3> QED BY <3>1, <3>2, <2>1, <2>2
  <2> QED BY <2>1, <2>2, <2>3, <2>4
<1>4. PICK s \in {"backlog", "live", "replay", "closed"} :
        /\ stage' = [stage EXCEPT ![v] = s]
        /\ s = "closed" <=> Sealed /\ a + 1 >= Len(journal)
  <2>1. CASE ConnectLive(v, a)
    <3>1. Sealed <=> finished
      BY <2>1 DEF Sealed, ConnectLive, StreamInv, LogInv, TypeOK
    <3> QED BY <2>1, <1>1, <1>3, <3>1 DEF ConnectLive
  <2>2. CASE ConnectReplay(v, a)
    <3>1. Sealed
      BY <2>2 DEF ConnectReplay, StreamInv, EndInv, Sealed
    <3> QED BY <2>2, <1>3, <3>1 DEF ConnectReplay
  <2> QED BY <2>1, <2>2
<1>5. View[v] = "idle"
  BY <1>1, ImageOf DEF View
<1>6. View' = [View EXCEPT ![v] = IF Sealed /\ a + 1 >= Len(journal) THEN "closed" ELSE "open"]
  <2>1. View' = [View EXCEPT ![v] = Image(s)]
    BY <1>4, ViewMoves
  <2>2. Image(s) = IF Sealed /\ a + 1 >= Len(journal) THEN "closed" ELSE "open"
    BY <1>4, ImageOf
  <2> QED BY <2>1, <2>2
<1> QED BY <1>1, <1>2, <1>5, <1>6 DEF Abstract!Open

\* A send that reaches the viewer is the abstract Receive of the next event of the log, one
\* that finds the socket gone is its Leave.
LEMMA SendImplements ==
  ASSUME TypeOK, LogInv, NEW v \in Viewers, SentInv(v), stage[v] \in Open,
         NEW e \in Nat, e = lastSent[v] + 1, e < Len(journal), Send(v, e),
         UNCHANGED <<journal, task, after>>
  PROVE  Abstract!Receive(v) \/ Abstract!Leave(v)
<1>1. View[v] = "open" /\ Sealed' = Sealed
  BY DEF View, Image, Sealed
<1>2. CASE connected[v]
  <2>1. received' = [received EXCEPT ![v] = Append(@, e)] /\ stage' = stage
    BY <1>2 DEF Send
  <2>2. View' = View
    BY <2>1, SameStage
  <2>3. after[v] + Len(received[v]) + 2 = e + 1
    <3>1. Len(received[v]) = lastSent[v] - after[v]
      BY DEF SentInv, Open
    <3>2. lastSent[v] \in Int /\ after[v] \in Int
      BY DEF TypeOK
    <3> QED BY <3>1, <3>2
  <2>4. e + 1 <= Len(journal) /\ journal[e + 1] = e
    <3>1. Len(journal) \in Nat
      BY DEF TypeOK
    <3>2. e + 1 \in 1..Len(journal) /\ (e + 1) - 1 = e
      BY <3>1
    <3> QED BY <3>1, <3>2 DEF LogInv
  <2>5. Abstract!Receive(v)
    BY <1>1, <2>1, <2>2, <2>3, <2>4 DEF Abstract!Receive
  <2> QED BY <2>5
<1>3. CASE ~connected[v]
  <2>1. stage' = [stage EXCEPT ![v] = "aborting"] /\ received' = received
    BY <1>3 DEF Send
  <2>2. View' = [View EXCEPT ![v] = "gone"]
    <3>1. View' = [View EXCEPT ![v] = Image("aborting")]
      BY <2>1, ViewMoves
    <3> QED BY <3>1, ImageOf
  <2>3. Abstract!Leave(v)
    BY <1>1, <2>1, <2>2 DEF Abstract!Leave
  <2> QED BY <2>3
<1> QED BY <1>2, <1>3

LEMMA HandlerImplements ==
  ASSUME TypeOK, StreamInv, NEW v \in Viewers, HandlerStep(v) \/ Vanish(v)
  PROVE  [Abstract!Next]_(Abstract!vars)
<1> USE DEF Abstract!Next, Abstract!vars
<1>1. /\ UNCHANGED <<journal, task, after>> /\ UNCHANGED <<registered, finished>>
      /\ Sealed' = Sealed
  BY DEF HandlerStep, SendBacklog, EndBacklog, EndReplay, TakeEvent, TakeSentinel,
         Finalise, Vanish, runVars, Sealed
<1>2. ViewerInv(v) /\ SentInv(v) /\ LogInv /\ EndInv
  BY DEF StreamInv, ViewerInv
<1>3. CASE SendBacklog(v)
  <2>1. lastSent[v] + 1 \in Nat /\ lastSent[v] + 1 < Len(journal) /\ Send(v, lastSent[v] + 1)
    BY <1>2, <1>3, BacklogSends
  <2>2. stage[v] \in Open
    BY <1>3 DEF SendBacklog, Open
  <2>3. Abstract!Receive(v) \/ Abstract!Leave(v)
    BY <1>1, <1>2, <2>1, <2>2, SendImplements
  <2> QED BY <2>3
<1>4. CASE TakeEvent(v)
  <2>1. CASE Head(queue[v]) > lastSent[v]
    <3>1. /\ lastSent[v] + 1 \in Nat /\ lastSent[v] + 1 < Len(journal)
          /\ Send(v, lastSent[v] + 1)
      BY <1>2, <1>4, <2>1, QueueSends
    <3>2. stage[v] \in Open
      BY <1>4 DEF TakeEvent, Open
    <3>3. Abstract!Receive(v) \/ Abstract!Leave(v)
      BY <1>1, <1>2, <3>1, <3>2, SendImplements
    <3> QED BY <3>3
  <2>2. CASE ~(Head(queue[v]) > lastSent[v])
    <3>1. stage' = stage /\ received' = received
      BY <1>4, <2>2 DEF TakeEvent
    <3> QED BY <1>1, <3>1, SameStage
  <2> QED BY <2>1, <2>2
<1>5. ASSUME stage[v] \in Open, Close(v), Sealed, received' = received
      PROVE  Abstract!Close(v) \/ Abstract!Leave(v)
  <2>1. View[v] = "open"
    BY <1>5 DEF View, Image
  <2>2. CASE connected[v]
    <3>1. View' = [View EXCEPT ![v] = "closed"]
      <4>1. stage' = [stage EXCEPT ![v] = "closed"]
        BY <1>5, <2>2 DEF Close
      <4>2. View' = [View EXCEPT ![v] = Image("closed")]
        BY <4>1, ViewMoves
      <4> QED BY <4>2, ImageOf
    <3> QED BY <1>1, <1>5, <2>1, <3>1 DEF Abstract!Close
  <2>3. CASE ~connected[v]
    <3>1. View' = [View EXCEPT ![v] = "gone"]
      <4>1. stage' = [stage EXCEPT ![v] = "aborted"]
        BY <1>5, <2>3 DEF Close
      <4>2. View' = [View EXCEPT ![v] = Image("aborted")]
        BY <4>1, ViewMoves
      <4> QED BY <4>2, ImageOf
    <3> QED BY <1>1, <1>5, <2>1, <3>1 DEF Abstract!Leave
  <2> QED BY <2>2, <2>3
<1>6. CASE EndBacklog(v)
  <2>1. stage[v] = "backlog" /\ stage[v] \in Open /\ received' = received
    BY <1>6 DEF EndBacklog, Open
  <2>2. CASE finished
    <3>1. Sealed
      BY <1>2, <2>2 DEF LogInv, Sealed
    <3>2. Close(v)
      BY <1>6, <2>2 DEF EndBacklog
    <3> QED BY <1>5, <2>1, <3>1, <3>2
  <2>3. CASE ~finished
    <3>1. stage' = [stage EXCEPT ![v] = "live"]
      BY <1>6, <2>3 DEF EndBacklog
    <3>2. View' = View
      BY <2>1, <3>1, ViewStays, ImageOf
    <3> QED BY <1>1, <2>1, <3>2
  <2> QED BY <2>2, <2>3
<1>7. CASE EndReplay(v)
  <2>1. stage[v] = "replay" /\ stage[v] \in Open /\ received' = received /\ Close(v)
    BY <1>7 DEF EndReplay, Open
  <2>2. Sealed
    BY <1>2, <2>1 DEF EndInv, Sealed
  <2> QED BY <1>5, <2>1, <2>2
<1>8. CASE TakeSentinel(v)
  <2>1. stage[v] = "live" /\ stage[v] \in Open /\ received' = received /\ Close(v)
    BY <1>8 DEF TakeSentinel, Open
  <2>2. finished
    BY <1>2, <1>8, SentinelIsLast DEF TakeSentinel, ViewerInv
  <2>3. Sealed
    BY <1>2, <2>2 DEF LogInv, Sealed
  <2> QED BY <1>5, <2>1, <2>3
<1>9. CASE Finalise(v)
  <2>1. /\ stage[v] = "aborting" /\ stage' = [stage EXCEPT ![v] = "aborted"]
        /\ received' = received
    BY <1>9 DEF Finalise
  <2>2. View' = View
    BY <2>1, ViewStays, ImageOf
  <2> QED BY <1>1, <2>1, <2>2
<1>10. CASE Vanish(v)
  <2>1. stage' = stage /\ received' = received
    BY <1>10 DEF Vanish
  <2> QED BY <1>1, <2>1, SameStage
<1> QED BY <1>3, <1>4, <1>6, <1>7, <1>8, <1>9, <1>10 DEF HandlerStep

\* LiveStream implements EventStream: whatever the run, the viewers, the overflowing queues
\* and a restart do, each step is an event recorded, the log sealed, the process lost, or one
\* viewer opening, receiving exactly the next event, being told the end of a sealed log, or
\* leaving.
THEOREM StreamImplementsEventStream == Spec => ImplementsEventStream
<1>1. TypeOK /\ StreamInv /\ [Next]_vars => [Abstract!Next]_(Abstract!vars)
  <2> SUFFICES ASSUME TypeOK, StreamInv, [Next]_vars PROVE [Abstract!Next]_(Abstract!vars)
    OBVIOUS
  <2>1. CASE Emit \/ EmitFails \/ Finish \/ Restart
    BY <2>1, RunImplements
  <2>2. ASSUME NEW v \in Viewers, NEW a \in AfterValues,
               ConnectLive(v, a) \/ ConnectReplay(v, a)
        PROVE  [Abstract!Next]_(Abstract!vars)
    BY <2>2, ConnectImplements DEF Abstract!Next
  <2>3. ASSUME NEW v \in Viewers, HandlerStep(v) \/ Vanish(v)
        PROVE  [Abstract!Next]_(Abstract!vars)
    BY <2>3, HandlerImplements
  <2>4. CASE UNCHANGED vars
    <3>1. UNCHANGED <<journal, task, stage, after, received>>
      BY <2>4 DEF vars, runVars, viewerVars
    <3> QED BY <3>1, SameStage DEF Abstract!vars, Sealed
  <2> QED BY <2>1, <2>2, <2>3, <2>4 DEF Next, ViewerStep
<1> QED
  BY <1>1, AbstractInit, TypeCorrect, StreamInvariant, PTL
     DEF Spec, ImplementsEventStream, Abstract!Spec
=============================================================================
