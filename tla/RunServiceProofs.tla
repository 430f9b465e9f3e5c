-------------------------- MODULE RunServiceProofs --------------------------
(***************************************************************************)
(* Proofs about RunService, for any number of runs and readers and any     *)
(* number of restarts and failing writes.                                  *)
(***************************************************************************)
EXTENDS RunService, TLAPS

Inv == TypeOK /\ RecordInv

LEMMA InvInit == Init => Inv
<1> SUFFICES ASSUME Init PROVE Inv
  OBVIOUS
<1>1. TypeOK
  BY RunServiceAssumption DEF Init, TypeOK, Stages, Final
<1>2. RecordInv
  BY DEF Init, RecordInv, RegisteredTasks, FinalIsEarned, ReadersHold, Final
<1> QED BY <1>1, <1>2 DEF Inv

-----------------------------------------------------------------------------
(* Types *)

\* A write that fails counts.
LEMMA FaultsTyped ==
  ASSUME TypeOK, WriteFails
  PROVE  faults' \in 0..MaxFaults
  BY RunServiceAssumption DEF TypeOK, WriteFails

\* A read changes what its own reader holds, and adds to it the run it read as running, if
\* any: the cut to the newest runs only takes away.
LEMMA ReadAdds ==
  ASSUME TypeOK, NEW t \in Readers, NEW r \in Runs, ReadMeta(t, r)
  PROVE  /\ found' \in [Readers -> SUBSET Runs]
         /\ running' \in [Readers -> SUBSET Runs]
         /\ \A u \in Readers : \A q \in running'[u] :
              q \in running[u] \/ (q = r /\ meta[r] = "running")
<1> DEFINE metas == found[t] \cup {q \in {r} : meta[q] # "none"}
           open  == running[t] \cup {q \in {r} : meta[q] = "running"}
           kept  == open \cap Newest(metas, Limit[t])
<1>0. found \in [Readers -> SUBSET Runs] /\ running \in [Readers -> SUBSET Runs]
  BY DEF TypeOK
<1>1. metas \subseteq Runs /\ open \subseteq Runs /\ kept \subseteq open
  BY <1>0
<1>2. \A q \in open : q \in running[t] \/ (q = r /\ meta[r] = "running")
  OBVIOUS
<1>3. \/ /\ running' = [running EXCEPT ![t] = kept]
         /\ found' = [found EXCEPT ![t] = {}]
      \/ /\ running' = [running EXCEPT ![t] = open]
         /\ found' = [found EXCEPT ![t] = metas]
  BY DEF ReadMeta
<1> HIDE DEF metas, open, kept
<1> QED BY <1>0, <1>1, <1>2, <1>3

LEMMA TypeStep == TypeOK /\ [Next]_vars => TypeOK'
<1> SUFFICES ASSUME TypeOK, [Next]_vars PROVE TypeOK'
  OBVIOUS
<1> USE DEF TypeOK, requests
<1>1. ASSUME NEW r \in Runs, StartCreate(r) PROVE TypeOK'
  BY <1>1 DEF StartCreate, Called, Stages, Final
<1>2. ASSUME NEW r \in Runs, StartFails(r) PROVE TypeOK'
  BY <1>2, FaultsTyped DEF StartFails, Called, Stages, Final
<1>3. ASSUME NEW r \in Runs, StartRegister(r) PROVE TypeOK'
  BY <1>3 DEF StartRegister, Stages, Final
<1>4. ASSUME NEW r \in Runs, ExecuteReturns(r) PROVE TypeOK'
  BY <1>4, FaultsTyped DEF ExecuteReturns, Stages, Final
<1>5. ASSUME NEW r \in Runs, ExecuteRaises(r) PROVE TypeOK'
  BY <1>5 DEF ExecuteRaises, Stages, Final
<1>6. ASSUME NEW r \in Runs, RecordError(r) PROVE TypeOK'
  BY <1>6, FaultsTyped DEF RecordError, Stages, Final
<1>7. ASSUME NEW r \in Runs, EndRun(r) PROVE TypeOK'
  BY <1>7 DEF EndRun, Stages, Final
<1>8. ASSUME NEW r \in Runs, HandlerGets(r) PROVE TypeOK'
  BY <1>8, FaultsTyped DEF HandlerGets, Stages, Final
<1>9. ASSUME NEW t \in Readers, NEW q \in SUBSET Runs, Ask(t, q) PROVE TypeOK'
  BY <1>9 DEF Ask
<1>10. ASSUME NEW t \in Readers, NEW r \in Runs, ReadMeta(t, r) PROVE TypeOK'
  BY <1>10, ReadAdds DEF ReadMeta
<1>11. ASSUME NEW t \in Readers, NEW r \in Runs, LookUp(t, r) PROVE TypeOK'
  BY <1>11 DEF LookUp
<1>12. ASSUME NEW t \in Readers, Abandon(t) PROVE TypeOK'
  BY <1>12, FaultsTyped DEF Abandon, Final
<1>13. CASE Restart
  BY <1>13, RunServiceAssumption DEF Restart, Stages
<1>14. CASE UNCHANGED vars
  BY <1>14 DEF vars
<1> QED
  BY <1>1, <1>2, <1>3, <1>4, <1>5, <1>6, <1>7, <1>8, <1>9, <1>10, <1>11, <1>12, <1>13, <1>14
     DEF Next, TaskStep, ReaderStep, List, Get

-----------------------------------------------------------------------------
(* The inductive invariant *)

LEMMA RecordStep == Inv /\ [Next]_vars => RecordInv'
<1> SUFFICES ASSUME Inv, [Next]_vars PROVE RecordInv'
  OBVIOUS
<1>0. TypeOK /\ RegisteredTasks /\ FinalIsEarned /\ ReadersHold
  BY DEF Inv, RecordInv
<1>n. None \notin Runs
  BY RunServiceAssumption
<1> USE <1>0 DEF TypeOK, requests
<1>1. ASSUME NEW r \in Runs, StartCreate(r) PROVE RecordInv'
  <2>1. RegisteredTasks'
    BY <1>1 DEF StartCreate, Called, RegisteredTasks
  <2>2. FinalIsEarned'
    BY <1>1 DEF StartCreate, Called, FinalIsEarned, Final
  <2>3. ReadersHold'
    BY <1>1, <1>n DEF StartCreate, Called, ReadersHold
  <2> QED BY <2>1, <2>2, <2>3 DEF RecordInv
<1>2. ASSUME NEW r \in Runs, StartFails(r) PROVE RecordInv'
  <2>1. RegisteredTasks'
    BY <1>2 DEF StartFails, Called, RegisteredTasks
  <2>2. FinalIsEarned'
    BY <1>2 DEF StartFails, Called, FinalIsEarned, Final
  <2>3. ReadersHold'
    BY <1>2, <1>n DEF StartFails, Called, ReadersHold
  <2> QED BY <2>1, <2>2, <2>3 DEF RecordInv
<1>3. ASSUME NEW r \in Runs, StartRegister(r) PROVE RecordInv'
  <2>1. RegisteredTasks'
    BY <1>3 DEF StartRegister, RegisteredTasks
  <2>2. FinalIsEarned'
    BY <1>3 DEF StartRegister, FinalIsEarned, Final
  <2>3. ReadersHold'
    BY <1>3, <1>n DEF StartRegister, ReadersHold
  <2> QED BY <2>1, <2>2, <2>3 DEF RecordInv
<1>4. ASSUME NEW r \in Runs, ExecuteReturns(r) PROVE RecordInv'
  <2>1. RegisteredTasks'
    BY <1>4 DEF ExecuteReturns, RegisteredTasks
  <2>2. FinalIsEarned'
    BY <1>4 DEF ExecuteReturns, FinalIsEarned, Final
  <2>3. ReadersHold'
    BY <1>4, <1>n DEF ExecuteReturns, ReadersHold
  <2> QED BY <2>1, <2>2, <2>3 DEF RecordInv
<1>5. ASSUME NEW r \in Runs, ExecuteRaises(r) PROVE RecordInv'
  <2>1. RegisteredTasks'
    BY <1>5 DEF ExecuteRaises, RegisteredTasks
  <2>2. FinalIsEarned'
    BY <1>5 DEF ExecuteRaises, FinalIsEarned, Final
  <2>3. ReadersHold'
    BY <1>5, <1>n DEF ExecuteRaises, ReadersHold
  <2> QED BY <2>1, <2>2, <2>3 DEF RecordInv
<1>6. ASSUME NEW r \in Runs, RecordError(r) PROVE RecordInv'
  <2>1. RegisteredTasks'
    BY <1>6 DEF RecordError, RegisteredTasks
  <2>2. FinalIsEarned'
    BY <1>6 DEF RecordError, FinalIsEarned, Final
  <2>3. ReadersHold'
    BY <1>6, <1>n DEF RecordError, ReadersHold
  <2> QED BY <2>1, <2>2, <2>3 DEF RecordInv
<1>7. ASSUME NEW r \in Runs, EndRun(r) PROVE RecordInv'
  <2>1. RegisteredTasks'
    BY <1>7 DEF EndRun, RegisteredTasks
  <2>2. FinalIsEarned'
    BY <1>7 DEF EndRun, FinalIsEarned, Final
  <2>3. ReadersHold'
    BY <1>7, <1>n DEF EndRun, ReadersHold
  <2> QED BY <2>1, <2>2, <2>3 DEF RecordInv
<1>8. ASSUME NEW r \in Runs, HandlerGets(r) PROVE RecordInv'
  <2>1. task[r] = "dead"
    BY <1>8 DEF HandlerGets, Turn, Busy, RegisteredTasks
  <2>2. RegisteredTasks'
    BY <1>8, <2>1 DEF HandlerGets, RegisteredTasks
  <2>3. FinalIsEarned'
    BY <1>8, <2>1 DEF HandlerGets, FinalIsEarned, Final
  <2>4. ReadersHold'
    BY <1>8, <1>n DEF HandlerGets, ReadersHold
  <2> QED BY <2>2, <2>3, <2>4 DEF RecordInv
<1>9. ASSUME NEW t \in Readers, NEW q \in SUBSET Runs, Ask(t, q) PROVE RecordInv'
  BY <1>9 DEF Ask, RecordInv, RegisteredTasks, FinalIsEarned, ReadersHold
<1>10. ASSUME NEW t \in Readers, NEW r \in Runs, ReadMeta(t, r) PROVE RecordInv'
  <2>1. RegisteredTasks' /\ FinalIsEarned'
    BY <1>10 DEF ReadMeta, RegisteredTasks, FinalIsEarned
  <2>2. ReadersHold'
    <3>1. /\ UNCHANGED <<task, meta, missing, raced>>
          /\ meta[r] = "running" => task[r] \notin {"none", "refused"}
      BY <1>10 DEF ReadMeta, RegisteredTasks
    <3>2. \A u \in Readers : \A q \in running'[u] :
            q \in running[u] \/ (q = r /\ meta[r] = "running")
      BY <1>10, ReadAdds
    <3> QED BY <3>1, <3>2 DEF ReadersHold
  <2> QED BY <2>1, <2>2 DEF RecordInv
<1>11. ASSUME NEW t \in Readers, NEW r \in Runs, LookUp(t, r) PROVE RecordInv'
  <2>1. RegisteredTasks' /\ FinalIsEarned'
    BY <1>11 DEF LookUp, RegisteredTasks, FinalIsEarned
  <2>2. ReadersHold'
    BY <1>11, <1>n DEF LookUp, ReadersHold, RegisteredTasks
  <2> QED BY <2>1, <2>2 DEF RecordInv
<1>12. ASSUME NEW t \in Readers, Abandon(t) PROVE RecordInv'
  <2>1. missing[t] \in Runs /\ (missing[t] \notin raced => task[missing[t]] = "dead")
    BY <1>12 DEF Abandon, ReadersHold
  <2>2. task[missing[t]] \notin {"none", "refused"}
    BY <1>12, <2>1 DEF Abandon, RegisteredTasks, ReadersHold
  <2>3. RegisteredTasks'
    BY <1>12, <2>1, <2>2 DEF Abandon, RegisteredTasks
  <2>4. FinalIsEarned'
    BY <1>12, <2>1 DEF Abandon, FinalIsEarned, Final
  <2>5. ReadersHold'
    BY <1>12, <1>n DEF Abandon, ReadersHold
  <2> QED BY <2>3, <2>4, <2>5 DEF RecordInv
<1>13. CASE Restart
  BY <1>13 DEF Restart, RecordInv, RegisteredTasks, FinalIsEarned, ReadersHold, Final
<1>14. CASE UNCHANGED vars
  BY <1>14 DEF vars, RecordInv, RegisteredTasks, FinalIsEarned, ReadersHold
<1> QED
  BY <1>1, <1>2, <1>3, <1>4, <1>5, <1>6, <1>7, <1>8, <1>9, <1>10, <1>11, <1>12, <1>13, <1>14
     DEF Next, TaskStep, ReaderStep, List, Get

LEMMA InvStep == Inv /\ [Next]_vars => Inv'
  BY TypeStep, RecordStep DEF Inv

-----------------------------------------------------------------------------
(* The properties *)

\* Every variable keeps its type, and the registry, the tasks, the metadata and what readers
\* hold on to stay in step, whatever crashes and fails.
THEOREM ServiceInvariant == Spec => [](TypeOK /\ RecordInv)
<1>1. Inv => TypeOK /\ RecordInv
  BY DEF Inv
<1> QED BY InvInit, InvStep, <1>1, PTL DEF Spec

\* No step revises a final state, but for a raced run.
LEMMA FinalStep ==
  ASSUME Inv, [Next]_vars, NEW q \in Runs, meta[q] \in Final, meta'[q] # meta[q]
  PROVE  q \in raced
<1>0. TypeOK /\ RegisteredTasks /\ FinalIsEarned /\ ReadersHold
  BY DEF Inv, RecordInv
<1>1. SUFFICES ASSUME q \notin raced PROVE FALSE
  OBVIOUS
<1>2. task[q] \in {"ending", "done", "dead"} /\ meta \in [Runs -> {"none", "running"} \cup Final]
  BY <1>0, <1>1 DEF FinalIsEarned, TypeOK
<1>3. ASSUME NEW r \in Runs, StartCreate(r) \/ ExecuteReturns(r) \/ RecordError(r) PROVE FALSE
  <2>1. task[r] \in {"none", "executing", "failing"}
    BY <1>3 DEF StartCreate, Called, ExecuteReturns, RecordError
  <2>2. r # q
    BY <1>2, <2>1
  <2> QED BY <1>2, <1>3, <2>2 DEF StartCreate, ExecuteReturns, RecordError
<1>4. ASSUME NEW r \in Runs, HandlerGets(r) PROVE FALSE
  <2>1. meta[r] = "running"
    BY <1>4 DEF HandlerGets
  <2>2. r # q
    BY <2>1 DEF Final
  <2> QED BY <1>2, <1>4, <2>2 DEF HandlerGets
<1>5. ASSUME NEW t \in Readers, Abandon(t) PROVE FALSE
  <2>1. meta' = [meta EXCEPT ![missing[t]] = "abandoned"]
    BY <1>5 DEF Abandon
  <2>2. missing[t] = q
    BY <1>2, <2>1
  <2>3. meta[q] = "abandoned"
    BY <1>0, <1>1, <1>5, <2>2, RunServiceAssumption DEF ReadersHold, Abandon, Final
  <2> QED BY <1>2, <2>1, <2>2, <2>3
<1>6. ASSUME NEW r \in Runs,
             StartFails(r) \/ StartRegister(r) \/ ExecuteRaises(r) \/ EndRun(r)
      PROVE  FALSE
  BY <1>6 DEF StartFails, StartRegister, ExecuteRaises, EndRun
<1>7. ASSUME NEW t \in Readers, NEW r \in Runs, ReadMeta(t, r) \/ LookUp(t, r) PROVE FALSE
  BY <1>7 DEF ReadMeta, LookUp
<1>8. ASSUME NEW t \in Readers, NEW s, Ask(t, s) PROVE FALSE
  BY <1>8 DEF Ask
<1>9. CASE Restart \/ UNCHANGED vars
  BY <1>9 DEF Restart, vars
<1> QED
  BY <1>3, <1>4, <1>5, <1>6, <1>7, <1>8, <1>9 DEF Next, TaskStep, ReaderStep, List, Get

\* A final state on disk is revised only if a reader looked the run up while start was
\* between store.create and registry.create (service.py:113-115, 205-229).
THEOREM FinalStates == Spec => FinalUnlessRaced
<1>1. Inv /\ [Next]_vars =>
        [\A r \in Runs : meta[r] \in Final /\ meta'[r] # meta[r] => r \in raced]_vars
  BY FinalStep
<1> QED BY InvInit, InvStep, <1>1, PTL DEF Spec, FinalUnlessRaced

LEMMA RecordedStep ==
  ASSUME Inv, EndedIsRecorded, [Next]_vars
  PROVE  EndedIsRecorded'
<1>0. TypeOK
  BY DEF Inv
<1> USE <1>0 DEF TypeOK, EndedIsRecorded, requests
<1>1. ASSUME NEW r \in Runs,
             StartCreate(r) \/ StartFails(r) \/ StartRegister(r) \/ ExecuteRaises(r)
      PROVE  EndedIsRecorded'
  BY <1>1 DEF StartCreate, StartFails, Called, StartRegister, ExecuteRaises
<1>2. ASSUME NEW r \in Runs, ExecuteReturns(r) PROVE EndedIsRecorded'
  BY <1>2 DEF ExecuteReturns
<1>3. ASSUME NEW r \in Runs, RecordError(r) PROVE EndedIsRecorded'
  BY <1>3 DEF RecordError
<1>4. ASSUME NEW r \in Runs, EndRun(r) PROVE EndedIsRecorded'
  BY <1>4 DEF EndRun
<1>5. ASSUME NEW r \in Runs, HandlerGets(r) PROVE EndedIsRecorded'
  BY <1>5 DEF HandlerGets
<1>6. ASSUME NEW t \in Readers, Abandon(t) PROVE EndedIsRecorded'
  BY <1>6 DEF Abandon
<1>7. ASSUME NEW t \in Readers, NEW r \in Runs, ReadMeta(t, r) \/ LookUp(t, r)
      PROVE  EndedIsRecorded'
  BY <1>7 DEF ReadMeta, LookUp
<1>8. ASSUME NEW t \in Readers, NEW s, Ask(t, s) PROVE EndedIsRecorded'
  BY <1>8 DEF Ask
<1>9. CASE Restart
  BY <1>9 DEF Restart
<1>10. CASE UNCHANGED vars
  BY <1>10 DEF vars
<1> QED
  BY <1>1, <1>2, <1>3, <1>4, <1>5, <1>6, <1>7, <1>8, <1>9, <1>10
     DEF Next, TaskStep, ReaderStep, List, Get

\* A task that has ended leaves its run on running only when the write of the except block
\* failed, however many other writes fail (service.py:152-161).
THEOREM OutcomeRecorded == Spec => []EndedIsRecorded
<1>1. Init => EndedIsRecorded
  BY DEF Init, EndedIsRecorded
<1>2. Inv /\ EndedIsRecorded /\ [Next]_vars => EndedIsRecorded'
  BY RecordedStep
<1> QED BY InvInit, InvStep, <1>1, <1>2, PTL DEF Spec
=============================================================================
