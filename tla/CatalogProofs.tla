---------------------------- MODULE CatalogProofs ----------------------------
(***************************************************************************)
(* Proofs about Catalog, for any number of processes, syncs and threads,   *)
(* and any lists of models.                                                *)
(***************************************************************************)
EXTENDS Catalog, FiniteSetTheorems, SequenceTheorems, WellFoundedInduction, TLAPS

\* A sync between the start and the end of its save has a second, and what it was sent.
SyncOK(s) ==
  /\ stage[s] # "idle" => fetched[s] \in Contents
  /\ stage[s] \in {"opened", "written"} => stamp[s] \in Times
  /\ stage[s] \notin {"opened", "written"} => stamp[s] = None

\* A second that two syncs do not share: who saves in it is alone, and has the temporary
\* file to itself; the snapshot appears when it is done.
SecondOK(i) ==
  /\ files[i] # Torn
  /\ savers[i] = 0 => files[i] = None /\ \A s \in Syncs : stamp[s] # i
  /\ \A s \in Syncs : stamp[s] = i =>
       /\ \A r \in Syncs : stamp[r] = i => r = s
       /\ files[i] = None /\ target[s] = "temp"
       /\ temp[i] = IF stage[s] = "written" THEN fetched[s] ELSE Torn

SaveInv ==
  /\ \A s \in Syncs : SyncOK(s)
  /\ \A i \in Times : ~Shared(i) => SecondOK(i)

\* What a process holds is what the file says.
HeldOK(x) == x \in Snapshots /\ ~Shared(x.id) => files[x.id] = x.content

HeldInv ==
  /\ \A p \in Servers : HeldOK(cache[p])
  /\ \A t \in Threads : HeldOK(found[t])

\* A process that has stored a snapshot and was not overtaken serves it, and no thread of it
\* is about to put anything else there.
SyncedInv ==
  \A p \in Servers \ overtaken : synced[p] # None =>
    cache[p] \in Snapshots /\ cache[p].id = synced[p] /\ ~Loading(p)

Inv == TypeOK /\ SaveInv /\ HeldInv /\ SyncedInv

-----------------------------------------------------------------------------
(* The newest snapshot *)

LEMMA LeastElement ==
  ASSUME NEW S \in SUBSET Nat, S # {}
  PROVE  \E m \in S : \A k \in S : m <= k
<1> DEFINE R == {ss \in Nat \X Nat : ss[1] < ss[2]}
<1>1. IsWellFoundedOn(R, Nat)
  BY NatLessThanWellFounded DEF OpToRel
<1>2. \E m \in S : \A k \in S : ~(<<k, m>> \in R)
  <2> HIDE DEF R
  <2> QED BY <1>1, WFMin
<1>3. PICK m \in S : \A k \in S : ~(<<k, m>> \in R)
  BY <1>2
<1>4. ASSUME NEW k \in S PROVE m <= k
  <2>1. ~(k < m) /\ k \in Nat /\ m \in Nat
    BY <1>3
  <2> QED BY <2>1
<1> QED BY <1>4

LEMMA GreatestExists ==
  ASSUME NEW n \in Nat, NEW S \in SUBSET (1..n), S # {}
  PROVE  \E m \in S : \A j \in S : j <= m
<1> DEFINE T == {n - i : i \in S}
<1>1. T \in SUBSET Nat
  OBVIOUS
<1>2. T # {}
  <2>1. PICK i \in S : TRUE
    OBVIOUS
  <2>2. n - i \in T
    BY <2>1
  <2> QED BY <2>2
<1>3. PICK x \in T : \A y \in T : x <= y
  <2> HIDE DEF T
  <2> QED BY <1>1, <1>2, LeastElement
<1>4. PICK m \in S : x = n - m
  OBVIOUS
<1>5. ASSUME NEW j \in S PROVE j <= m
  <2>1. n - m <= n - j
    BY <1>3, <1>4
  <2> QED BY <2>1
<1> QED BY <1>5

\* What load_latest returns is nothing, or a snapshot and what its file holds.
LEMMA LoadedIsStored ==
  ASSUME TypeOK, LoadLatest # None
  PROVE  LoadLatest \in Snapshots /\ files[LoadLatest.id] = LoadLatest.content
<1>1. Published # {} /\ files[Newest] # Torn
      /\ LoadLatest = [id |-> Newest, content |-> files[Newest]]
  BY DEF LoadLatest
<1>2. Published \in SUBSET (1..MaxTime) /\ MaxTime \in Nat
  BY CatalogAssumption DEF Published, Times
<1>3. \E m \in Published : \A j \in Published : j <= m
  BY <1>1, <1>2, GreatestExists
<1>4. Newest \in Published
  BY <1>3 DEF Newest
<1>5. Newest \in Times /\ files[Newest] \in Contents
  BY <1>1, <1>4 DEF TypeOK, Published
<1> QED BY <1>1, <1>5 DEF Snapshots

-----------------------------------------------------------------------------
(* The initial state *)

LEMMA InvInit == Init => Inv
<1> SUFFICES ASSUME Init PROVE Inv
  OBVIOUS
<1>1. 1 \in Times /\ 1 \in Contents
  BY CatalogAssumption DEF Times
<1>2. TypeOK
  BY <1>1 DEF Init, TypeOK
<1>3. SaveInv
  BY CatalogAssumption DEF Init, SaveInv, SyncOK, SecondOK
<1>4. HeldInv
  BY CatalogAssumption DEF Init, HeldInv, HeldOK
<1>5. SyncedInv
  BY DEF Init, SyncedInv
<1> QED BY <1>2, <1>3, <1>4, <1>5 DEF Inv

-----------------------------------------------------------------------------
(* Types *)

LEMMA TypeStep ==
  ASSUME TypeOK, SaveInv, [Next]_vars
  PROVE  TypeOK'
<1> USE DEF TypeOK
<1>1. CASE Tick
  BY <1>1, CatalogAssumption DEF Tick, Times, disk, sync, threads, history
<1>2. CASE Change
  BY <1>2, CatalogAssumption DEF Change, disk, sync, threads, history
<1>3. ASSUME NEW s \in Syncs, NEW p \in Procs, Fetch(s, p) PROVE TypeOK'
  BY <1>3 DEF Fetch, world, disk, threads, history
<1>4. ASSUME NEW s \in Syncs, Open(s) PROVE TypeOK'
  BY <1>4 DEF Open, world, threads
<1>5. ASSUME NEW s \in Syncs, Write(s) PROVE TypeOK'
  <2>1. stamp[s] \in Times /\ fetched[s] \in Contents /\ stage[s] = "opened"
    BY <1>5 DEF Write, SaveInv, SyncOK
  <2>2. \A old : Mixed(s, old) \subseteq Contents \cup {Torn}
    BY <2>1 DEF Mixed
  <2>3. files' \in [Times -> Contents \cup {None, Torn}] /\ temp' \in [Times -> Contents \cup {None, Torn}]
    BY <1>5, <2>1, <2>2 DEF Write, disk
  <2> QED BY <1>5, <2>3 DEF Write, world, threads, history
<1>6. ASSUME NEW s \in Syncs, WriteError(s) PROVE TypeOK'
  BY <1>6 DEF WriteError, Over, world, disk, threads, history
<1>7. ASSUME NEW s \in Syncs, Rename(s) PROVE TypeOK'
  <2>1. stamp[s] \in Times /\ fetched[s] \in Contents
    BY <1>7 DEF Rename, SaveInv, SyncOK
  <2>2. /\ stage' \in [Syncs -> {"idle", "fetched", "opened", "written"}]
        /\ home' \in [Syncs \cup Threads -> Procs \cup {None}]
        /\ fetched' \in [Syncs -> Contents \cup {None}] /\ stamp' \in [Syncs -> Times \cup {None}]
        /\ UNCHANGED <<now, upstream, phase, found>>
    BY <1>7 DEF Rename, Over, world, threads
  <2>3. CASE temp[stamp[s]] = None
    <3>1. UNCHANGED <<files, temp, cache, savers, synced, overtaken>>
          /\ target' = [target EXCEPT ![s] = "gone"]
      BY <1>7, <2>3 DEF Rename, disk, history
    <3> QED BY <2>2, <3>1
  <2>4. CASE temp[stamp[s]] # None
    <3>1. /\ files' \in [Times -> Contents \cup {None, Torn}]
          /\ temp' \in [Times -> Contents \cup {None, Torn}]
      BY <1>7, <2>1, <2>4 DEF Rename
    <3>2. target' \in [Syncs -> {"temp", "file", "gone"}]
      BY <1>7, <2>4 DEF Rename
    <3>3. StoreSynced(s) /\ UNCHANGED savers
      BY <1>7, <2>4 DEF Rename
    <3>4. cache' \in [Servers -> Snapshots \cup {None, Fixture}] /\ synced' \in [Servers -> Times \cup {None}]
          /\ overtaken' \subseteq Servers
      BY <2>1, <3>3 DEF StoreSynced, Snapshots
    <3> QED BY <2>2, <3>1, <3>2, <3>3, <3>4
  <2> QED BY <2>3, <2>4
<1>8. ASSUME NEW t \in Threads, NEW p \in Servers, FindNoCache(t, p) PROVE TypeOK'
  BY <1>8, CatalogAssumption DEF FindNoCache, world, disk, sync, history
<1>9. ASSUME NEW t \in Threads, Load(t) PROVE TypeOK'
  <2>1. found' \in [Threads -> Snapshots \cup {None, Fixture}]
    BY <1>9, LoadedIsStored DEF Load
  <2> QED BY <1>9, <2>1 DEF Load, world, disk, sync, history
<1>10. ASSUME NEW t \in Threads, Store(t) PROVE TypeOK'
  BY <1>10 DEF Store, world, disk, sync, history
<1>11. ASSUME NEW p \in Procs, Crash(p) PROVE TypeOK'
  BY <1>11 DEF Crash, world, disk
<1>12. CASE UNCHANGED vars
  BY <1>12 DEF vars, world, disk, sync, threads, history
<1> QED
  BY <1>1, <1>2, <1>3, <1>4, <1>5, <1>6, <1>7, <1>8, <1>9, <1>10, <1>11, <1>12 DEF Next

-----------------------------------------------------------------------------
(* The files *)

\* What a step does to the saves: nothing, or one of these.
LEMMA SyncSteps ==
  ASSUME [Next]_vars
  PROVE  \/ UNCHANGED <<disk, sync, savers>>
         \/ \E s \in Syncs : \/ \E p \in Procs : Fetch(s, p)
                            \/ Open(s) \/ Write(s) \/ WriteError(s) \/ Rename(s)
         \/ \E p \in Procs : Crash(p)
<1>1. CASE Tick \/ Change
  BY <1>1 DEF Tick, Change, history
<1>2. ASSUME NEW t \in Threads, NEW p \in Servers, FindNoCache(t, p) PROVE UNCHANGED <<disk, sync, savers>>
  BY <1>2 DEF FindNoCache, history
<1>3. ASSUME NEW t \in Threads, Load(t) \/ Store(t) PROVE UNCHANGED <<disk, sync, savers>>
  BY <1>3 DEF Load, Store, history
<1>4. CASE UNCHANGED vars
  BY <1>4 DEF vars, history
<1> QED BY <1>1, <1>2, <1>3, <1>4 DEF Next

\* A second that is shared stays so; the snapshot of one that is not stays as it is.
LEMMA SnapshotStays ==
  ASSUME TypeOK, SaveInv, [Next]_vars, NEW i \in Times
  PROVE  /\ Shared(i) => Shared(i)'
         /\ files[i] # None /\ ~Shared(i) => files'[i] = files[i]
<1>1. CASE UNCHANGED <<disk, sync, savers>>
  BY <1>1 DEF disk, Shared
<1>2. ASSUME NEW s \in Syncs, NEW p \in Procs, Fetch(s, p)
      PROVE  UNCHANGED <<files, savers>>
  BY <1>2 DEF Fetch, disk, history
<1>3. ASSUME NEW s \in Syncs, Open(s)
      PROVE  files' = files /\ (Shared(i) => Shared(i)')
  BY <1>3 DEF Open, Shared, TypeOK
<1>4. ASSUME NEW s \in Syncs, Write(s)
      PROVE  savers' = savers /\ (files[i] # None /\ ~Shared(i) => files'[i] = files[i])
  <2>1. stamp[s] \in Times
    BY <1>4 DEF Write, SaveInv, SyncOK
  <2>2. CASE target[s] = "file"
    <3>1. Shared(i) \/ stamp[s] # i
      BY <2>1, <2>2 DEF SaveInv, SecondOK
    <3> QED BY <1>4, <2>1, <2>2, <3>1 DEF Write, TypeOK, history
  <2>3. CASE target[s] # "file"
    BY <1>4, <2>3 DEF Write, disk, history
  <2> QED BY <2>2, <2>3
<1>5. ASSUME NEW s \in Syncs, WriteError(s)
      PROVE  UNCHANGED <<files, savers>>
  BY <1>5 DEF WriteError, disk, history
<1>6. ASSUME NEW s \in Syncs, Rename(s)
      PROVE  savers' = savers /\ (files[i] # None /\ ~Shared(i) => files'[i] = files[i])
  <2>1. stamp[s] \in Times
    BY <1>6 DEF Rename, SaveInv, SyncOK
  <2>2. files[i] # None /\ ~Shared(i) => stamp[s] # i
    BY DEF SaveInv, SecondOK
  <2> QED BY <1>6, <2>1, <2>2 DEF Rename, TypeOK, disk, history
<1>7. ASSUME NEW p \in Procs, Crash(p)
      PROVE  UNCHANGED <<files, savers>>
  BY <1>7 DEF Crash, disk
<1> QED BY <1>1, <1>2, <1>3, <1>4, <1>5, <1>6, <1>7, SyncSteps DEF Shared

LEMMA SaveStep ==
  ASSUME TypeOK, SaveInv, [Next]_vars
  PROVE  SaveInv'
<1>1. ASSUME UNCHANGED <<disk, sync, savers>> PROVE SaveInv'
  BY <1>1 DEF SaveInv, SyncOK, SecondOK, Shared, disk, sync
<1>2. ASSUME NEW s \in Syncs, NEW p \in Procs, Fetch(s, p) PROVE SaveInv'
  <2>1. /\ stage[s] = "idle" /\ stage' = [stage EXCEPT ![s] = "fetched"]
        /\ fetched' = [fetched EXCEPT ![s] = upstream] /\ UNCHANGED <<files, temp, stamp, target, savers>>
    BY <1>2 DEF Fetch, disk, history
  <2>2. stamp[s] = None
    BY <2>1 DEF SaveInv, SyncOK
  <2>3. \A r \in Syncs : SyncOK(r)'
    BY <2>1, <2>2 DEF SaveInv, SyncOK, TypeOK
  <2>4. ASSUME NEW i \in Times, ~Shared(i)' PROVE SecondOK(i)'
    <3>1. SecondOK(i)
      BY <2>1, <2>4 DEF SaveInv, Shared
    <3>2. stamp[s] # i
      BY <2>2, CatalogAssumption
    <3> QED BY <2>1, <3>1, <3>2 DEF SecondOK, TypeOK
  <2> QED BY <2>3, <2>4 DEF SaveInv
<1>3. ASSUME NEW s \in Syncs, Open(s) PROVE SaveInv'
  <2>1. /\ stage[s] = "fetched" /\ stage' = [stage EXCEPT ![s] = "opened"]
        /\ stamp' = [stamp EXCEPT ![s] = now] /\ temp' = [temp EXCEPT ![now] = Torn]
        /\ target' = [target EXCEPT ![s] = "temp"]
        /\ savers' = [savers EXCEPT ![now] = IF @ = 0 THEN 1 ELSE 2]
        /\ UNCHANGED <<files, fetched>>
    BY <1>3 DEF Open
  <2>2. stamp[s] = None /\ fetched[s] \in Contents /\ now \in Times
    BY <2>1 DEF SaveInv, SyncOK, TypeOK
  <2>3. \A r \in Syncs : SyncOK(r)'
    BY <2>1, <2>2 DEF SaveInv, SyncOK, TypeOK
  <2>4. ASSUME NEW i \in Times, ~Shared(i)' PROVE SecondOK(i)'
    <3>1. SecondOK(i)
      BY <2>1, <2>4 DEF SaveInv, Shared, TypeOK
    <3>2. stamp[s] # i
      BY <2>2, CatalogAssumption
    <3>3. CASE i = now
      <4>1. savers[i] = 0 /\ savers'[i] # 0
        BY <2>1, <2>4, <3>3 DEF Shared, TypeOK
      <4>2. files[i] = None /\ \A r \in Syncs : stamp[r] # i
        BY <3>1, <4>1 DEF SecondOK
      <4>3. \A r \in Syncs : stamp'[r] = i => r = s
        BY <2>1, <4>2 DEF TypeOK
      <4>4. files'[i] = None /\ target'[s] = "temp" /\ temp'[i] = Torn /\ stage'[s] = "opened"
        BY <2>1, <2>2, <3>3, <4>2 DEF TypeOK
      <4> QED BY <4>1, <4>3, <4>4, CatalogAssumption DEF SecondOK
    <3>4. CASE i # now
      <4>1. \A r \in Syncs : stamp'[r] = i => r # s /\ stamp[r] = i
        BY <2>1, <3>4 DEF TypeOK
      <4>2. files'[i] = files[i] /\ temp'[i] = temp[i] /\ savers'[i] = savers[i]
        BY <2>1, <3>4 DEF TypeOK
      <4>3. \A r \in Syncs \ {s} : target'[r] = target[r] /\ stage'[r] = stage[r] /\ fetched'[r] = fetched[r]
        BY <2>1 DEF TypeOK
      <4> QED BY <3>1, <4>1, <4>2, <4>3 DEF SecondOK
    <3> QED BY <3>3, <3>4
  <2> QED BY <2>3, <2>4 DEF SaveInv
<1>4. ASSUME NEW s \in Syncs, Write(s) PROVE SaveInv'
  <2>1. /\ stage[s] = "opened" /\ stage' = [stage EXCEPT ![s] = "written"]
        /\ UNCHANGED <<fetched, stamp, target, savers>>
    BY <1>4 DEF Write, history
  <2>2. stamp[s] \in Times /\ fetched[s] \in Contents
    BY <2>1 DEF SaveInv, SyncOK
  <2>3. \A r \in Syncs : SyncOK(r)'
    BY <2>1, <2>2 DEF SaveInv, SyncOK, TypeOK
  <2>4. ASSUME NEW i \in Times, ~Shared(i)' PROVE SecondOK(i)'
    <3>1. SecondOK(i)
      BY <2>1, <2>4 DEF SaveInv, Shared
    <3>2. CASE stamp[s] = i
      <4>1. target[s] = "temp" /\ temp[i] = Torn /\ files[i] = None
        BY <2>1, <3>1, <3>2 DEF SecondOK
      <4>2. files' = files /\ temp' = [temp EXCEPT ![i] = fetched[s]]
        BY <1>4, <3>2, <4>1 DEF Write, Mixed
      <4>3. temp'[i] = fetched[s] /\ stage'[s] = "written"
        BY <2>1, <4>2 DEF TypeOK
      <4> QED BY <2>1, <3>1, <3>2, <4>1, <4>2, <4>3 DEF SecondOK
    <3>3. CASE stamp[s] # i
      <4>1. files'[i] = files[i] /\ temp'[i] = temp[i]
        BY <1>4, <2>2, <3>3 DEF Write, TypeOK, disk
      <4>2. \A r \in Syncs : stamp[r] = i => stage'[r] = stage[r]
        BY <2>1, <3>3 DEF TypeOK
      <4> QED BY <2>1, <3>1, <4>1, <4>2 DEF SecondOK
    <3> QED BY <3>2, <3>3
  <2> QED BY <2>3, <2>4 DEF SaveInv
\* A sync that ends leaves its second to nobody.
<1>5. ASSUME NEW S \in SUBSET Syncs,
             \A r \in S : stage'[r] = "idle" /\ stamp'[r] = None,
             \A r \in Syncs \ S : /\ stage'[r] = stage[r] /\ stamp'[r] = stamp[r]
                                /\ fetched'[r] = fetched[r],
             savers' = savers,
             \A i \in Times, r \in Syncs \ S : ~Shared(i) /\ stamp[r] = i =>
               files'[i] = files[i] /\ temp'[i] = temp[i] /\ target'[r] = target[r],
             \A i \in Times : ~Shared(i) => files'[i] # Torn /\ (savers[i] = 0 => files'[i] = files[i])
      PROVE  SaveInv'
  <2>1. \A r \in Syncs : SyncOK(r)'
    BY <1>5 DEF SaveInv, SyncOK
  <2>2. ASSUME NEW i \in Times, ~Shared(i)' PROVE SecondOK(i)'
    <3>1. SecondOK(i) /\ ~Shared(i)
      BY <1>5, <2>2 DEF SaveInv, Shared
    <3>2. \A r \in Syncs : stamp'[r] = i => r \notin S /\ stamp[r] = i
      BY <1>5, CatalogAssumption
    <3> QED BY <1>5, <3>1, <3>2 DEF SecondOK
  <2> QED BY <2>1, <2>2 DEF SaveInv
<1>6. ASSUME NEW s \in Syncs, WriteError(s) PROVE SaveInv'
  <2>1. /\ stage' = [stage EXCEPT ![s] = "idle"] /\ fetched' = [fetched EXCEPT ![s] = None]
        /\ stamp' = [stamp EXCEPT ![s] = None] /\ target' = [target EXCEPT ![s] = "gone"]
        /\ UNCHANGED <<files, temp, savers>>
    BY <1>6 DEF WriteError, Over, disk, history
  <2>2. \A r \in Syncs \ {s} : /\ stage'[r] = stage[r] /\ stamp'[r] = stamp[r]
                              /\ fetched'[r] = fetched[r] /\ target'[r] = target[r]
    BY <2>1 DEF TypeOK
  <2>3. stage'[s] = "idle" /\ stamp'[s] = None
    BY <2>1 DEF TypeOK
  <2>4. \A i \in Times : ~Shared(i) => files[i] # Torn
    BY DEF SaveInv, SecondOK
  <2>5. {s} \in SUBSET Syncs
    OBVIOUS
  <2> QED BY <1>5, <2>1, <2>2, <2>3, <2>4, <2>5
<1>7. ASSUME NEW s \in Syncs, Rename(s) PROVE SaveInv'
  <2>1. /\ stage' = [stage EXCEPT ![s] = "idle"] /\ fetched' = [fetched EXCEPT ![s] = None]
        /\ stamp' = [stamp EXCEPT ![s] = None] /\ stage[s] = "written" /\ UNCHANGED savers
    BY <1>7 DEF Rename, Over, history
  <2>2. \A r \in Syncs \ {s} : stage'[r] = stage[r] /\ stamp'[r] = stamp[r] /\ fetched'[r] = fetched[r]
    BY <2>1 DEF TypeOK
  <2>3. stage'[s] = "idle" /\ stamp'[s] = None
    BY <2>1 DEF TypeOK
  <2>4. stamp[s] \in Times /\ fetched[s] \in Contents
    BY <2>1 DEF SaveInv, SyncOK
  <2>5. \A i \in Times : ~Shared(i) => SecondOK(i)
    BY DEF SaveInv
  <2>6. ASSUME NEW i \in Times, ~Shared(i) PROVE files'[i] # Torn /\ (savers[i] = 0 => files'[i] = files[i])
    <3>1. CASE stamp[s] = i
      <4>1. temp[i] = fetched[s] /\ savers[i] # 0
        BY <2>1, <2>5, <2>6, <3>1 DEF SecondOK
      <4>2. files'[i] = fetched[s]
        BY <1>7, <2>4, <3>1, <4>1, CatalogAssumption DEF Rename, TypeOK
      <4> QED BY <2>4, <4>1, <4>2, CatalogAssumption
    <3>2. CASE stamp[s] # i
      <4>1. files'[i] = files[i]
        BY <1>7, <2>4, <3>2 DEF Rename, TypeOK, disk
      <4> QED BY <2>5, <2>6, <4>1 DEF SecondOK
    <3> QED BY <3>1, <3>2
  <2>7. ASSUME NEW i \in Times, NEW r \in Syncs \ {s}, ~Shared(i), stamp[r] = i
        PROVE  files'[i] = files[i] /\ temp'[i] = temp[i] /\ target'[r] = target[r]
    <3>1. stamp[s] # i
      BY <2>5, <2>7 DEF SecondOK
    <3>2. stamp[r] # stamp[s]
      BY <2>7, <3>1
    <3>3. target'[r] = target[r]
      <4>1. CASE temp[stamp[s]] = None
        BY <1>7, <2>7, <4>1 DEF Rename, TypeOK
      <4>2. CASE temp[stamp[s]] # None
        BY <1>7, <2>7, <3>2, <4>2 DEF Rename
      <4> QED BY <4>1, <4>2
    <3>4. files'[i] = files[i] /\ temp'[i] = temp[i]
      BY <1>7, <2>4, <3>1 DEF Rename, TypeOK, disk
    <3> QED BY <3>3, <3>4
  <2>8. {s} \in SUBSET Syncs /\ savers' = savers
    BY <2>1
  <2>9. \A r \in {s} : stage'[r] = "idle" /\ stamp'[r] = None
    BY <2>3
  <2> QED BY <1>5, <2>2, <2>6, <2>7, <2>8, <2>9
<1>8. ASSUME NEW p \in Procs, Crash(p) PROVE SaveInv'
  <2> DEFINE S == {s \in Syncs : home[s] = p}
  <2>1. /\ stage' = [s \in Syncs |-> IF home[s] = p THEN "idle" ELSE stage[s]]
        /\ fetched' = [s \in Syncs |-> IF home[s] = p THEN None ELSE fetched[s]]
        /\ stamp' = [s \in Syncs |-> IF home[s] = p THEN None ELSE stamp[s]]
        /\ target' = [s \in Syncs |-> IF home[s] = p THEN "gone" ELSE target[s]]
        /\ UNCHANGED <<files, temp, savers>>
    BY <1>8 DEF Crash, disk
  <2>2. \A r \in S : stage'[r] = "idle" /\ stamp'[r] = None
    BY <2>1
  <2>3. \A r \in Syncs \ S : /\ stage'[r] = stage[r] /\ stamp'[r] = stamp[r]
                           /\ fetched'[r] = fetched[r] /\ target'[r] = target[r]
    BY <2>1
  <2>4. \A i \in Times : ~Shared(i) => files[i] # Torn
    BY DEF SaveInv, SecondOK
  <2>5. S \in SUBSET Syncs
    OBVIOUS
  <2> HIDE DEF S
  <2> QED BY <1>5, <2>1, <2>2, <2>3, <2>4, <2>5
<1> QED BY <1>1, <1>2, <1>3, <1>4, <1>6, <1>7, <1>8, SyncSteps

-----------------------------------------------------------------------------
(* What is served *)

\* Where a new cache comes from.
LEMMA CacheSources ==
  ASSUME TypeOK, [Next]_vars, NEW p \in Servers
  PROVE  \/ cache'[p] \in {cache[p], None}
         \/ \E t \in Threads : Store(t) /\ home[t] = p /\ cache'[p] = found[t]
         \/ \E s \in Syncs : /\ Rename(s) /\ temp[stamp[s]] # None /\ home[s] = p
                           /\ cache'[p] = [id |-> stamp[s], content |-> fetched[s]]
<1>1. CASE Tick \/ Change \/ UNCHANGED vars
  BY <1>1 DEF Tick, Change, vars
<1>2. ASSUME NEW s \in Syncs, Rename(s)
      PROVE  \/ cache'[p] = cache[p]
             \/ /\ temp[stamp[s]] # None /\ home[s] = p
                /\ cache'[p] = [id |-> stamp[s], content |-> fetched[s]]
  BY <1>2 DEF Rename, StoreSynced, TypeOK
<1>3. ASSUME NEW t \in Threads, NEW q \in Servers, FindNoCache(t, q) \/ Load(t)
      PROVE  UNCHANGED cache
  BY <1>3 DEF FindNoCache, Load
<1>4. ASSUME NEW t \in Threads, Store(t)
      PROVE  cache'[p] = cache[p] \/ (home[t] = p /\ cache'[p] = found[t])
  BY <1>4 DEF Store, TypeOK
<1>5. ASSUME NEW q \in Procs, Crash(q) PROVE cache'[p] \in {cache[p], None}
  BY <1>5 DEF Crash
<1>6. CASE \E s \in Syncs : \/ \E q \in Procs : Fetch(s, q)
                          \/ Open(s) \/ Write(s) \/ WriteError(s) \/ Rename(s)
  <2>1. PICK s \in Syncs : \/ \E q \in Procs : Fetch(s, q)
                          \/ Open(s) \/ Write(s) \/ WriteError(s) \/ Rename(s)
    BY <1>6
  <2>2. CASE Rename(s)
    BY <1>2, <2>2
  <2>3. CASE ~Rename(s)
    <3>1. UNCHANGED cache
      BY <2>1, <2>3 DEF Fetch, Open, Write, WriteError
    <3> QED BY <3>1
  <2> QED BY <2>2, <2>3
<1>7. CASE \E t \in Threads : (\E q \in Servers : FindNoCache(t, q)) \/ Load(t) \/ Store(t)
  BY <1>3, <1>4, <1>7
<1> QED BY <1>1, <1>5, <1>6, <1>7 DEF Next

LEMMA FoundSources ==
  ASSUME TypeOK, [Next]_vars, NEW t \in Threads
  PROVE  \/ found'[t] \in {found[t], None, Fixture}
         \/ found'[t] = LoadLatest /\ LoadLatest # None
<1>1. CASE Tick \/ Change \/ UNCHANGED vars
  BY <1>1 DEF Tick, Change, threads, vars
<1>2. ASSUME NEW u \in Threads, NEW q \in Servers, FindNoCache(u, q) PROVE UNCHANGED found
  BY <1>2 DEF FindNoCache
<1>3. ASSUME NEW u \in Threads, Load(u)
      PROVE  found'[t] \in {found[t], Fixture} \/ (found'[t] = LoadLatest /\ LoadLatest # None)
  BY <1>3 DEF Load, TypeOK
<1>4. ASSUME NEW u \in Threads, Store(u) PROVE found'[t] \in {found[t], None}
  BY <1>4 DEF Store, TypeOK
<1>5. ASSUME NEW q \in Procs, Crash(q) PROVE found'[t] \in {found[t], None}
  BY <1>5 DEF Crash
<1>6. CASE \E s \in Syncs : \/ \E q \in Procs : Fetch(s, q)
                          \/ Open(s) \/ Write(s) \/ WriteError(s) \/ Rename(s)
  <2>1. UNCHANGED found
    BY <1>6 DEF Fetch, Open, Write, WriteError, Rename, threads
  <2> QED BY <2>1
<1> QED BY <1>1, <1>2, <1>3, <1>4, <1>5, <1>6 DEF Next

\* What agrees with its file goes on agreeing with it.
LEMMA HeldStays ==
  ASSUME TypeOK, SaveInv, [Next]_vars, NEW x \in Snapshots, HeldOK(x)
  PROVE  HeldOK(x)'
<1>1. x.id \in Times /\ x.content \in Contents
  BY DEF Snapshots
<1>2. /\ Shared(x.id) => Shared(x.id)'
      /\ files[x.id] # None /\ ~Shared(x.id) => files'[x.id] = files[x.id]
  BY <1>1, SnapshotStays
<1> QED BY <1>1, <1>2, CatalogAssumption DEF HeldOK

\* A sync that renames its file leaves there what it puts into the cache.
LEMMA RenamedIsHeld ==
  ASSUME TypeOK, SaveInv, NEW s \in Syncs, Rename(s), temp[stamp[s]] # None,
         NEW x, x = [id |-> stamp[s], content |-> fetched[s]]
  PROVE  x \in Snapshots /\ HeldOK(x)'
<1>1. stage[s] = "written" /\ stamp[s] \in Times /\ fetched[s] \in Contents
  BY DEF Rename, SaveInv, SyncOK
<1>2. x \in Snapshots /\ x.id = stamp[s] /\ x.content = fetched[s]
  BY <1>1 DEF Snapshots
<1>3. files'[stamp[s]] = temp[stamp[s]] /\ savers' = savers
  BY <1>1 DEF Rename, TypeOK
<1>4. ~Shared(x.id) => temp[x.id] = fetched[s]
  BY <1>1, <1>2 DEF SaveInv, SecondOK
<1> QED BY <1>2, <1>3, <1>4 DEF HeldOK, Shared

LEMMA HeldStep ==
  ASSUME TypeOK, SaveInv, HeldInv, [Next]_vars
  PROVE  HeldInv'
<1>1. ASSUME NEW p \in Servers, NEW x \in Snapshots, x = cache'[p]
      PROVE  HeldOK(x)'
  <2>1. CASE x = cache[p]
    <3>1. HeldOK(x)
      BY <2>1 DEF HeldInv
    <3> QED BY <1>1, <3>1, HeldStays
  <2>2. ASSUME NEW t \in Threads, x = found[t] PROVE HeldOK(x)'
    <3>1. HeldOK(x)
      BY <2>2 DEF HeldInv
    <3> QED BY <1>1, <3>1, HeldStays
  <2>3. ASSUME NEW s \in Syncs, Rename(s), temp[stamp[s]] # None,
               x = [id |-> stamp[s], content |-> fetched[s]]
        PROVE  HeldOK(x)'
    BY <2>3, RenamedIsHeld
  <2>4. x # None
    BY <1>1, CatalogAssumption
  <2> QED BY <1>1, <2>1, <2>2, <2>3, <2>4, CacheSources
<1>2. ASSUME NEW t \in Threads, NEW x \in Snapshots, x = found'[t]
      PROVE  HeldOK(x)'
  <2>1. x \notin {None, Fixture}
    BY <1>2, CatalogAssumption
  <2>2. HeldOK(x)
    <3>1. CASE x = found[t]
      BY <3>1 DEF HeldInv
    <3>2. CASE x = LoadLatest /\ LoadLatest # None
      BY <3>2, LoadedIsStored DEF HeldOK
    <3> QED BY <1>2, <2>1, <3>1, <3>2, FoundSources
  <2> QED BY <1>2, <2>2, HeldStays
<1>3. ASSUME NEW p \in Servers PROVE HeldOK(cache[p])'
  BY <1>1 DEF HeldOK
<1>4. ASSUME NEW t \in Threads PROVE HeldOK(found[t])'
  BY <1>2 DEF HeldOK
<1> QED BY <1>3, <1>4 DEF HeldInv

\* Threads begin to load only where there is no cache yet, and only end otherwise.
LEMMA LoadingStep ==
  ASSUME TypeOK, [Next]_vars, NEW p \in Servers, Loading(p)', ~Loading(p)
  PROVE  \E t \in Threads : FindNoCache(t, p)
<1>1. PICK t \in Threads : home'[t] = p /\ phase'[t] # "idle"
  BY DEF Loading
<1>2. ~(home[t] = p /\ phase[t] # "idle")
  BY DEF Loading
<1>3. p # None /\ t \notin Syncs
  BY CatalogAssumption
<1>4. CASE Tick \/ Change \/ UNCHANGED vars
  BY <1>1, <1>2, <1>4 DEF Tick, Change, threads, vars
<1>5. ASSUME NEW u \in Threads, NEW q \in Servers, FindNoCache(u, q)
      PROVE  u = t /\ q = p
  BY <1>1, <1>2, <1>5 DEF FindNoCache, TypeOK
<1>6. ASSUME NEW u \in Threads, Load(u) \/ Store(u) PROVE FALSE
  <2>1. CASE u = t
    BY <1>1, <1>2, <1>3, <1>6, <2>1 DEF Load, Store, TypeOK
  <2>2. CASE u # t
    BY <1>1, <1>2, <1>6, <2>2 DEF Load, Store, TypeOK
  <2> QED BY <2>1, <2>2
<1>7. ASSUME NEW q \in Procs, Crash(q) PROVE FALSE
  BY <1>1, <1>2, <1>3, <1>7 DEF Crash
<1>8. CASE \E s \in Syncs : \/ \E q \in Procs : Fetch(s, q)
                          \/ Open(s) \/ Write(s) \/ WriteError(s) \/ Rename(s)
  <2>1. UNCHANGED phase /\ home'[t] = home[t]
    BY <1>3, <1>8 DEF Fetch, Open, Write, WriteError, Rename, Over, threads, TypeOK
  <2> QED BY <1>1, <1>2, <2>1
<1> QED BY <1>4, <1>5, <1>6, <1>7, <1>8 DEF Next

LEMMA SyncedStep ==
  ASSUME TypeOK, SaveInv, SyncedInv, [Next]_vars
  PROVE  SyncedInv'
<1> SUFFICES ASSUME NEW p \in Servers, p \notin overtaken', synced'[p] # None
             PROVE  (cache[p] \in Snapshots /\ cache[p].id = synced[p] /\ ~Loading(p))'
  BY DEF SyncedInv
\* Where nothing is stored for p, it is as it was.
<1>1. ASSUME cache'[p] = cache[p], synced'[p] = synced[p], p \notin overtaken
      PROVE  (cache[p] \in Snapshots /\ cache[p].id = synced[p] /\ ~Loading(p))'
  <2>1. cache[p] \in Snapshots /\ cache[p].id = synced[p] /\ ~Loading(p)
    BY <1>1 DEF SyncedInv
  <2>2. cache[p] # None
    BY <2>1, CatalogAssumption
  <2>3. ~Loading(p)'
    BY <2>1, <2>2, LoadingStep DEF FindNoCache
  <2> QED BY <1>1, <2>1, <2>3
<1>2. CASE UNCHANGED <<cache, synced, overtaken>>
  BY <1>1, <1>2
<1>3. ASSUME NEW s \in Syncs, Rename(s)
      PROVE  (cache[p] \in Snapshots /\ cache[p].id = synced[p] /\ ~Loading(p))'
  <2>1. stamp[s] \in Times /\ fetched[s] \in Contents
    BY <1>3 DEF Rename, SaveInv, SyncOK
  <2>2. CASE temp[stamp[s]] = None
    BY <1>2, <1>3, <2>2 DEF Rename, history
  <2>3. CASE temp[stamp[s]] # None
    <3>1. StoreSynced(s)
      BY <1>3, <2>3 DEF Rename
    <3>2. CASE home[s] = p
      <4>1. /\ cache'[p] = [id |-> stamp[s], content |-> fetched[s]] /\ synced'[p] = stamp[s]
            /\ ~Loading(p)
        BY <3>1, <3>2 DEF StoreSynced, TypeOK
      <4>2. UNCHANGED phase /\ \A t \in Threads : home'[t] = home[t]
        BY <1>3, CatalogAssumption DEF Rename, Over, threads, TypeOK
      <4>3. ~Loading(p)'
        BY <4>1, <4>2 DEF Loading
      <4> QED BY <2>1, <4>1, <4>3 DEF Snapshots
    <3>3. CASE home[s] # p
      BY <1>1, <3>1, <3>3 DEF StoreSynced, TypeOK
    <3> QED BY <3>2, <3>3
  <2> QED BY <2>2, <2>3
<1>4. ASSUME NEW t \in Threads, Store(t)
      PROVE  (cache[p] \in Snapshots /\ cache[p].id = synced[p] /\ ~Loading(p))'
  <2>1. UNCHANGED <<synced, overtaken>> /\ phase[t] = "storing"
    BY <1>4 DEF Store, history
  <2>2. home[t] # p
    BY <2>1 DEF SyncedInv, Loading
  <2>3. cache'[p] = cache[p]
    BY <1>4, <2>2 DEF Store, TypeOK
  <2> QED BY <1>1, <2>1, <2>3
<1>5. ASSUME NEW q \in Procs, Crash(q)
      PROVE  (cache[p] \in Snapshots /\ cache[p].id = synced[p] /\ ~Loading(p))'
  BY <1>1, <1>5 DEF Crash
<1>6. CASE Tick \/ Change \/ UNCHANGED vars
  BY <1>2, <1>6 DEF Tick, Change, history, vars
<1>7. ASSUME NEW s \in Syncs, NEW q \in Procs, Fetch(s, q)
      PROVE  UNCHANGED <<cache, synced, overtaken>>
  BY <1>7 DEF Fetch, history
<1>8. ASSUME NEW s \in Syncs, Open(s) \/ Write(s) \/ WriteError(s)
      PROVE  UNCHANGED <<cache, synced, overtaken>>
  BY <1>8 DEF Open, Write, WriteError, history
<1>9. ASSUME NEW t \in Threads, NEW q \in Servers, FindNoCache(t, q) \/ Load(t)
      PROVE  UNCHANGED <<cache, synced, overtaken>>
  BY <1>9 DEF FindNoCache, Load, history
<1> QED BY <1>2, <1>3, <1>4, <1>5, <1>6, <1>7, <1>8, <1>9 DEF Next

LEMMA InvStep ==
  ASSUME Inv, [Next]_vars
  PROVE  Inv'
  BY TypeStep, SaveStep, HeldStep, SyncedStep DEF Inv

-----------------------------------------------------------------------------
(* Theorems *)

\* Every variable of the catalog has its type.
THEOREM CatalogTypeCorrect == Spec => []TypeOK
<1>1. Inv => TypeOK
  BY DEF Inv
<1> QED BY InvInit, InvStep, <1>1, PTL DEF Spec

\* A published snapshot stays as it is, whoever crashes, in a second that is not shared.
THEOREM SnapshotsAreImmutable == Spec => SnapshotsStay
<1>1. ASSUME Inv, [Next]_vars
      PROVE  \A i \in Times : files[i] # None /\ ~Shared(i)' => files'[i] = files[i] /\ files[i] # Torn
  <2>1. TypeOK /\ SaveInv
    BY <1>1 DEF Inv
  <2> SUFFICES ASSUME NEW i \in Times, files[i] # None, ~Shared(i)'
               PROVE  files'[i] = files[i] /\ files[i] # Torn
    OBVIOUS
  <2>2. ~Shared(i) /\ files'[i] = files[i]
    BY <1>1, <2>1, SnapshotStays
  <2> QED BY <2>1, <2>2 DEF SaveInv, SecondOK
<1> QED BY InvInit, InvStep, <1>1, PTL DEF Spec, SnapshotsStay

\* What a process serves is what the file of that id holds.
THEOREM ServedSnapshotIsStored == Spec => []ServedIsStored
<1>1. ASSUME Inv PROVE ServedIsStored
  <2>1. \A p \in Servers : HeldOK(cache[p])
    BY <1>1 DEF Inv, HeldInv
  <2>2. ASSUME NEW x \in Snapshots, ~Shared(x.id), files[x.id] = x.content
        PROVE  x.id \in ListSnapshots
    <3>1. x.id \in Times /\ x.content \in Contents
      BY <2>2 DEF Snapshots
    <3> QED BY <2>2, <3>1, CatalogAssumption DEF ListSnapshots, Published
  <2> QED BY <2>1, <2>2 DEF ServedIsStored, HeldOK
<1> QED BY InvInit, InvStep, <1>1, PTL DEF Spec

\* A process serves nothing older than what it stored itself, unless it was overtaken.
THEOREM SyncedSnapshotIsServed == Spec => []SyncedIsServed
<1>1. ASSUME Inv PROVE SyncedIsServed
  <2> SUFFICES ASSUME NEW p \in Servers \ overtaken, synced[p] # None
               PROVE  cache[p] \in Snapshots /\ cache[p].id >= synced[p]
    BY DEF SyncedIsServed
  <2>1. cache[p] \in Snapshots /\ cache[p].id = synced[p]
    BY <1>1 DEF Inv, SyncedInv
  <2>2. cache[p].id \in Times
    BY <2>1 DEF Snapshots
  <2> QED BY <2>1, <2>2 DEF Times
<1> QED BY InvInit, InvStep, <1>1, PTL DEF Spec
-----------------------------------------------------------------------------
(* Order *)

\* R orders S strictly and totally.
Orders(R, S) ==
  /\ \A x \in S : <<x, x>> \notin R
  /\ \A x, y, z \in S : <<x, y>> \in R /\ <<y, z>> \in R => <<x, z>> \in R
  /\ \A x, y \in S : x # y => <<x, y>> \in R \/ <<y, x>> \in R

Lower(R, S, x) == {y \in S : <<y, x>> \in R}
Rank(R, S, x)  == Cardinality(Lower(R, S, x))

\* The rank of an element is its number of predecessors, and grows from one element to
\* those that come after it.
LEMMA RankType ==
  ASSUME NEW R, NEW S, IsFiniteSet(S), Orders(R, S), NEW x \in S
  PROVE  /\ IsFiniteSet(Lower(R, S, x))
         /\ Rank(R, S, x) \in 0..Cardinality(S) - 1
         /\ Cardinality(S) \in Nat
<1>1. Lower(R, S, x) \in SUBSET S
  BY DEF Lower
<1>2. IsFiniteSet(Lower(R, S, x)) /\ Rank(R, S, x) <= Cardinality(S)
  BY <1>1, FS_Subset DEF Rank
<1>3. Rank(R, S, x) \in Nat /\ Cardinality(S) \in Nat
  BY <1>2, FS_CardinalityType DEF Rank
<1>4. x \notin Lower(R, S, x)
  BY DEF Lower, Orders
<1>5. Rank(R, S, x) # Cardinality(S)
  <2>1. Lower(R, S, x) # S
    BY <1>4
  <2> QED BY <1>1, <2>1, FS_Subset DEF Rank
<1> QED BY <1>2, <1>3, <1>5

LEMMA RankGrows ==
  ASSUME NEW R, NEW S, IsFiniteSet(S), Orders(R, S), NEW x \in S, NEW y \in S, <<x, y>> \in R
  PROVE  Rank(R, S, x) < Rank(R, S, y)
<1>1. IsFiniteSet(Lower(R, S, y)) /\ Rank(R, S, x) \in Nat /\ Rank(R, S, y) \in Nat
  BY RankType
<1>2. Lower(R, S, x) \in SUBSET Lower(R, S, y)
  BY DEF Lower, Orders
<1>3. Lower(R, S, x) # Lower(R, S, y)
  BY DEF Lower, Orders
<1>4. Rank(R, S, x) <= Rank(R, S, y) /\ Rank(R, S, x) # Rank(R, S, y)
  BY <1>1, <1>2, <1>3, FS_Subset DEF Rank
<1> QED BY <1>1, <1>4

LEMMA RankTellsApart ==
  ASSUME NEW R, NEW S, IsFiniteSet(S), Orders(R, S), NEW x \in S, NEW y \in S
  PROVE  /\ Rank(R, S, x) = Rank(R, S, y) => x = y
         /\ Rank(R, S, x) < Rank(R, S, y) => <<x, y>> \in R
<1>1. Rank(R, S, x) \in Int /\ Rank(R, S, y) \in Int
  BY RankType
<1>2. <<x, y>> \in R => Rank(R, S, x) < Rank(R, S, y)
  BY RankGrows
<1>3. <<y, x>> \in R => Rank(R, S, y) < Rank(R, S, x)
  BY RankGrows
<1>4. x = y \/ <<x, y>> \in R \/ <<y, x>> \in R
  BY DEF Orders
<1> QED BY <1>1, <1>2, <1>3, <1>4

\* Each of the first numbers is the rank of an element.
LEMMA RankOnto ==
  ASSUME NEW R, NEW S, IsFiniteSet(S), Orders(R, S)
  PROVE  /\ Cardinality(S) \in Nat
         /\ \A r \in 0..Cardinality(S) - 1 : \E x \in S : Rank(R, S, x) = r
<1> DEFINE c == Cardinality(S)
           rank == [x \in S |-> Rank(R, S, x)]
<1>1. c \in Nat
  BY FS_CardinalityType
<1>2. IsFiniteSet(0..c - 1) /\ Cardinality(0..c - 1) = c
  BY <1>1, FS_Interval
<1>3. \A x \in S : Rank(R, S, x) \in 0..c - 1
  BY RankType
<1>4. rank \in Injection(S, 0..c - 1)
  <2>1. \A x, y \in S : rank[x] = rank[y] => x = y
    BY RankTellsApart
  <2>2. rank \in [S -> 0..c - 1]
    BY <1>3
  <2> QED BY <2>1, <2>2 DEF Injection, IsInjective
<1> HIDE DEF c
<1>5. rank \in Surjection(S, 0..c - 1)
  <2> HIDE DEF rank
  <2> QED BY <1>2, <1>4, FS_Injection DEF c
<1>6. \A r \in 0..c - 1 : \E x \in S : rank[x] = r
  <2> HIDE DEF rank
  <2> QED BY <1>5 DEF Surjection
<1> QED BY <1>1, <1>6 DEF c

\* place[n] is the n-th element of S.
Places(place, R, S) ==
  /\ place \in [1..Cardinality(S) -> S]
  /\ \A n \in 1..Cardinality(S) : Rank(R, S, place[n]) = n - 1

\* The places are a bijection that keeps the order.
LEMMA PlacesInOrder ==
  ASSUME NEW R, NEW S, IsFiniteSet(S), Orders(R, S), NEW place, Places(place, R, S)
  PROVE  /\ Cardinality(S) \in Nat
         /\ \A m, n \in 1..Cardinality(S) : m < n => <<place[m], place[n]>> \in R
         /\ \A m, n \in 1..Cardinality(S) : place[m] = place[n] => m = n
         /\ \A x \in S : \E n \in 1..Cardinality(S) : place[n] = x
<1>1. PICK c \in Nat : c = Cardinality(S)
  BY FS_CardinalityType
<1>2. /\ \A n \in 1..c : place[n] \in S
      /\ \A n \in 1..c : Rank(R, S, place[n]) = n - 1
  BY <1>1 DEF Places
<1>3. ASSUME NEW m \in 1..c, NEW n \in 1..c, m < n PROVE <<place[m], place[n]>> \in R
  <2>1. m - 1 < n - 1
    BY <1>3
  <2>2. Rank(R, S, place[m]) < Rank(R, S, place[n])
    BY <1>2, <2>1
  <2> QED BY <1>2, <2>2, RankTellsApart
<1>4. ASSUME NEW m \in 1..c, NEW n \in 1..c, place[m] = place[n] PROVE m = n
  <2>1. m - 1 = n - 1
    BY <1>2, <1>4
  <2> QED BY <1>1, <2>1
<1>5. ASSUME NEW x \in S PROVE \E n \in 1..c : place[n] = x
  <2>1. Rank(R, S, x) \in 0..c - 1
    BY <1>1, RankType
  <2>2. PICK r \in 0..c - 1 : r = Rank(R, S, x)
    BY <2>1
  <2>3. r + 1 \in 1..c /\ (r + 1) - 1 = r
    BY <1>1
  <2>4. Rank(R, S, place[r + 1]) = Rank(R, S, x) /\ place[r + 1] \in S
    BY <1>2, <2>2, <2>3
  <2> QED BY <2>3, <2>4, RankTellsApart
<1> QED BY <1>1, <1>3, <1>4, <1>5

\* Where the value v stands when f is arranged by the places of S, and where it comes from.
Occurrences(f, place, S, v) == {n \in 1..Cardinality(S) : f[place[n]] = v}
Sources(f, S, v)            == {x \in S : f[x] = v}

\* What stands at the places of S holds every value as often as f does on S.
LEMMA SameOccurrences ==
  ASSUME NEW R, NEW S, IsFiniteSet(S), Orders(R, S), NEW place, Places(place, R, S),
         NEW f, NEW v
  PROVE  Cardinality(Occurrences(f, place, S, v)) = Cardinality(Sources(f, S, v))
<1>1. PICK c \in Nat : c = Cardinality(S)
  BY FS_CardinalityType
<1> DEFINE N == {n \in 1..c : f[place[n]] = v}
           X == {x \in S : f[x] = v}
           h == [n \in N |-> place[n]]
<1>2. IsFiniteSet(N)
  <2>1. IsFiniteSet(1..c)
    BY FS_Interval
  <2> QED BY <2>1, FS_Subset
<1>3. \A n \in 1..c : place[n] \in S
  BY <1>1 DEF Places
<1>4. /\ \A m, n \in 1..c : place[m] = place[n] => m = n
      /\ \A x \in S : \E n \in 1..c : place[n] = x
  BY <1>1, PlacesInOrder
<1>5. h \in [N -> X]
  BY <1>3
<1>6. \A m, n \in N : h[m] = h[n] => m = n
  BY <1>4
<1>7. \A x \in X : \E n \in N : h[n] = x
  BY <1>4
<1>8. h \in Bijection(N, X)
  <2> HIDE DEF N, X, h
  <2> QED BY <1>5, <1>6, <1>7 DEF Bijection, Injection, Surjection, IsInjective
<1>9. ExistsBijection(N, X)
  BY <1>8 DEF ExistsBijection
<1> HIDE DEF N, X, h
<1>10. Cardinality(N) = Cardinality(X)
  BY <1>2, <1>9, FS_Bijection
<1> QED BY <1>1, <1>10 DEF N, X, Occurrences, Sources

-----------------------------------------------------------------------------
(* Lists in order *)

LEMMA ListFacts ==
  ASSUME NEW list, IsList(list), NEW P \in SUBSET DOMAIN list
  PROVE  /\ IsFiniteSet(DOMAIN list) /\ Cardinality(DOMAIN list) = Len(list)
         /\ IsFiniteSet(P) /\ Cardinality(P) \in Nat /\ Cardinality(P) <= Len(list)
         /\ \A i \in P : i \in Nat
<1>1. Len(list) \in Nat /\ DOMAIN list = 1..Len(list)
  BY DEF IsList
<1>2. IsFiniteSet(1..Len(list)) /\ Cardinality(1..Len(list)) = Len(list)
  BY <1>1, FS_Interval
<1>3. IsFiniteSet(P) /\ Cardinality(P) <= Len(list)
  BY <1>1, <1>2, FS_Subset
<1> QED BY <1>1, <1>2, <1>3, FS_CardinalityType

\* A function on 1..n is a list.
LEMMA FunctionIsList ==
  ASSUME NEW n \in Nat, NEW s, DOMAIN s = 1..n, s = [k \in 1..n |-> s[k]]
  PROVE  IsList(s) /\ Len(s) = n
<1> DEFINE T == {s[k] : k \in 1..n}
<1>1. s \in Seq(T)
  BY IsASeq
<1>2. Len(s) \in Nat /\ DOMAIN s = 1..Len(s)
  BY <1>1, LenProperties
<1>3. Len(s) = n
  <2> HIDE DEF T
  <2> QED BY <1>2
<1> QED BY <1>2, <1>3 DEF IsList

\* What is kept of a list is a list of some of its elements.
LEMMA KeptIsList ==
  ASSUME NEW list, IsList(list), NEW P \in SUBSET DOMAIN list
  PROVE  /\ IsList(Kept(list, P))
         /\ \A n \in DOMAIN Kept(list, P) : \E i \in P : Kept(list, P)[n] = list[i]
<1> DEFINE R == {ij \in P \X P : ij[1] < ij[2]}
           place == [n \in 1..Cardinality(P) |->
                       CHOOSE x \in P : Cardinality({y \in P : y < x}) = n - 1]
<1>1. IsFiniteSet(P) /\ \A i \in P : i \in Nat
  BY ListFacts
<1>2. Orders(R, P)
  BY <1>1 DEF Orders
<1>3. \A x \in P : Lower(R, P, x) = {y \in P : y < x}
  BY DEF Lower
<1>4. \A n \in 1..Cardinality(P) : place[n] \in P
  <2> SUFFICES ASSUME NEW n \in 1..Cardinality(P) PROVE place[n] \in P
    OBVIOUS
  <2>1. Cardinality(P) \in Nat /\ \A r \in 0..Cardinality(P) - 1 : \E x \in P : Rank(R, P, x) = r
    <3> HIDE DEF R, place
    <3> QED BY <1>1, <1>2, RankOnto
  <2>2. n - 1 \in 0..Cardinality(P) - 1
    BY <2>1
  <2>3. PICK x \in P : Rank(R, P, x) = n - 1
    BY <2>1, <2>2
  <2>4. Cardinality({y \in P : y < x}) = n - 1
    BY <1>3, <2>3 DEF Rank
  <2> QED BY <2>4
<1>5. Kept(list, P) = [n \in 1..Cardinality(P) |-> list[place[n]]]
  BY DEF Kept, Ordered
<1> HIDE DEF place
<1>6. IsList(Kept(list, P))
  BY <1>1, <1>5, FunctionIsList, FS_CardinalityType
<1> QED BY <1>4, <1>5, <1>6

-----------------------------------------------------------------------------
(* Summaries and their order *)

IsSummary(s) ==
  /\ s.name \in Int
  /\ s.created \in Int \cup {Unknown}
  /\ s.context \in Int \cup {Unknown}
  /\ s.blended \in Nat \cup {Unknown}

LEMMA SummaryTyped ==
  ASSUME NEW m, IsModel(m)
  PROVE  IsSummary(Summary(m))
<1>1. /\ m.name \in Int
      /\ m.created \in Int \cup {Unknown} /\ m.prompt \in Int \cup {Unknown}
      /\ m.completion \in Int \cup {Unknown} /\ m.context \in Int \cup {Unknown}
      /\ m.top \in Int \cup {Unknown}
  BY DEF IsModel
<1>2. Price(m.prompt) \in Nat \cup {Unknown} /\ Price(m.completion) \in Nat \cup {Unknown}
  BY <1>1, QueryAssumption DEF Price
<1>3. Blended(m) \in Nat \cup {Unknown}
  <2>1. CASE Unknown \in {Price(m.prompt), Price(m.completion)}
    BY <2>1 DEF Blended
  <2>2. CASE Unknown \notin {Price(m.prompt), Price(m.completion)}
    <3>1. Price(m.prompt) \in Nat /\ Price(m.completion) \in Nat
      BY <1>2, <2>2
    <3>2. 3 * Price(m.prompt) + Price(m.completion) \in Nat
      BY <3>1
    <3> QED BY <2>2, <3>2 DEF Blended
  <2> QED BY <2>1, <2>2
<1>4. Context(m) \in Int \cup {Unknown}
  BY <1>1 DEF Context
<1> QED BY <1>1, <1>3, <1>4 DEF IsSummary, Summary

\* The value a listing is sorted by, and whether the least comes first.
ValueOf(sort, s) ==
  CASE sort = "name" -> s.name
    [] sort = "context_desc" -> s.context
    [] sort = "newest" -> s.created
    [] OTHER -> s.blended

Up(sort) == sort \in {"name", "price_asc"}

IsKey(k) == k \in Int \X Int

LEMMA KeyTyped ==
  ASSUME NEW sort \in SortKeys, NEW s, IsSummary(s)
  PROVE  /\ IsKey(SortValue(sort, s))
         /\ ValueOf(sort, s) \in Int \cup {Unknown}
         /\ ValueOf(sort, s) = Unknown => SortValue(sort, s) = <<1, 0>>
         /\ ValueOf(sort, s) # Unknown =>
              SortValue(sort, s) = <<0, IF Up(sort) THEN ValueOf(sort, s) ELSE -ValueOf(sort, s)>>
<1>1. /\ s.name \in Int /\ s.name # Unknown
      /\ s.created \in Int \cup {Unknown} /\ s.context \in Int \cup {Unknown}
      /\ s.blended \in Int \cup {Unknown}
  BY QueryAssumption DEF IsSummary
<1>2. ASSUME NEW v \in Int PROVE /\ 1 * v = v /\ (-1) * v = -v /\ -v \in Int
                                 /\ <<0, v>> \in Int \X Int /\ <<0, -v>> \in Int \X Int
  OBVIOUS
<1>3. <<1, 0>> \in Int \X Int
  OBVIOUS
<1>4. CASE sort = "name"
  BY <1>1, <1>2, <1>4 DEF SortValue, ValueOf, Up, IsKey
<1>5. CASE sort = "price_asc"
  BY <1>1, <1>2, <1>3, <1>5 DEF SortValue, KeyOf, ValueOf, Up, IsKey
<1>6. CASE sort = "price_desc"
  BY <1>1, <1>2, <1>3, <1>6 DEF SortValue, KeyOf, ValueOf, Up, IsKey
<1>7. CASE sort = "context_desc"
  BY <1>1, <1>2, <1>3, <1>7 DEF SortValue, KeyOf, ValueOf, Up, IsKey
<1>8. CASE sort = "newest"
  BY <1>1, <1>2, <1>3, <1>8 DEF SortValue, KeyOf, ValueOf, Up, IsKey
<1> QED BY <1>4, <1>5, <1>6, <1>7, <1>8 DEF SortKeys

\* Keys are ordered.
LEMMA KeysOrdered ==
  ASSUME NEW a, NEW b, NEW c, IsKey(a), IsKey(b), IsKey(c)
  PROVE  /\ ~Below(a, a)
         /\ Below(a, b) /\ Below(b, c) => Below(a, c)
         /\ a = b \/ Below(a, b) \/ Below(b, a)
<1>1. a[1] \in Int /\ a[2] \in Int /\ b[1] \in Int /\ b[2] \in Int /\ c[1] \in Int /\ c[2] \in Int
  BY DEF IsKey
<1>2. a = <<a[1], a[2]>> /\ b = <<b[1], b[2]>>
  BY DEF IsKey
<1>3. a[1] = b[1] /\ a[2] = b[2] => a = b
  BY <1>2
<1> QED BY <1>1, <1>3 DEF Below

\* The relation `sorted` orders positions of a list by.
SortOrder(list, P, sort) ==
  {ij \in P \X P :
     \/ Below(SortValue(sort, list[ij[1]]), SortValue(sort, list[ij[2]]))
     \/ SortValue(sort, list[ij[1]]) = SortValue(sort, list[ij[2]]) /\ ij[1] < ij[2]}

LEMMA SortOrders ==
  ASSUME NEW sort \in SortKeys, NEW list, NEW P \in SUBSET Nat,
         \A i \in P : IsSummary(list[i])
  PROVE  Orders(SortOrder(list, P, sort), P)
<1> DEFINE Key(i) == SortValue(sort, list[i])
           R == SortOrder(list, P, sort)
<1>1. \A i \in P : IsKey(Key(i))
  BY KeyTyped
<1> HIDE DEF Key
<1>2. \A i, j \in P : <<i, j>> \in R <=> Below(Key(i), Key(j)) \/ (Key(i) = Key(j) /\ i < j)
  BY DEF SortOrder, Key
<1> HIDE DEF R
<1>3. ASSUME NEW x \in P PROVE <<x, x>> \notin R
  BY <1>1, <1>2, KeysOrdered
<1>4. ASSUME NEW x \in P, NEW y \in P, NEW z \in P, <<x, y>> \in R, <<y, z>> \in R
      PROVE  <<x, z>> \in R
  <2>1. x < y /\ y < z => x < z
    OBVIOUS
  <2>2. Below(Key(x), Key(y)) /\ Below(Key(y), Key(z)) => Below(Key(x), Key(z))
    BY <1>1, KeysOrdered
  <2> QED BY <1>2, <1>4, <2>1, <2>2
<1>5. ASSUME NEW x \in P, NEW y \in P, x # y PROVE <<x, y>> \in R \/ <<y, x>> \in R
  <2>1. x < y \/ y < x
    BY <1>5
  <2>2. Key(x) = Key(y) \/ Below(Key(x), Key(y)) \/ Below(Key(y), Key(x))
    BY <1>1, KeysOrdered
  <2> QED BY <1>2, <2>1, <2>2
<1> QED BY <1>3, <1>4, <1>5 DEF Orders, R

\* A listing of the elements at positions P, arranged by their places.
Arranges(place, list, P, sort) ==
  /\ Places(place, SortOrder(list, P, sort), P)
  /\ Sorted(list, P, sort) = [n \in 1..Cardinality(P) |-> list[place[n]]]

\* `sorted` puts the kept elements at the places their order gives them.
LEMMA SortedByPlaces ==
  ASSUME NEW sort \in SortKeys, NEW list, IsList(list), NEW P \in SUBSET DOMAIN list,
         \A i \in P : IsSummary(list[i])
  PROVE  \E place : Arranges(place, list, P, sort)
<1> DEFINE Key(i)       == SortValue(sort, list[i])
           Before(i, j) == Below(Key(i), Key(j)) \/ (Key(i) = Key(j) /\ i < j)
           R            == SortOrder(list, P, sort)
           place        == [n \in 1..Cardinality(P) |->
                              CHOOSE x \in P : Cardinality({y \in P : Before(y, x)}) = n - 1]
<1>1. IsFiniteSet(P) /\ P \in SUBSET Nat
  BY ListFacts
<1>2. Orders(R, P)
  BY <1>1, SortOrders
<1>3. \A x \in P : Lower(R, P, x) = {y \in P : Before(y, x)}
  BY DEF Lower, SortOrder
<1>4. Sorted(list, P, sort) = [n \in 1..Cardinality(P) |-> list[place[n]]]
  BY DEF Sorted, Ordered
<1>5. \A n \in 1..Cardinality(P) : place[n] = CHOOSE x \in P : Cardinality({y \in P : Before(y, x)}) = n - 1
  OBVIOUS
<1>6. ASSUME NEW n \in 1..Cardinality(P)
      PROVE  place[n] \in P /\ Rank(R, P, place[n]) = n - 1
  <2>1. Cardinality(P) \in Nat /\ \A r \in 0..Cardinality(P) - 1 : \E x \in P : Rank(R, P, x) = r
    <3> HIDE DEF R, place, Before
    <3> QED BY <1>1, <1>2, RankOnto
  <2>2. n - 1 \in 0..Cardinality(P) - 1
    BY <2>1
  <2>3. PICK x \in P : Rank(R, P, x) = n - 1
    BY <2>1, <2>2
  <2>4. Cardinality({y \in P : Before(y, x)}) = n - 1
    BY <1>3, <2>3 DEF Rank
  <2>5. place[n] \in P /\ Cardinality({y \in P : Before(y, place[n])}) = n - 1
    <3> HIDE DEF Before, place
    <3> QED BY <1>5, <2>4
  <2> HIDE DEF place, Before
  <2> QED BY <1>3, <2>5 DEF Rank
<1>7. Places(place, R, P)
  <2>1. place \in [1..Cardinality(P) -> P]
    <3>1. \A n \in 1..Cardinality(P) : place[n] \in P
      BY <1>6
    <3>2. place = [n \in 1..Cardinality(P) |-> place[n]]
      OBVIOUS
    <3> HIDE DEF place
    <3> QED BY <3>1, <3>2
  <2> HIDE DEF place, R
  <2> QED BY <1>6, <2>1 DEF Places
<1>8. Arranges(place, list, P, sort)
  BY <1>4, <1>7 DEF Arranges
<1> QED BY <1>8

-----------------------------------------------------------------------------
(* Pages *)

\* How far into a sequence of length l the first x elements reach.
Reach(x, l) == IF x < l THEN x ELSE l

\* The first page of n and the rest: what was shown and the next page is what is shown then.
LEMMA NextPage ==
  ASSUME NEW T, NEW s \in Seq(T), NEW p \in Nat, NEW n \in Nat
  PROVE  SubSeq(s, 1, Reach(p, Len(s))) \o Paginate(s, p, n) = SubSeq(s, 1, Reach(p + n, Len(s)))
<1>1. PICK l \in Nat : l = Len(s)
  BY LenProperties
<1>2. \A i \in 1..l : s[i] \in T
  BY <1>1, ElementOfSeq
<1> DEFINE a == Reach(p, l)
           b == Reach(p + n, l)
           A == SubSeq(s, 1, a)
           B == SubSeq(s, p + 1, b)
           C == SubSeq(s, 1, b)
<1>3. a \in Nat /\ b \in Nat /\ a <= b /\ b <= l /\ (p < l => a = p) /\ (p >= l => a = l /\ b = l)
  BY <1>1 DEF Reach
<1>4. Paginate(s, p, n) = B
  BY <1>1 DEF Paginate, Reach
<1> HIDE DEF a, b
<1>5. /\ A \in Seq(T) /\ Len(A) = a /\ \A i \in 1..a : A[i] = s[i]
  <2>1. \A i \in 1..a : s[i] \in T
    BY <1>1, <1>2, <1>3
  <2>2. /\ A \in Seq(T) /\ Len(A) = IF 1 <= a THEN a - 1 + 1 ELSE 0
        /\ \A i \in 1..a - 1 + 1 : A[i] = s[1 + i - 1]
    BY <1>3, <2>1, SubSeqProperties
  <2>3. a - 1 + 1 = a /\ \A i \in 1..a : 1 + i - 1 = i
    BY <1>3
  <2> QED BY <1>3, <2>2, <2>3
<1>6. /\ C \in Seq(T) /\ Len(C) = b /\ \A i \in 1..b : C[i] = s[i]
  <2>1. \A i \in 1..b : s[i] \in T
    BY <1>1, <1>2, <1>3
  <2>2. /\ C \in Seq(T) /\ Len(C) = IF 1 <= b THEN b - 1 + 1 ELSE 0
        /\ \A i \in 1..b - 1 + 1 : C[i] = s[1 + i - 1]
    BY <1>3, <2>1, SubSeqProperties
  <2>3. b - 1 + 1 = b /\ \A i \in 1..b : 1 + i - 1 = i
    BY <1>3
  <2> QED BY <1>3, <2>2, <2>3
<1>7. /\ B \in Seq(T) /\ Len(B) = b - a /\ \A i \in 1..b - a : B[i] = s[a + i]
  <2>1. \A i \in p + 1..b : s[i] \in T
    BY <1>1, <1>2, <1>3
  <2>2. /\ B \in Seq(T) /\ Len(B) = IF p + 1 <= b THEN b - (p + 1) + 1 ELSE 0
        /\ \A i \in 1..b - (p + 1) + 1 : B[i] = s[(p + 1) + i - 1]
    BY <1>3, <2>1, SubSeqProperties
  <2>3. CASE p < l
    <3>1. a = p /\ b - (p + 1) + 1 = b - a /\ \A i \in 1..b - a : (p + 1) + i - 1 = a + i
      BY <1>3, <2>3
    <3>2. (IF p + 1 <= b THEN b - (p + 1) + 1 ELSE 0) = b - a
      BY <1>3, <3>1
    <3> QED BY <2>2, <3>1, <3>2
  <2>4. CASE p >= l
    <3>1. b - a = 0 /\ ~(p + 1 <= b)
      BY <1>1, <1>3, <2>4
    <3> QED BY <2>2, <3>1
  <2> QED BY <1>1, <2>3, <2>4
<1> HIDE DEF A, B, C
<1>8. /\ A \o B \in Seq(T) /\ Len(A \o B) = b
      /\ \A i \in 1..b : (A \o B)[i] = IF i <= a THEN A[i] ELSE B[i - a]
  <2>1. /\ A \o B \in Seq(T) /\ Len(A \o B) = Len(A) + Len(B)
        /\ \A i \in 1..Len(A) + Len(B) : (A \o B)[i] = IF i <= Len(A) THEN A[i] ELSE B[i - Len(A)]
    BY <1>5, <1>7, ConcatProperties
  <2>2. a + (b - a) = b
    BY <1>3
  <2> QED BY <1>5, <1>7, <2>1, <2>2
<1>9. ASSUME NEW i \in 1..b PROVE (A \o B)[i] = C[i]
  <2>1. CASE i <= a
    <3>1. i \in 1..a
      BY <1>3, <2>1
    <3> QED BY <1>5, <1>6, <1>8, <2>1, <3>1
  <2>2. CASE ~(i <= a)
    <3>1. i - a \in 1..b - a /\ a + (i - a) = i
      BY <1>3, <2>2
    <3> QED BY <1>6, <1>7, <1>8, <2>2, <3>1
  <2> QED BY <2>1, <2>2
<1>10. A \o B = C
  BY <1>6, <1>8, <1>9, SeqEqual
<1> QED BY <1>1, <1>4, <1>10 DEF A, C, a, b

\* Pages of any size, one after the other, are the whole.
LEMMA PagesJoin ==
  ASSUME NEW T, NEW s \in Seq(T), NEW n \in Nat \ {0}, NEW l \in Nat, Len(s) <= l
  PROVE  FlattenSeq([k \in 1..(l + 1) |-> Paginate(s, (k - 1) * n, n)]) = s
<1> DEFINE pages == [k \in 1..(l + 1) |-> Paginate(s, (k - 1) * n, n)]
           Shown(k) == SubSeq(s, 1, Reach(k * n, Len(s)))
           f == [k \in 1..(l + 1) |-> Shown(k)]
           IsFlat(g) == g = [i \in 1..Len(pages) |->
                              IF i = 1 THEN pages[i] ELSE g[i - 1] \o pages[i]]
<1>1. l + 1 \in Nat \ {0} /\ Len(s) \in Nat
  BY LenProperties
<1>2. Len(pages) = l + 1
  <2>1. DOMAIN pages = 1..(l + 1) /\ pages = [k \in 1..(l + 1) |-> pages[k]]
    OBVIOUS
  <2> HIDE DEF pages
  <2> QED BY <1>1, <2>1, FunctionIsList
<1>3. ASSUME NEW k \in 1..(l + 1)
      PROVE  /\ pages[k] = Paginate(s, (k - 1) * n, n)
             /\ (k - 1) * n \in Nat /\ k * n = (k - 1) * n + n /\ k - 1 \in Nat
  OBVIOUS
<1>4. Shown(0) = <<>> /\ Shown(l + 1) = s
  <2>1. 0 * n = 0 /\ (l + 1) * n >= l + 1
    <3>1. \A a, b \in Nat : b # 0 => a * b >= a
      OBVIOUS
    <3> QED BY <1>1, <3>1
  <2>2. Reach(0 * n, Len(s)) = 0 /\ Reach((l + 1) * n, Len(s)) = Len(s)
    <3>1. PICK m \in Nat : m = (l + 1) * n
      OBVIOUS
    <3> QED BY <1>1, <2>1, <3>1 DEF Reach
  <2>3. SubSeq(s, 1, 0) = <<>>
    BY SubSeqEmpty
  <2>4. SubSeq(s, 1, Len(s)) = s
    BY SubSeqFull
  <2> QED BY <2>2, <2>3, <2>4
<1>5. ASSUME NEW k \in 1..(l + 1) PROVE Shown(k - 1) \o pages[k] = Shown(k)
  <2>1. PICK p \in Nat : p = (k - 1) * n
    BY <1>3
  <2> QED BY <1>3, <2>1, NextPage
<1>6. Shown(1) = pages[1]
  <2>1. <<>> \o pages[1] = pages[1]
    <3>1. pages[1] \in Seq(T)
      <4>1. (1 - 1) * n = 0 /\ 1 \in 1..(l + 1)
        BY <1>1
      <4>2. pages[1] = Paginate(s, 0, n)
        BY <1>3, <4>1
      <4>3. Paginate(s, 0, n) \in Seq(T)
        <5>1. PICK b \in Int : b = IF 0 + n < Len(s) THEN 0 + n ELSE Len(s)
          BY <1>1
        <5>2. Paginate(s, 0, n) = SubSeq(s, 1, b) /\ b <= Len(s)
          BY <1>1, <5>1 DEF Paginate
        <5>3. \A i \in 1..b : s[i] \in T
          BY <1>1, <5>2, ElementOfSeq
        <5> QED BY <5>2, <5>3, SubSeqProperties
      <4> QED BY <4>2, <4>3
    <3> QED BY <3>1, ConcatEmptySeq
  <2>2. 1 \in 1..(l + 1) /\ 1 - 1 = 0
    BY <1>1
  <2> QED BY <1>4, <1>5, <2>1, <2>2
<1> HIDE DEF pages, Shown
<1>7. IsFlat(f)
  <2>1. ASSUME NEW i \in 1..(l + 1)
        PROVE  Shown(i) = IF i = 1 THEN pages[i] ELSE f[i - 1] \o pages[i]
    <3>1. CASE i = 1
      BY <1>6, <3>1
    <3>2. CASE i # 1
      <4>1. i - 1 \in 1..(l + 1)
        BY <1>1, <3>2
      <4> QED BY <1>5, <3>2, <4>1
    <3> QED BY <3>1, <3>2
  <2> QED BY <1>2, <2>1
<1>8. ASSUME NEW g, IsFlat(g) PROVE g[l + 1] = s
  <2> DEFINE S == {i \in 1..(l + 1) : g[i] # Shown(i)}
  <2>1. \A i \in 1..(l + 1) : g[i] = IF i = 1 THEN pages[i] ELSE g[i - 1] \o pages[i]
    BY <1>2, <1>8
  <2>2. S = {}
    <3> SUFFICES ASSUME S # {} PROVE FALSE
      OBVIOUS
    <3>1. PICK m \in S : \A k \in S : m <= k
      <4>1. S \in SUBSET Nat
        OBVIOUS
      <4> HIDE DEF S
      <4> QED BY <4>1, LeastElement
    <3>2. m # 1
      BY <1>6, <2>1
    <3>3. m - 1 \in 1..(l + 1) /\ ~(m <= m - 1)
      BY <1>1, <3>2
    <3>4. g[m - 1] = Shown(m - 1)
      BY <3>1, <3>3
    <3>5. g[m] = Shown(m)
      BY <1>5, <2>1, <3>2, <3>4
    <3> QED BY <3>5
  <2>3. l + 1 \in 1..(l + 1)
    BY <1>1
  <2> QED BY <1>4, <2>2, <2>3
<1>9. FlattenSeq(pages) = (CHOOSE g : IsFlat(g))[l + 1]
  BY <1>1, <1>2 DEF FlattenSeq
<1>10. IsFlat(CHOOSE g : IsFlat(g))
  <2> HIDE DEF IsFlat
  <2> QED BY <1>7
<1> HIDE DEF IsFlat
<1> QED BY <1>8, <1>9, <1>10 DEF pages

-----------------------------------------------------------------------------
(* What list_models returns *)

LEMMA SummariesTyped ==
  ASSUME NEW models, IsList(models), \A i \in DOMAIN models : IsModel(models[i])
  PROVE  /\ IsList(Summaries(models)) /\ DOMAIN Summaries(models) = DOMAIN models
         /\ \A i \in DOMAIN models : Summaries(models)[i] = Summary(models[i])
         /\ \A i \in DOMAIN models : IsSummary(Summaries(models)[i])
<1> DEFINE all == Summaries(models)
<1>1. Len(models) \in Nat /\ DOMAIN models = 1..Len(models)
  BY DEF IsList
<1>2. DOMAIN all = 1..Len(models) /\ all = [i \in 1..Len(models) |-> all[i]]
      /\ \A i \in DOMAIN models : all[i] = Summary(models[i])
  BY <1>1 DEF Summaries
<1> HIDE DEF all
<1>3. IsList(all)
  BY <1>1, <1>2, FunctionIsList
<1>4. \A i \in DOMAIN models : IsSummary(all[i])
  BY <1>2, SummaryTyped
<1> QED BY <1>1, <1>2, <1>3, <1>4 DEF all

\* Two elements of which the first has the smaller key, or an equal one, stand in the
\* right order.
LEMMA KeysSayOrder ==
  ASSUME NEW sort \in SortKeys, NEW s, NEW t, IsSummary(s), IsSummary(t),
         \/ Below(SortValue(sort, s), SortValue(sort, t))
         \/ SortValue(sort, s) = SortValue(sort, t),
         ValueOf(sort, t) # Unknown
  PROVE  /\ ValueOf(sort, s) # Unknown
         /\ IF Up(sort) THEN ValueOf(sort, s) <= ValueOf(sort, t)
                        ELSE ValueOf(sort, s) >= ValueOf(sort, t)
<1> DEFINE a == ValueOf(sort, s)
           b == ValueOf(sort, t)
           ka == SortValue(sort, s)
           kb == SortValue(sort, t)
<1>1. /\ a \in Int \cup {Unknown} /\ b \in Int
      /\ a = Unknown => ka = <<1, 0>>
      /\ a # Unknown => ka = <<0, IF Up(sort) THEN a ELSE -a>>
      /\ kb = <<0, IF Up(sort) THEN b ELSE -b>>
  BY KeyTyped
<1>2. Below(ka, kb) \/ ka = kb
  OBVIOUS
<1> HIDE DEF a, b, ka, kb
<1>3. a # Unknown
  BY <1>1, <1>2 DEF Below
<1>4. CASE Up(sort)
  <2>1. a <= b
    BY <1>1, <1>2, <1>3, <1>4 DEF Below
  <2> QED BY <1>3, <1>4, <2>1 DEF a, b
<1>5. CASE ~Up(sort)
  <2>1. a >= b
    BY <1>1, <1>2, <1>3, <1>5 DEF Below
  <2> QED BY <1>3, <1>5, <2>1 DEF a, b
<1> QED BY <1>4, <1>5

\* A provider is counted with all of its models.
LEMMA FacetsCount ==
  ASSUME NEW models, IsList(models), \A i \in DOMAIN models : IsModel(models[i]),
         NEW f \in Range(ProviderFacets(models))
  PROVE  f.count = Cardinality({i \in DOMAIN models : models[i].provider = f.provider})
<1> DEFINE Count(p)     == Cardinality({i \in DOMAIN models : models[i].provider = p})
           P            == {models[i].provider : i \in DOMAIN models}
           Key(p)       == <<-Count(p), p>>
           Before(p, q) == Below(Key(p), Key(q))
           R            == {pq \in P \X P : Before(pq[1], pq[2])}
           F            == [p \in P |-> [provider |-> p, count |-> Count(p)]]
           place        == [n \in 1..Cardinality(P) |->
                              CHOOSE p \in P : Cardinality({q \in P : Before(q, p)}) = n - 1]
<1>1. ProviderFacets(models) = [n \in 1..Cardinality(P) |-> F[place[n]]]
  BY DEF ProviderFacets, Ordered
<1>2. \A p \in P : IsKey(Key(p))
  <2> SUFFICES ASSUME NEW p \in P PROVE IsKey(Key(p))
    OBVIOUS
  <2>1. p \in Int
    BY DEF IsModel
  <2>2. Count(p) \in Nat
    <3>1. {i \in DOMAIN models : models[i].provider = p} \in SUBSET DOMAIN models
      OBVIOUS
    <3> QED BY <3>1, ListFacts
  <2> HIDE DEF Count
  <2>3. -Count(p) \in Int
    BY <2>2
  <2> QED BY <2>1, <2>3 DEF IsKey
<1>3. IsFiniteSet(P)
  <2> DEFINE g == [i \in DOMAIN models |-> models[i].provider]
  <2>1. g \in Surjection(DOMAIN models, P)
    BY DEF Surjection
  <2>2. IsFiniteSet(DOMAIN models)
    BY ListFacts
  <2> HIDE DEF g, P
  <2> QED BY <2>1, <2>2, FS_Surjection
<1>4. Orders(R, P)
  <2>1. \A p, q \in P : <<p, q>> \in R <=> Below(Key(p), Key(q))
    <3> HIDE DEF P, Key
    <3> QED OBVIOUS
  <2>2. \A p, q \in P : Key(p) = Key(q) => p = q
    <3> HIDE DEF Count, P
    <3> QED OBVIOUS
  <2> HIDE DEF P, Key, R
  <2>3. \A p \in P : <<p, p>> \notin R
    BY <1>2, <2>1, KeysOrdered
  <2>4. ASSUME NEW p \in P, NEW q \in P, NEW r \in P, <<p, q>> \in R, <<q, r>> \in R
        PROVE  <<p, r>> \in R
    <3>1. Below(Key(p), Key(q)) /\ Below(Key(q), Key(r))
      BY <2>1, <2>4
    <3> QED BY <1>2, <2>1, <3>1, KeysOrdered
  <2>5. ASSUME NEW p \in P, NEW q \in P, p # q PROVE <<p, q>> \in R \/ <<q, p>> \in R
    <3>1. Key(p) = Key(q) \/ Below(Key(p), Key(q)) \/ Below(Key(q), Key(p))
      BY <1>2, KeysOrdered
    <3> QED BY <2>1, <2>2, <2>5, <3>1
  <2> QED BY <2>3, <2>4, <2>5 DEF Orders
<1>5. \A p \in P : Lower(R, P, p) = {q \in P : Before(q, p)}
  <2> HIDE DEF P, Key
  <2> QED BY DEF Lower
<1>6. ASSUME NEW n \in 1..Cardinality(P) PROVE place[n] \in P
  <2> HIDE DEF P, Key
  <2>1. Cardinality(P) \in Nat /\ \A r \in 0..Cardinality(P) - 1 : \E p \in P : Rank(R, P, p) = r
    <3> HIDE DEF R
    <3> QED BY <1>3, <1>4, RankOnto
  <2>2. n - 1 \in 0..Cardinality(P) - 1
    BY <2>1
  <2>3. PICK p \in P : Rank(R, P, p) = n - 1
    BY <2>1, <2>2
  <2>4. Cardinality({q \in P : Before(q, p)}) = n - 1
    BY <1>5, <2>3 DEF Rank
  <2> QED BY <2>4
<1>7. \A n \in 1..Cardinality(P) :
        /\ F[place[n]].provider = place[n] /\ F[place[n]].count = Count(place[n])
  <2> HIDE DEF P, Count, place
  <2> QED BY <1>6
<1>8. PICK n \in 1..Cardinality(P) : f = F[place[n]]
  <2> HIDE DEF P, F, place
  <2> QED BY <1>1 DEF Range
<1> QED BY <1>7, <1>8

LEMMA EveryListingIsRight ==
  ASSUME NEW models, IsList(models), \A i \in DOMAIN models : IsModel(models[i]),
         NEW c, c.sort \in SortKeys, c.price \in Int \cup {NotGiven}
  PROVE  IsRight(models, c)
<1> DEFINE all     == Summaries(models)
           l       == Len(all)
           kept    == {i \in DOMAIN all : Matches(c, all[i])}
           matched == ApplyFilter(models, c)
           items   == ListModels(models, c, 0, l + 1).items
           Pages(n) == FlattenSeq([k \in 1..(l + 1) |-> ListModels(models, c, (k - 1) * n, n).items])
           T       == {all[i] : i \in kept}
           R       == SortOrder(all, kept, c.sort)
<1>1. /\ IsList(all) /\ DOMAIN all = DOMAIN models
      /\ \A i \in DOMAIN all : all[i] = Summary(models[i]) /\ IsSummary(all[i])
  BY SummariesTyped
<1>2. kept \in SUBSET DOMAIN all /\ \A i \in kept : IsSummary(all[i]) /\ Matches(c, all[i])
  BY <1>1
<1>3. matched = Sorted(all, kept, c.sort)
  BY DEF ApplyFilter
<1>4. l \in Nat
  BY <1>1 DEF IsList
<1>5. \A s : s \in T <=> \E i \in kept : s = all[i]
  OBVIOUS
<1>6. \A o, n : ListModels(models, c, o, n) = [total |-> Len(matched), items |-> Paginate(matched, o, n)]
  BY DEF ListModels
<1> HIDE DEF all, kept, matched, T
<1>7. IsFiniteSet(kept) /\ Cardinality(kept) \in Nat /\ Cardinality(kept) <= l /\ kept \in SUBSET Nat
  BY <1>1, <1>2, ListFacts
<1>8. PICK place : Places(place, R, kept) /\ matched = [n \in 1..Cardinality(kept) |-> all[place[n]]]
  <2> HIDE DEF R
  <2>1. PICK place : Arranges(place, all, kept, c.sort)
    BY <1>1, <1>2, SortedByPlaces
  <2> QED BY <1>3, <2>1 DEF R, Arranges
<1>9. Orders(R, kept)
  <2> HIDE DEF R
  <2>1. Orders(SortOrder(all, kept, c.sort), kept)
    BY <1>2, <1>7, SortOrders
  <2> QED BY <2>1 DEF R
<1> HIDE DEF R
<1>10. PICK m \in Nat : m = Cardinality(kept) /\ m <= l
  BY <1>7
<1>11. \A n \in 1..m : place[n] \in kept /\ matched[n] = all[place[n]]
  BY <1>8, <1>10 DEF Places
<1>12. Len(matched) = m /\ DOMAIN matched = 1..m
  <2>1. DOMAIN matched = 1..m /\ matched = [n \in 1..m |-> matched[n]]
    BY <1>8, <1>10
  <2> QED BY <2>1, FunctionIsList
<1>13. matched \in Seq(T)
  <2>1. matched \in [1..m -> T]
    <3>1. \A n \in 1..m : matched[n] \in T
      BY <1>5, <1>11
    <3>2. matched = [n \in 1..m |-> matched[n]]
      BY <1>8, <1>10
    <3> QED BY <3>1, <3>2
  <2> QED BY <2>1
<1>14. items = matched
  <2>1. items = Paginate(matched, 0, l + 1)
    BY <1>6
  <2>2. Paginate(matched, 0, l + 1) = SubSeq(matched, 1, Len(matched))
    BY <1>4, <1>7, <1>10, <1>12 DEF Paginate
  <2>3. SubSeq(matched, 1, Len(matched)) = matched
    BY <1>13, SubSeqFull
  <2> QED BY <2>1, <2>2, <2>3
<1> HIDE DEF items
<1>15. ASSUME NEW n \in 1..(l + 1)
       PROVE  Pages(n) = items /\ ListModels(models, c, 0, n).total = Cardinality(kept)
  <2>1. ListModels(models, c, 0, n).total = Cardinality(kept)
    BY <1>6, <1>10, <1>12
  <2>2. Pages(n) = FlattenSeq([k \in 1..(l + 1) |-> Paginate(matched, (k - 1) * n, n)])
    <3>1. \A k \in 1..(l + 1) : ListModels(models, c, (k - 1) * n, n).items = Paginate(matched, (k - 1) * n, n)
      BY <1>6
    <3> QED BY <3>1
  <2>3. n \in Nat \ {0} /\ Len(matched) <= l
    BY <1>4, <1>10, <1>12
  <2> HIDE DEF Pages
  <2>4. Pages(n) = matched
    BY <1>4, <1>13, <2>2, <2>3, PagesJoin
  <2> QED BY <1>14, <2>1, <2>4
<1>16. ASSUME NEW s \in Range(all)
       PROVE  Cardinality({n \in DOMAIN items : items[n] = s}) = Cardinality({i \in kept : all[i] = s})
  <2>1. {n \in DOMAIN items : items[n] = s} = Occurrences(all, place, kept, s)
    BY <1>10, <1>11, <1>12, <1>14 DEF Occurrences
  <2>2. {i \in kept : all[i] = s} = Sources(all, kept, s)
    BY DEF Sources
  <2>3. Cardinality(Occurrences(all, place, kept, s)) = Cardinality(Sources(all, kept, s))
    BY <1>7, <1>8, <1>9, SameOccurrences
  <2> QED BY <2>1, <2>2, <2>3
<1>17. ASSUME NEW i \in DOMAIN items, NEW j \in DOMAIN items, i < j,
              ValueOf(c.sort, items[j]) # Unknown
       PROVE  /\ ValueOf(c.sort, items[i]) # Unknown
              /\ IF Up(c.sort) THEN ValueOf(c.sort, items[i]) <= ValueOf(c.sort, items[j])
                               ELSE ValueOf(c.sort, items[i]) >= ValueOf(c.sort, items[j])
  <2>1. i \in 1..m /\ j \in 1..m
    BY <1>12, <1>14
  <2>2. <<place[i], place[j]>> \in R
    BY <1>7, <1>8, <1>9, <1>10, <1>17, <2>1, PlacesInOrder
  <2>3. /\ items[i] = all[place[i]] /\ items[j] = all[place[j]]
        /\ IsSummary(items[i]) /\ IsSummary(items[j])
    BY <1>2, <1>11, <1>14, <2>1
  <2>4. \/ Below(SortValue(c.sort, items[i]), SortValue(c.sort, items[j]))
        \/ SortValue(c.sort, items[i]) = SortValue(c.sort, items[j])
    BY <2>2, <2>3 DEF R, SortOrder
  <2> QED BY <1>17, <2>3, <2>4, KeysSayOrder
<1>18. ASSUME c.price # NotGiven, NEW s \in Range(items) PROVE s.blended \in 0..c.price
  <2>1. PICK n \in 1..m : s = all[place[n]]
    BY <1>11, <1>12, <1>14 DEF Range
  <2>2. IsSummary(s) /\ Matches(c, s)
    BY <1>2, <1>11, <2>1
  <2>3. s.blended # Unknown /\ s.blended <= c.price
    BY <1>18, <2>2 DEF Matches
  <2> QED BY <1>18, <2>2, <2>3 DEF IsSummary
<1>19. ASSUME c.provider # NotGiven, NEW f \in Range(ProviderFacets(models)), f.provider = c.provider
       PROVE  Len(items) <= f.count
  <2> DEFINE Count(p) == Cardinality({i \in DOMAIN models : models[i].provider = p})
  <2>1. f.count = Count(f.provider)
    BY FacetsCount
  <2>2. kept \in SUBSET {i \in DOMAIN models : models[i].provider = c.provider}
    BY <1>1, <1>2, <1>19 DEF Matches, Summary
  <2>3. IsFiniteSet({i \in DOMAIN models : models[i].provider = c.provider})
    BY ListFacts
  <2> HIDE DEF Count
  <2>4. Cardinality(kept) <= Count(c.provider)
    BY <2>2, <2>3, FS_Subset DEF Count
  <2> QED BY <1>10, <1>12, <1>14, <1>19, <2>1, <2>4
<1> HIDE DEF Pages
<1> QED BY <1>15, <1>16, <1>17, <1>18, <1>19 DEF IsRight, ValueOf, Up, Pages, items, all, kept

LEMMA ModelsListed ==
  ASSUME NEW models \in {Parsed(list) : list \in Range(Upstream)} \cup {Bundled}
  PROVE  IsList(models) /\ \A i \in DOMAIN models : IsModel(models[i])
<1>1. CASE models = Bundled
  BY <1>1, ListingAssumption
<1>2. CASE models \in {Parsed(list) : list \in Range(Upstream)}
  <2>1. PICK n \in Contents : models = Parsed(Upstream[n])
    BY <1>2 DEF Range, Contents
  <2> DEFINE list == Upstream[n]
             P == {i \in DOMAIN list : list[i] # Bad}
  <2>2. IsList(list) /\ \A i \in P : IsModel(list[i])
    BY ListingAssumption
  <2>3. models = Kept(list, P) /\ P \in SUBSET DOMAIN list
    BY <2>1 DEF Parsed
  <2> HIDE DEF list, P
  <2>4. IsList(models) /\ \A k \in DOMAIN models : \E i \in P : models[k] = list[i]
    BY <2>2, <2>3, KeptIsList
  <2> QED BY <2>2, <2>4
<1> QED BY <1>1, <1>2

LEMMA AllListingsRight ==
  AllRight = {Parsed(list) : list \in Range(Upstream)} \cup {Bundled}
<1> SUFFICES ASSUME NEW models \in {Parsed(list) : list \in Range(Upstream)} \cup {Bundled},
                    NEW c \in Criteria
             PROVE  IsRight(models, c)
  BY DEF AllRight
<1>1. c.sort \in SortKeys /\ c.price \in Int \cup {NotGiven}
  BY ListingAssumption
<1> QED BY <1>1, ModelsListed, EveryListingIsRight

\* What list_models answers is right, for every list of models and every request: the
\* models that match, each once, in order, whole on pages of any size (query.py:140-182).
THEOREM ListingsAreRight == Spec => []ListingIsRight
<1>1. TypeOK => ListingIsRight
  <2> SUFFICES ASSUME TypeOK, NEW p \in Servers, cache[p] # None
               PROVE  Models(cache[p]) \in AllRight
    BY DEF ListingIsRight
  <2>1. cache[p] \in Snapshots \cup {Fixture}
    BY DEF TypeOK
  <2>2. CASE cache[p] = Fixture
    BY <2>2, AllListingsRight DEF Models
  <2>3. CASE cache[p] \in Snapshots /\ cache[p] # Fixture
    <3>1. Models(cache[p]) = Parsed(Upstream[cache[p].content]) /\ cache[p].content \in Contents
      BY <2>3 DEF Models, Snapshots
    <3>2. Upstream[cache[p].content] \in Range(Upstream)
      BY <3>1 DEF Range, Contents
    <3> QED BY <3>1, <3>2, AllListingsRight
  <2> QED BY <2>1, <2>2, <2>3
<1> QED BY <1>1, CatalogTypeCorrect, PTL
=============================================================================
