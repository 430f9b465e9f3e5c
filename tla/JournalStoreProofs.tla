-------------------------- MODULE JournalStoreProofs --------------------------
(***************************************************************************)
(* Proofs about the two files of a run.  meta.json is atomic but for what  *)
(* two overlapping writes leave, whatever number of writers, readers,      *)
(* files and crashes (MetaFile).  What is read back from journal.jsonl was *)
(* written, and a torn line of ASCII text costs one event, whatever the    *)
(* texts and their number (JournalFile).                                   *)
(***************************************************************************)
EXTENDS MetaFile, JournalFile, SequenceTheorems, WellFoundedInduction, TLAPS

Inv == TypeOK /\ FileInv

LEMMA InvInit == Init => Inv
<1> SUFFICES ASSUME Init PROVE Inv
  OBVIOUS
<1>1. TypeOK
  BY MetaFileAssumption DEF Init, TypeOK, Bound
<1>2. FileInv
  BY DEF Init, FileInv, MetaIsSettled, PartialIsApart
<1> QED BY <1>1, <1>2 DEF Inv

LEMMA TypeStep == Inv /\ [Next]_vars => TypeOK'
<1> SUFFICES ASSUME Inv, [Next]_vars PROVE TypeOK'
  OBVIOUS
<1>0. TypeOK /\ FileInv
  BY DEF Inv
<1> USE <1>0, MetaFileAssumption DEF TypeOK, Bound
<1>1. ASSUME NEW w \in Writers, NEW v \in Values, Open(w, v) PROVE TypeOK'
  <2>1. PICK i \in Inodes :
          /\ partial' = i
          /\ content' = [content EXCEPT ![i] = "empty"]
          /\ file' = [file EXCEPT ![w] = i]
          /\ NoteOverlap(w, i)
    BY <1>1 DEF Open
  <2>2. overlapped' \subseteq Inodes
    BY <2>1 DEF NoteOverlap
  <2> QED BY <1>1, <2>1, <2>2 DEF Open
<1>2. ASSUME NEW w \in Writers, Write(w) PROVE TypeOK'
  BY <1>2 DEF Write
<1>3. ASSUME NEW w \in Writers, Rename(w) PROVE TypeOK'
  BY <1>3 DEF Rename
<1>4. ASSUME NEW w \in Writers, WriteError(w) PROVE TypeOK'
  BY <1>4 DEF WriteError
<1>5. ASSUME NEW t \in Readers, OpenToRead(t) \/ Close(t) PROVE TypeOK'
  BY <1>5 DEF OpenToRead, Close, fs, writers
<1>6. CASE Crash
  BY <1>6 DEF Crash, fs
<1>7. CASE UNCHANGED vars
  BY <1>7 DEF vars
<1> QED BY <1>1, <1>2, <1>3, <1>4, <1>5, <1>6, <1>7 DEF Next

LEMMA FileStep ==
  ASSUME Inv, [Next]_vars
  PROVE  FileInv'
<1>0. TypeOK /\ FileInv /\ MetaIsSettled /\ PartialIsApart
  BY DEF Inv, FileInv
<1> USE <1>0, MetaFileAssumption DEF TypeOK, Bound
<1>1. ASSUME NEW w \in Writers, NEW v \in Values, Open(w, v) PROVE FileInv'
  <2>1. PICK i \in Inodes :
          /\ IF partial = Nothing THEN Free(i) ELSE i = partial
          /\ partial' = i
          /\ content' = [content EXCEPT ![i] = "empty"]
          /\ file' = [file EXCEPT ![w] = i]
          /\ NoteOverlap(w, i)
    BY <1>1 DEF Open
  <2>2. /\ stage[w] = "idle" /\ stage' = [stage EXCEPT ![w] = "opened"]
        /\ meta' = meta /\ handle' = handle
    BY <1>1 DEF Open
  <2>3. i # Nothing /\ i # meta /\ \A t \in Readers : handle[t] # i
    BY <2>1 DEF Free, PartialIsApart
  <2>4. \A j : j # i => (j \in overlapped' <=> j \in overlapped)
    BY <2>1 DEF NoteOverlap
  <2>5. MetaIsSettled'
    BY <2>1, <2>2, <2>3, <2>4 DEF MetaIsSettled
  <2>6. PartialIsApart'
    BY <2>1, <2>2, <2>3 DEF PartialIsApart
  <2>7. i \notin overlapped' => \A x \in Writers \ {w} : stage[x] = "idle"
    BY <2>1 DEF NoteOverlap
  <2>8. \A x \in Writers : stage'[x] = "idle" => file'[x] = Nothing
    BY <2>1, <2>2 DEF FileInv
  <2>9. ASSUME NEW x \in Writers, stage'[x] # "idle", i \notin overlapped'
        PROVE  x = w /\ file'[x] = i /\ stage'[x] = "opened" /\ content'[i] = "empty"
               /\ \A y \in Writers \ {x} : stage'[y] = "idle"
    BY <2>1, <2>2, <2>7, <2>9
  <2> QED BY <2>1, <2>5, <2>6, <2>8, <2>9 DEF FileInv
<1>2. ASSUME NEW w \in Writers, Write(w) PROVE FileInv'
  <2>1. /\ stage[w] = "opened" /\ stage' = [stage EXCEPT ![w] = "written"]
        /\ UNCHANGED <<meta, partial, input, file, handle, overlapped>>
    BY <1>2 DEF Write
  <2>2. PICK c \in {input[w]} \cup (IF content[file[w]] \in {"empty", input[w]} THEN {} ELSE {"torn"}) :
          content' = [content EXCEPT ![file[w]] = c]
    BY <1>2 DEF Write
  <2>3. file[w] \in Inodes
    BY <2>1
  <2>4. MetaIsSettled' /\ PartialIsApart'
    BY <2>1, <2>2, <2>3 DEF MetaIsSettled, PartialIsApart
  <2>5. \A x \in Writers : stage'[x] = "idle" => file'[x] = Nothing
    BY <2>1 DEF FileInv
  <2>6. ASSUME NEW x \in Writers, stage'[x] # "idle", partial # Nothing, partial \notin overlapped
        PROVE  /\ x = w /\ file[w] = partial /\ content[partial] = "empty"
               /\ \A y \in Writers \ {w} : stage[y] = "idle"
    BY <2>1, <2>6 DEF FileInv
  <2>7. ASSUME NEW x \in Writers, stage'[x] # "idle", partial # Nothing, partial \notin overlapped
        PROVE  content'[partial] = input[w]
    BY <2>2, <2>3, <2>6, <2>7
  <2> QED BY <2>1, <2>4, <2>5, <2>6, <2>7 DEF FileInv
<1>3. ASSUME NEW w \in Writers, Rename(w) PROVE FileInv'
  <2>1. /\ stage[w] = "written" /\ stage' = [stage EXCEPT ![w] = "idle"]
        /\ file' = [file EXCEPT ![w] = Nothing]
        /\ partial' = Nothing /\ meta' = (IF partial = Nothing THEN meta ELSE partial)
        /\ UNCHANGED <<content, handle, overlapped>>
    BY <1>3 DEF Rename
  <2>2. ASSUME partial # Nothing, partial \notin overlapped
        PROVE  content[partial] \in Values /\ \A x \in Writers : file'[x] = Nothing
    <3>1. /\ file[w] = partial /\ content[partial] = input[w]
          /\ \A x \in Writers \ {w} : stage[x] = "idle" /\ file[x] = Nothing
      BY <2>1, <2>2 DEF FileInv
    <3> QED BY <2>1, <3>1
  <2>3. MetaIsSettled'
    <3>1. CASE partial = Nothing
      BY <2>1, <3>1 DEF MetaIsSettled
    <3>2. CASE partial # Nothing
      BY <2>1, <2>2, <3>2 DEF MetaIsSettled
    <3> QED BY <3>1, <3>2
  <2>4. PartialIsApart'
    BY <2>1 DEF PartialIsApart
  <2>5. \A x \in Writers : stage'[x] = "idle" => file'[x] = Nothing
    BY <2>1 DEF FileInv
  <2> QED BY <2>1, <2>3, <2>4, <2>5 DEF FileInv
<1>4. ASSUME NEW w \in Writers, WriteError(w) PROVE FileInv'
  <2>1. /\ stage[w] = "opened" /\ stage' = [stage EXCEPT ![w] = "idle"]
        /\ file' = [file EXCEPT ![w] = Nothing]
        /\ UNCHANGED <<meta, partial, handle, overlapped>>
    BY <1>4 DEF WriteError
  <2>2. PICK c : content' = [content EXCEPT ![file[w]] = c]
    BY <1>4 DEF WriteError
  <2>3. file[w] \in Inodes
    BY <2>1
  <2>4. MetaIsSettled' /\ PartialIsApart'
    BY <2>1, <2>2, <2>3 DEF MetaIsSettled, PartialIsApart
  <2>5. \A x \in Writers : stage'[x] = "idle" => file'[x] = Nothing
    BY <2>1 DEF FileInv
  <2>6. ASSUME NEW x \in Writers, stage'[x] # "idle", partial # Nothing, partial \notin overlapped
        PROVE  FALSE
    BY <2>1, <2>6 DEF FileInv
  <2> QED BY <2>1, <2>4, <2>5, <2>6 DEF FileInv
<1>5. ASSUME NEW t \in Readers, OpenToRead(t) \/ Close(t) PROVE FileInv'
  BY <1>5 DEF OpenToRead, Close, fs, writers, FileInv, MetaIsSettled, PartialIsApart
<1>6. CASE Crash
  BY <1>6 DEF Crash, fs, FileInv, MetaIsSettled, PartialIsApart
<1>7. CASE UNCHANGED vars
  BY <1>7 DEF vars, FileInv, MetaIsSettled, PartialIsApart
<1> QED BY <1>1, <1>2, <1>3, <1>4, <1>5, <1>6, <1>7 DEF Next

LEMMA InvStep == Inv /\ [Next]_vars => Inv'
  BY TypeStep, FileStep DEF Inv

\* What meta.json is bound to, and what a reader has open, is complete and no longer written,
\* for any number of writers, unless it is one of the files on which two writes overlapped:
\* these do no harm to any other (store.py:105-111, 122-135).
THEOREM MetaSettled == Spec => [](TypeOK /\ MetaIsSettled)
<1>1. Inv => TypeOK /\ MetaIsSettled
  BY DEF Inv, FileInv
<1> QED BY InvInit, InvStep, <1>1, PTL DEF Spec

-----------------------------------------------------------------------------
(* Refinement of AtomicFile *)

Seen == [t \in Readers |-> ValueOf(handle[t])]

\* A step that leaves the names and the readers alone, and changes no file they have that is
\* not one of two overlapping writes.
LEMMA Stutters ==
  ASSUME TypeOK, meta' = meta, handle' = handle, NEW j \in Inodes, NEW c,
         content' = [content EXCEPT ![j] = c],
         meta \in overlapped' <=> meta \in overlapped,
         \A t \in Readers : handle[t] \in overlapped' <=> handle[t] \in overlapped,
         meta # j \/ meta \in overlapped,
         \A t \in Readers : handle[t] # j \/ handle[t] \in overlapped
  PROVE  ValueOf(meta)' = ValueOf(meta) /\ Seen' = Seen
<1>1. ValueOf(meta)' = ValueOf(meta)
  BY DEF TypeOK, Bound, ValueOf
<1>2. ASSUME NEW t \in Readers PROVE ValueOf(handle[t])' = ValueOf(handle[t])
  BY DEF TypeOK, Bound, ValueOf
<1>3. Seen' = Seen
  BY <1>2 DEF Seen
<1> QED BY <1>1, <1>3

LEMMA RefinesStep ==
  ASSUME Inv, [Next]_vars
  PROVE  [File!Next]_(File!fileVars)
<1>0. TypeOK /\ FileInv /\ MetaIsSettled /\ PartialIsApart
  BY DEF Inv, FileInv
<1>s. ASSUME ValueOf(meta)' = ValueOf(meta), Seen' = Seen PROVE [File!Next]_(File!fileVars)
  BY <1>s DEF File!Next, File!fileVars, Seen
<1>1. ASSUME NEW w \in Writers, NEW v \in Values, Open(w, v) PROVE [File!Next]_(File!fileVars)
  <2>1. PICK j \in Inodes : /\ IF partial = Nothing THEN Free(j) ELSE j = partial
                            /\ content' = [content EXCEPT ![j] = "empty"]
                            /\ NoteOverlap(w, j)
    BY <1>1 DEF Open
  <2>2. j # meta /\ \A t \in Readers : handle[t] # j
    BY <1>0, <2>1, MetaFileAssumption DEF Free, PartialIsApart
  <2>3. /\ meta \in overlapped' <=> meta \in overlapped
        /\ \A t \in Readers : handle[t] \in overlapped' <=> handle[t] \in overlapped
    BY <2>1, <2>2 DEF NoteOverlap
  <2>4. meta' = meta /\ handle' = handle
    BY <1>1 DEF Open
  <2>5. ValueOf(meta)' = ValueOf(meta) /\ Seen' = Seen
    <3>1. PICK c : content' = [content EXCEPT ![j] = c]
      BY <2>1
    <3> QED BY <1>0, <2>2, <2>3, <2>4, <3>1, Stutters
  <2> QED BY <1>s, <2>5
<1>2. ASSUME NEW w \in Writers, Write(w) \/ WriteError(w) PROVE [File!Next]_(File!fileVars)
  <2>1. file[w] \in Inodes
    BY <1>0, <1>2 DEF Write, WriteError, TypeOK, Bound
  <2>2. PICK c : content' = [content EXCEPT ![file[w]] = c]
    BY <1>2 DEF Write, WriteError
  <2>3. \A i \in {meta} \cup {handle[t] : t \in Readers} : i # file[w] \/ i \in overlapped
    BY <1>0, <2>1, MetaFileAssumption DEF MetaIsSettled
  <2>4. meta' = meta /\ handle' = handle /\ overlapped' = overlapped
    BY <1>2 DEF Write, WriteError
  <2>5. PICK j \in Inodes : j = file[w]
    BY <2>1
  <2>6. content' = [content EXCEPT ![j] = c]
    BY <2>2, <2>5
  <2>7. /\ meta \in overlapped' <=> meta \in overlapped
        /\ \A t \in Readers : handle[t] \in overlapped' <=> handle[t] \in overlapped
        /\ meta # j \/ meta \in overlapped
        /\ \A t \in Readers : handle[t] # j \/ handle[t] \in overlapped
    BY <2>3, <2>4, <2>5
  <2>8. ValueOf(meta)' = ValueOf(meta) /\ Seen' = Seen
    BY <1>0, <2>4, <2>6, <2>7, Stutters
  <2> QED BY <1>s, <2>8
<1>3. ASSUME NEW w \in Writers, Rename(w) PROVE [File!Next]_(File!fileVars)
  <2>1. /\ stage[w] = "written" /\ UNCHANGED <<content, handle, overlapped>>
        /\ meta' = (IF partial = Nothing THEN meta ELSE partial)
    BY <1>3 DEF Rename
  <2>2. Seen' = Seen
    BY <2>1 DEF Seen, ValueOf
  <2>3. CASE partial = Nothing
    <3>1. ValueOf(meta)' = ValueOf(meta)
      BY <2>1, <2>3 DEF ValueOf
    <3> QED BY <1>s, <2>2, <3>1
  <2>4. CASE partial # Nothing /\ partial \in overlapped
    <3>1. ValueOf(meta)' = "spoiled"
      BY <2>1, <2>4 DEF ValueOf
    <3>2. File!Write("spoiled")
      BY <2>2, <3>1 DEF File!Write, Seen
    <3> QED BY <3>2 DEF File!Next
  <2>5. CASE partial # Nothing /\ partial \notin overlapped
    <3>1. content[partial] = input[w] /\ input[w] \in Values
      BY <1>0, <2>1, <2>5 DEF FileInv, TypeOK
    <3>2. ValueOf(meta)' = content[partial]
      BY <2>1, <2>5 DEF ValueOf
    <3>3. File!Write(content[partial])
      BY <2>2, <3>2 DEF File!Write, Seen
    <3> QED BY <3>1, <3>3 DEF File!Next
  <2> QED BY <2>3, <2>4, <2>5
<1>4. ASSUME NEW t \in Readers, OpenToRead(t) PROVE [File!Next]_(File!fileVars)
  <2>1. UNCHANGED <<meta, content, overlapped>> /\ handle' = [handle EXCEPT ![t] = meta]
        /\ handle[t] = Nothing
    BY <1>4 DEF OpenToRead, fs
  <2>2. ValueOf(meta)' = ValueOf(meta)
    BY <2>1 DEF ValueOf
  <2>3. Seen' = [Seen EXCEPT ![t] = ValueOf(meta)] /\ Seen[t] = Nothing
    BY <1>0, <2>1 DEF Seen, ValueOf, TypeOK
  <2>4. File!Look(t)
    BY <2>2, <2>3 DEF File!Look, Seen
  <2> QED BY <2>4 DEF File!Next
<1>5. ASSUME NEW t \in Readers, Close(t) PROVE [File!Next]_(File!fileVars)
  <2>1. UNCHANGED <<meta, content, overlapped>> /\ handle' = [handle EXCEPT ![t] = Nothing]
    BY <1>5 DEF Close, fs
  <2>2. ValueOf(meta)' = ValueOf(meta)
    BY <2>1 DEF ValueOf
  <2>3. Seen' = [Seen EXCEPT ![t] = Nothing]
    BY <1>0, <2>1 DEF Seen, ValueOf, TypeOK
  <2>4. File!Return(t)
    BY <2>2, <2>3 DEF File!Return, Seen
  <2> QED BY <2>4 DEF File!Next
<1>6. CASE Crash
  <2>1. UNCHANGED <<meta, content, overlapped>> /\ handle' = [t \in Readers |-> Nothing]
    BY <1>6 DEF Crash, fs
  <2>2. ValueOf(meta)' = ValueOf(meta)
    BY <2>1 DEF ValueOf
  <2>3. Seen' = [t \in Readers |-> Nothing]
    BY <2>1 DEF Seen, ValueOf
  <2>4. File!Reset
    BY <2>2, <2>3 DEF File!Reset, Seen
  <2> QED BY <2>4 DEF File!Next
<1>7. CASE UNCHANGED vars
  BY <1>s, <1>7 DEF vars, ValueOf, Seen
<1> QED BY <1>1, <1>2, <1>3, <1>4, <1>5, <1>6, <1>7 DEF Next

\* write_meta and read_meta implement an atomic file for any number of writers: every read
\* returns the metadata as it was at one moment, and only a write that overlapped another can
\* leave anything but metadata (store.py:105-111, 122-135).
THEOREM MetaFileIsAtomic == Spec => ImplementsAtomicFile
<1>1. Init => File!Init
  BY DEF Init, File!Init, ValueOf
<1>2. Inv /\ [Next]_vars => [File!Next]_(File!fileVars)
  BY RefinesStep
<1> QED BY InvInit, InvStep, <1>1, <1>2, PTL DEF Spec, ImplementsAtomicFile, File!Spec

-----------------------------------------------------------------------------
(* Induction over the naturals, and flattened sequences *)

Less == {p \in Nat \X Nat : p[1] < p[2]}

LEMMA LeastElement ==
  ASSUME NEW T \in SUBSET Nat, T # {}
  PROVE  \E m \in T : \A k \in T : m <= k
<1>1. IsWellFoundedOn(Less, Nat)
  BY NatLessThanWellFounded DEF OpToRel, Less
<1>2. PICK m \in T : \A k \in T : ~(<<k, m>> \in Less)
  BY <1>1, WFMin
<1>3. ASSUME NEW k \in T PROVE m <= k
  <2>1. ~(<<k, m>> \in Less)
    BY <1>2
  <2>2. m \in Nat /\ k \in Nat
    OBVIOUS
  <2>3. ~(k < m)
    BY <2>1, <2>2 DEF Less
  <2> QED BY <2>2, <2>3
<1> QED BY <1>3

LEMMA Induction ==
  ASSUME NEW S, 0 \in S, \A n \in Nat : n \in S => n + 1 \in S
  PROVE  Nat \subseteq S
<1> SUFFICES ASSUME Nat \ S # {} PROVE FALSE
  OBVIOUS
<1>1. PICK m \in Nat \ S : \A k \in Nat \ S : m <= k
  BY LeastElement
<1>2. m # 0
  OBVIOUS
<1>3. m - 1 \in Nat /\ (m - 1) + 1 = m /\ ~(m <= m - 1)
  BY <1>2
<1>4. m - 1 \in S
  BY <1>1, <1>3
<1> QED BY <1>3, <1>4

\* The equations of the recursion in FlattenSeq, up to n.
Flat(f, ss, n) == \A k \in 1..n : f[k] = IF k = 1 THEN ss[k] ELSE f[k - 1] \o ss[k]

LEMMA FlatExists ==
  ASSUME NEW T, NEW m \in Nat, NEW ss \in [1..m -> Seq(T)]
  PROVE  \E f \in [1..m -> Seq(T)] : Flat(f, ss, m)
<1> DEFINE S == {n \in Nat : n <= m => \E f \in [1..n -> Seq(T)] : Flat(f, ss, n)}
<1>1. 0 \in S
  <2> DEFINE z == [k \in 1..0 |-> <<>>]
  <2>1. z \in [1..0 -> Seq(T)] /\ Flat(z, ss, 0)
    BY DEF Flat
  <2> QED BY <2>1
<1>2. ASSUME NEW n \in Nat, n \in S PROVE n + 1 \in S
  <2> SUFFICES ASSUME n + 1 <= m PROVE \E f \in [1..n + 1 -> Seq(T)] : Flat(f, ss, n + 1)
    OBVIOUS
  <2>1. n <= m /\ n + 1 \in 1..m
    OBVIOUS
  <2>2. PICK f \in [1..n -> Seq(T)] : Flat(f, ss, n)
    BY <1>2, <2>1
  <2> DEFINE v == IF n = 0 THEN ss[n + 1] ELSE f[n] \o ss[n + 1]
             g == [k \in 1..n + 1 |-> IF k = n + 1 THEN v ELSE f[k]]
  <2>3. v \in Seq(T)
    <3>1. ss[n + 1] \in Seq(T) /\ (n # 0 => n \in 1..n)
      BY <2>1
    <3> QED BY <2>2, <3>1
  <2> HIDE DEF v
  <2>4. g \in [1..n + 1 -> Seq(T)]
    BY <2>2, <2>3
  <2>5. ASSUME NEW k \in 1..n + 1 PROVE g[k] = IF k = 1 THEN ss[k] ELSE g[k - 1] \o ss[k]
    <3>1. CASE k = n + 1
      <4>1. g[k] = v
        BY <3>1
      <4>2. CASE n = 0
        BY <3>1, <4>1, <4>2 DEF v
      <4>3. CASE n # 0
        <5>1. k # 1 /\ k - 1 = n /\ n \in 1..n + 1 /\ n # n + 1
          BY <3>1, <4>3
        <5>2. g[k - 1] = f[n]
          BY <5>1
        <5> QED BY <3>1, <4>1, <4>3, <5>1, <5>2 DEF v
      <4> QED BY <4>2, <4>3
    <3>2. CASE k # n + 1
      <4>1. k \in 1..n /\ g[k] = f[k]
        BY <3>2
      <4>2. k # 1 => k - 1 \in 1..n + 1 /\ k - 1 # n + 1
        BY <4>1
      <4>3. k # 1 => g[k - 1] = f[k - 1]
        BY <4>2
      <4> QED BY <2>2, <4>1, <4>3 DEF Flat
    <3> QED BY <3>1, <3>2
  <2> HIDE DEF g
  <2>6. Flat(g, ss, n + 1)
    BY <2>5 DEF Flat
  <2> QED BY <2>4, <2>6
<1>3. m \in S
  <2> HIDE DEF S
  <2> QED BY <1>1, <1>2, Induction
<1> QED BY <1>3

LEMMA FlatTyped ==
  ASSUME NEW T, NEW m \in Nat, NEW ss \in [1..m -> Seq(T)], NEW f, Flat(f, ss, m),
         NEW n \in 1..m
  PROVE  f[n] \in Seq(T)
<1> DEFINE S == {k \in Nat : k \in 1..m => f[k] \in Seq(T)}
<1>1. 0 \in S
  OBVIOUS
<1>2. ASSUME NEW k \in Nat, k \in S PROVE k + 1 \in S
  <2> SUFFICES ASSUME k + 1 \in 1..m PROVE f[k + 1] \in Seq(T)
    OBVIOUS
  <2>1. f[k + 1] = IF k + 1 = 1 THEN ss[k + 1] ELSE f[(k + 1) - 1] \o ss[k + 1]
    BY DEF Flat
  <2>2. ss[k + 1] \in Seq(T) /\ (k + 1) - 1 = k
    OBVIOUS
  <2>3. CASE k = 0
    BY <2>1, <2>2, <2>3
  <2>4. CASE k # 0
    <3>1. k \in 1..m /\ k + 1 # 1
      BY <2>4
    <3>2. f[k] \in Seq(T) /\ f[k + 1] = f[k] \o ss[k + 1]
      BY <1>2, <2>1, <2>2, <3>1
    <3> QED BY <2>2, <3>2
  <2> QED BY <2>3, <2>4
<1>3. n \in S
  <2>1. n \in Nat
    OBVIOUS
  <2> HIDE DEF S
  <2> QED BY <1>1, <1>2, <2>1, Induction
<1> QED BY <1>3

\* The elements of a flattened sequence are elements of the sequences it is made of.
LEMMA FlattenType ==
  ASSUME NEW T, NEW m \in Nat, NEW ss \in [1..m -> Seq(T)]
  PROVE  FlattenSeq(ss) \in Seq(T)
<1>1. Len(ss) = m
  OBVIOUS
<1>2. CASE m = 0
  <2>1. FlattenSeq(ss) = ss
    BY <1>1, <1>2 DEF FlattenSeq
  <2>2. ss \in Seq(Seq(T)) /\ Len(ss) = 0
    BY <1>1, <1>2
  <2>3. ss = <<>>
    BY <2>2, EmptySeq
  <2> QED BY <2>1, <2>3
<1>3. CASE m # 0
  <2> DEFINE h == CHOOSE f : f = [i \in 1..m |-> IF i = 1 THEN ss[i] ELSE f[i - 1] \o ss[i]]
  <2>1. PICK f \in [1..m -> Seq(T)] : Flat(f, ss, m)
    BY FlatExists
  <2>2. f = [i \in 1..m |-> IF i = 1 THEN ss[i] ELSE f[i - 1] \o ss[i]]
    BY <2>1 DEF Flat
  <2>3. h = [i \in 1..m |-> IF i = 1 THEN ss[i] ELSE h[i - 1] \o ss[i]]
    BY <2>2
  <2>4. FlattenSeq(ss) = h[m]
    BY <1>1, <1>3 DEF FlattenSeq
  <2> HIDE DEF h
  <2>5. Flat(h, ss, m)
    BY <2>3 DEF Flat
  <2>6. m \in 1..m
    BY <1>3
  <2> QED BY <2>4, <2>5, <2>6, FlatTyped
<1> QED BY <1>2, <1>3

-----------------------------------------------------------------------------
(* The line of an event *)

Bytes == [byte : {"plain", "lead", "wide", "separator", "close", "newline"}]
           \cup [byte : {"open"}, sequence : Nat]
Events == [sequence : Nat, text : Texts]
Inner == {"plain", "lead", "wide", "separator"}

\* What is between the braces.
Body(e) == FlattenSeq([i \in DOMAIN e.text |-> Encoded(e.text[i])])

LEMMA BodyBytes ==
  ASSUME NEW e \in Events
  PROVE  /\ Body(e) \in Seq([byte : Inner])
         /\ Range(e.text) \subseteq {"plain"} => Body(e) \in Seq([byte : {"plain"}])
<1> DEFINE t  == e.text
           m  == Len(t)
           ss == [i \in DOMAIN t |-> Encoded(t[i])]
<1>1. t \in Seq({"plain", "wide", "separator"})
  BY JournalFileAssumption DEF Events
<1>2. m \in Nat /\ DOMAIN t = 1..m /\ \A i \in DOMAIN t : t[i] \in {"plain", "wide", "separator"}
  BY <1>1
<1>3. Body(e) = FlattenSeq(ss)
  BY DEF Body
<1>4. ASSUME NEW i \in DOMAIN t
      PROVE  /\ Encoded(t[i]) \in Seq([byte : Inner])
             /\ t[i] = "plain" => Encoded(t[i]) \in Seq([byte : {"plain"}])
  <2>1. CASE t[i] = "plain"
    <3>1. Byte("plain") \in [byte : Inner] /\ Byte("plain") \in [byte : {"plain"}]
      BY DEF Byte, Inner
    <3> HIDE DEF t
    <3> QED BY <2>1, <3>1 DEF Encoded
  <2>2. CASE t[i] # "plain"
    <3>1. Byte("lead") \in [byte : Inner] /\ Byte(t[i]) \in [byte : Inner]
      BY <1>2 DEF Byte, Inner
    <3> HIDE DEF t
    <3> QED BY <2>2, <3>1 DEF Encoded
  <2> QED BY <2>1, <2>2
<1> HIDE DEF t, m
<1>5. ss \in [1..m -> Seq([byte : Inner])]
  BY <1>2, <1>4
<1>6. ASSUME Range(t) \subseteq {"plain"} PROVE ss \in [1..m -> Seq([byte : {"plain"}])]
  <2>1. \A i \in DOMAIN t : t[i] = "plain"
    BY <1>6 DEF Range
  <2> QED BY <1>2, <1>4, <2>1
<1> HIDE DEF ss
<1>7. FlattenSeq(ss) \in Seq([byte : Inner])
  BY <1>2, <1>5, FlattenType
<1>8. Range(t) \subseteq {"plain"} => FlattenSeq(ss) \in Seq([byte : {"plain"}])
  BY <1>2, <1>6, FlattenType
<1> QED BY <1>3, <1>7, <1>8 DEF t

LEMMA LineShape ==
  ASSUME NEW e \in Events
  PROVE  /\ Line(e) \in Seq(Bytes) /\ Len(Line(e)) \in Nat /\ Len(Line(e)) >= 2
         /\ Line(e)[1] = Opening(e) /\ Line(e)[1].byte = "open"
         /\ Line(e)[Len(Line(e))].byte = "close"
         /\ \A k \in 2..Len(Line(e)) - 1 : Line(e)[k].byte \in Inner
         /\ Range(e.text) \subseteq {"plain"} =>
              \A k \in 2..Len(Line(e)) - 1 : Line(e)[k].byte = "plain"
<1> DEFINE o == Opening(e)
           b == Body(e)
           c == Byte("close")
           m == Len(b)
<1>1. Line(e) = <<o>> \o b \o <<c>>
  BY DEF Line, Body
<1>2. b \in Seq([byte : Inner])
      /\ (Range(e.text) \subseteq {"plain"} => b \in Seq([byte : {"plain"}]))
  BY BodyBytes
<1>3. o \in Bytes /\ o.byte = "open" /\ c \in Bytes /\ c.byte = "close"
  BY DEF Opening, Byte, Bytes, Events
<1>4. [byte : Inner] \subseteq Bytes
  BY DEF Inner, Bytes
<1> HIDE DEF o, b, c
<1>5. m \in Nat /\ \A k \in 1..m : b[k] \in [byte : Inner] /\ b[k].byte \in Inner
  <2>1. m \in Nat /\ \A k \in 1..m : b[k] \in [byte : Inner]
    BY <1>2, LenProperties, ElementOfSeq
  <2> QED BY <2>1
<1>6. b \in Seq(Bytes)
  BY <1>2, <1>4, SeqMonotonic
<1>7. /\ Line(e) \in Seq(Bytes) /\ Len(Line(e)) = m + 2
      /\ Line(e)[1] = o /\ Line(e)[m + 2] = c
      /\ \A k \in 2..m + 1 : Line(e)[k] = b[k - 1]
  <2> HIDE DEF m
  <2> DEFINE p == <<o>> \o b
  <2>0. Len(b) = m
    BY DEF m
  <2>1. p \in Seq(Bytes) /\ Len(p) = m + 1 /\ p[1] = o /\ \A k \in 2..m + 1 : p[k] = b[k - 1]
    BY <1>3, <1>5, <1>6, <2>0
  <2>2. Line(e) = p \o <<c>>
    BY <1>1
  <2> HIDE DEF p
  <2> QED BY <1>3, <1>5, <2>1, <2>2
<1>8. Range(e.text) \subseteq {"plain"} => \A k \in 1..m : b[k].byte = "plain"
  <2> SUFFICES ASSUME Range(e.text) \subseteq {"plain"}, NEW k \in 1..m PROVE b[k].byte = "plain"
    OBVIOUS
  <2>1. b \in Seq([byte : {"plain"}])
    BY <1>2
  <2>2. b[k] \in [byte : {"plain"}]
    BY <2>1, ElementOfSeq
  <2> QED BY <2>2
<1> HIDE DEF m
<1>9. \A k \in 2..(m + 2) - 1 : k \in 2..m + 1 /\ k - 1 \in 1..m
  BY <1>5
<1>10. \A k \in 2..(m + 2) - 1 : Line(e)[k] = b[k - 1] /\ b[k - 1].byte \in Inner
  BY <1>5, <1>7, <1>9
<1>11. Range(e.text) \subseteq {"plain"} => \A k \in 2..(m + 2) - 1 : b[k - 1].byte = "plain"
  BY <1>8, <1>9
<1>12. Len(Line(e)) \in Nat /\ Len(Line(e)) >= 2 /\ Line(e)[Len(Line(e))].byte = "close"
  BY <1>3, <1>5, <1>7
<1> QED BY <1>3, <1>7, <1>10, <1>11, <1>12 DEF o

-----------------------------------------------------------------------------
(* What is in journal.jsonl *)

\* The line of event e begins at byte i.
Placed(i, e) ==
  /\ i + Len(Line(e)) - 1 <= Len(journal)
  /\ \A k \in 1..Len(Line(e)) : journal[i + k - 1] = Line(e)[k]

\* An opening brace begins the line of an event, or the torn one.
OpeningOK(i) ==
  \/ \E k \in DOMAIN events : Placed(i, events[k])
  \/ crashed /\ \A j \in i..Len(journal) : journal[j].byte # "close"

\* The line of an event begins where a line begins, and is ended, unless it is the torn one.
LineOK(k) ==
  \/ crashed /\ k = Len(events)
  \/ \E i \in DOMAIN journal :
       /\ Placed(i, events[k])
       /\ i = 1 \/ journal[i - 1].byte = "newline"
       /\ i + Len(Line(events[k])) <= Len(journal)
       /\ journal[i + Len(Line(events[k]))].byte = "newline"

\* The inductive invariant.  What is appended next begins a line; of ASCII texts no byte is
\* the first of a longer character.
JournalInv ==
  /\ JTypeOK
  /\ \A i \in DOMAIN journal : journal[i].byte = "open" => OpeningOK(i)
  /\ \A k \in DOMAIN events : LineOK(k)
  /\ ~crashed /\ journal # <<>> => journal[Len(journal)].byte = "newline"
  /\ TextsAreIn({"plain"}) => \A i \in DOMAIN journal : journal[i].byte # "lead"

LEMMA JournalTypes ==
  ASSUME JTypeOK
  PROVE  /\ events \in Seq(Events) /\ Len(events) \in Nat /\ DOMAIN events = 1..Len(events)
         /\ \A k \in DOMAIN events : events[k] \in Events /\ events[k].sequence = k - 1
         /\ journal \in Seq(Bytes) /\ Len(journal) \in Nat /\ DOMAIN journal = 1..Len(journal)
<1>1. events \in Seq(Events) /\ journal \in Seq(Bytes)
  BY DEF JTypeOK, Events, Bytes
<1>2. Len(events) \in Nat /\ DOMAIN events = 1..Len(events)
      /\ \A k \in DOMAIN events : events[k] \in Events
  BY <1>1, LenProperties, ElementOfSeq
<1>3. Len(journal) \in Nat /\ DOMAIN journal = 1..Len(journal)
  BY <1>1, LenProperties
<1> QED BY <1>1, <1>2, <1>3 DEF JTypeOK

LEMMA PlacedStays ==
  ASSUME NEW e \in Events, NEW i \in Nat \ {0}, Placed(i, e),
         Len(journal) \in Nat, Len(journal') \in Nat, Len(journal) <= Len(journal'),
         \A k \in 1..Len(journal) : journal'[k] = journal[k]
  PROVE  Placed(i, e)'
<1> DEFINE W == Line(e)
           w == Len(W)
<1>1. w \in Nat
  BY LineShape
<1>2. i + w - 1 <= Len(journal) /\ \A k \in 1..w : journal[i + k - 1] = W[k]
  BY DEF Placed
<1> HIDE DEF w, W
<1>3. \A k \in 1..w : i + k - 1 \in 1..Len(journal)
  BY <1>1, <1>2
<1>4. i + w - 1 <= Len(journal') /\ \A k \in 1..w : journal'[i + k - 1] = W[k]
  BY <1>1, <1>2, <1>3
<1> QED BY <1>4 DEF Placed, w, W

\* The bytes of an event's line are appended, with the newline or up to any of them.
LEMMA AppendBytes ==
  ASSUME JournalInv, ~crashed, crashed' \in BOOLEAN,
         NEW L \in Nat, L = Len(journal), NEW N \in Nat, N = Len(events),
         NEW e \in Events, e.sequence = N, events' = Append(events, e),
         NEW q \in Nat, q <= Len(Line(e)) + 1, ~crashed' => q = Len(Line(e)) + 1,
         journal' \in Seq(Bytes), Len(journal') = L + q,
         \A k \in 1..L : journal'[k] = journal[k],
         \A k \in 1..q : journal'[L + k] =
                           IF k <= Len(Line(e)) THEN Line(e)[k] ELSE Byte("newline")
  PROVE  JournalInv'
<1> DEFINE W == Line(e)
           w == Len(W)
<1>1. /\ w \in Nat /\ w >= 2 /\ W[1].byte = "open" /\ W[w].byte = "close"
      /\ \A k \in 2..w - 1 : W[k].byte \in Inner
      /\ Range(e.text) \subseteq {"plain"} => \A k \in 2..w - 1 : W[k].byte = "plain"
  BY LineShape
<1>2. /\ JTypeOK /\ L \in Nat /\ N \in Nat /\ DOMAIN journal = 1..L /\ DOMAIN events = 1..N
      /\ events \in Seq(Events)
      /\ \A k \in 1..N : events[k] \in Events /\ events[k].sequence = k - 1
  BY JournalTypes DEF JournalInv
<1>3. /\ events' \in Seq(Events) /\ Len(events') = N + 1 /\ DOMAIN events' = 1..(N + 1)
      /\ events'[N + 1] = e /\ \A k \in 1..N : events'[k] = events[k]
  BY <1>2, AppendProperties
<1>4. DOMAIN journal' = 1..(L + q) /\ Len(journal') = L + q
  BY LenProperties
<1>5. /\ \A k \in 1..L : journal'[k] = journal[k]
      /\ \A k \in 1..q : journal'[L + k] = IF k <= w THEN W[k] ELSE Byte("newline")
      /\ q <= w + 1 /\ (~crashed' => q = w + 1)
  OBVIOUS
<1>6. Byte("newline").byte = "newline"
  BY DEF Byte
<1>7. ASSUME NEW i \in 1..L, NEW x \in Events, Placed(i, x) PROVE Placed(i, x)'
  BY <1>2, <1>4, <1>5, <1>7, PlacedStays
<1>8. w <= q => Placed(L + 1, e)'
  <2> SUFFICES ASSUME w <= q
               PROVE  /\ (L + 1) + w - 1 <= Len(journal')
                      /\ \A k \in 1..w : journal'[(L + 1) + k - 1] = W[k]
    BY DEF Placed
  <2>1. \A k \in 1..w : k \in 1..q /\ (L + 1) + k - 1 = L + k /\ k <= w
    BY <1>1, <1>2
  <2> HIDE DEF W, w
  <2> QED BY <1>1, <1>2, <1>4, <1>5, <2>1
<1>9. \A i \in 1..L : journal[i].byte = "open" => \E k \in 1..N : Placed(i, events[k])
  BY <1>2 DEF JournalInv, OpeningOK
<1>10. \A k \in 1..N : \E i \in 1..L :
          /\ Placed(i, events[k])
          /\ i = 1 \/ journal[i - 1].byte = "newline"
          /\ i + Len(Line(events[k])) <= L
          /\ journal[i + Len(Line(events[k]))].byte = "newline"
  BY <1>2 DEF JournalInv, LineOK
<1>11. L # 0 => journal[L].byte = "newline"
  <2>1. L # 0 => journal # <<>>
    BY EmptySeq
  <2> QED BY <2>1 DEF JournalInv
<1>12. TextsAreIn({"plain"}) => \A i \in 1..L : journal[i].byte # "lead"
  BY <1>2 DEF JournalInv
<1> HIDE DEF W, w
<1>13. JTypeOK'
  <2>1. \A k \in 1..(N + 1) : events'[k].sequence = k - 1
    <3> TAKE k \in 1..(N + 1)
    <3>1. k = N + 1 \/ k \in 1..N
      BY <1>2
    <3>2. e.sequence = (N + 1) - 1
      BY <1>2
    <3> QED BY <1>2, <1>3, <3>1, <3>2
  <2> QED BY <1>3, <2>1 DEF JTypeOK, Events, Bytes
<1>14. ASSUME NEW i \in 1..(L + q), journal'[i].byte = "open" PROVE OpeningOK(i)'
  <2>1. CASE i \in 1..L
    <3>1. PICK k \in 1..N : Placed(i, events[k])
      BY <1>5, <1>9, <1>14, <2>1
    <3>2. PICK x \in Events : x = events[k]
      BY <1>2
    <3>3. Placed(i, x)'
      BY <1>7, <2>1, <3>1, <3>2
    <3>4. events'[k] = x /\ k \in DOMAIN events'
      BY <1>2, <1>3, <3>2
    <3>5. Placed(i, events[k])'
      BY <3>3, <3>4 DEF Placed
    <3> QED BY <3>4, <3>5 DEF OpeningOK
  <2>2. CASE i \notin 1..L
    <3>1. PICK j \in 1..q : i = L + j
      <4>1. i - L \in 1..q /\ i = L + (i - L)
        BY <1>2, <2>2
      <4> QED BY <4>1
    <3>2. journal'[i] = IF j <= w THEN W[j] ELSE Byte("newline")
      BY <1>5, <3>1
    <3>3. j <= w /\ W[j].byte = "open"
      BY <1>6, <1>14, <3>2
    <3>4. j = 1
      <4>1. j = 1 \/ j = w \/ j \in 2..w - 1
        BY <1>1, <3>3
      <4> QED BY <1>1, <3>3, <4>1 DEF Inner
    <3>5. CASE w <= q
      <4>1. Placed(i, e)'
        BY <1>8, <3>1, <3>4, <3>5
      <4>2. events'[N + 1] = e /\ N + 1 \in DOMAIN events'
        BY <1>2, <1>3
      <4>3. \E k \in DOMAIN events' : Placed(i, events[k])'
        BY <4>1, <4>2 DEF Placed
      <4> QED BY <4>2, <4>3 DEF OpeningOK
    <3>6. CASE ~(w <= q)
      <4>1. crashed'
        BY <1>1, <1>5, <3>6
      <4>2. ASSUME NEW m \in i..(L + q) PROVE journal'[m].byte # "close"
        <5>1. PICK n \in 1..q : m = L + n
          <6>1. m - L \in 1..q /\ m = L + (m - L)
            BY <3>1
          <6> QED BY <6>1
        <5>2. n <= w /\ n # w /\ n \in Nat
          BY <1>1, <3>6
        <5>3. journal'[m] = W[n]
          BY <1>5, <5>1, <5>2
        <5>4. n = 1 \/ n \in 2..w - 1
          BY <1>1, <5>2
        <5> QED BY <1>1, <5>3, <5>4 DEF Inner
      <4> QED BY <1>4, <4>1, <4>2 DEF OpeningOK
    <3> QED BY <3>5, <3>6
  <2> QED BY <2>1, <2>2
<1>15. ASSUME NEW k \in 1..(N + 1) PROVE LineOK(k)'
  <2>1. CASE k \in 1..N
    <3>1. PICK x \in Events : x = events[k]
      BY <1>2, <2>1
    <3>2. PICK i \in 1..L :
            /\ Placed(i, x)
            /\ i = 1 \/ journal[i - 1].byte = "newline"
            /\ i + Len(Line(x)) <= L
            /\ journal[i + Len(Line(x))].byte = "newline"
      BY <1>10, <2>1, <3>1
    <3>3. Placed(i, x)'
      <4>1. Placed(i, x)
        BY <3>2
      <4> QED BY <1>7, <4>1
    <3>4. events'[k] = x
      BY <1>3, <2>1, <3>1
    <3>5. Len(Line(x)) \in Nat
      BY LineShape
    <3>6. /\ i \in 1..(L + q) /\ (i # 1 => i - 1 \in 1..L)
          /\ i + Len(Line(x)) \in 1..L /\ i + Len(Line(x)) <= L + q
      BY <1>2, <3>2, <3>5
    <3>7. /\ i = 1 \/ journal'[i - 1].byte = "newline"
          /\ i + Len(Line(x)) <= Len(journal')
          /\ journal'[i + Len(Line(x))].byte = "newline"
      BY <1>4, <1>5, <3>2, <3>6
    <3>8. Placed(i, events[k])'
      BY <3>3, <3>4 DEF Placed
    <3>9. /\ i = 1 \/ journal'[i - 1].byte = "newline"
          /\ i + Len(Line(events'[k])) <= Len(journal')
          /\ journal'[i + Len(Line(events'[k]))].byte = "newline"
      BY <3>4, <3>7
    <3> QED BY <1>4, <3>6, <3>8, <3>9 DEF LineOK
  <2>2. CASE k = N + 1 /\ crashed'
    BY <1>3, <2>2 DEF LineOK
  <2>3. CASE k = N + 1 /\ ~crashed'
    <3>1. q = w + 1 /\ w <= q
      BY <1>1, <1>5, <2>3
    <3>2. L + 1 \in 1..(L + q) /\ (L + 1) + w = L + q /\ q \in 1..q /\ ~(q <= w)
      BY <1>1, <1>2, <3>1
    <3>3. Placed(L + 1, e)'
      BY <1>8, <3>1
    <3>4. journal'[L + q] = Byte("newline")
      BY <1>5, <3>2
    <3>5. L + 1 = 1 \/ journal'[(L + 1) - 1].byte = "newline"
      <4>1. L # 0 => L \in 1..L
        BY <1>2
      <4> QED BY <1>2, <1>5, <1>11, <4>1
    <3>6. events'[k] = e
      BY <1>3, <2>3
    <3>7. PICK i \in 1..(L + q) : i = L + 1
      BY <3>2
    <3>8. /\ i + Len(Line(events'[k])) <= Len(journal')
          /\ journal'[i + Len(Line(events'[k]))].byte = "newline"
      <4>1. i + Len(Line(events'[k])) = L + q
        BY <3>2, <3>6, <3>7 DEF w, W
      <4>2. L + q <= Len(journal')
        BY <1>2, <1>4
      <4> QED BY <1>6, <3>4, <4>1, <4>2
    <3>9. Placed(i, e)'
      BY <3>3, <3>7
    <3>10. Placed(i, events[k])'
      BY <3>6, <3>9 DEF Placed
    <3> QED BY <1>4, <3>5, <3>7, <3>8, <3>10 DEF LineOK
  <2> QED BY <1>2, <2>1, <2>2, <2>3
<1>16. ASSUME ~crashed' PROVE journal'[Len(journal')].byte = "newline"
  <2>1. q = w + 1 /\ q \in 1..q /\ ~(q <= w)
    BY <1>1, <1>5, <1>16
  <2> QED BY <1>4, <1>5, <1>6, <2>1
<1>17. ASSUME TextsAreIn({"plain"})', NEW i \in 1..(L + q) PROVE journal'[i].byte # "lead"
  <2>1. Range(e.text) \subseteq {"plain"} /\ TextsAreIn({"plain"})
    <3>1. \A k \in 1..(N + 1) : Range(events'[k].text) \subseteq {"plain"}
      BY <1>3, <1>17 DEF TextsAreIn
    <3>2. N + 1 \in 1..(N + 1) /\ \A k \in 1..N : k \in 1..(N + 1)
      BY <1>2
    <3> QED BY <1>2, <1>3, <3>1, <3>2 DEF TextsAreIn
  <2>2. CASE i \in 1..L
    BY <1>5, <1>12, <2>1, <2>2
  <2>3. CASE i \notin 1..L
    <3>1. PICK j \in 1..q : i = L + j
      <4>1. i - L \in 1..q /\ i = L + (i - L)
        BY <2>3
      <4> QED BY <4>1
    <3>2. journal'[i] = IF j <= w THEN W[j] ELSE Byte("newline")
      BY <1>5, <3>1
    <3>3. CASE j <= w
      <4>1. j = 1 \/ j = w \/ j \in 2..w - 1
        BY <1>1, <3>3
      <4> QED BY <1>1, <2>1, <3>2, <3>3, <4>1
    <3>4. CASE ~(j <= w)
      BY <1>6, <3>2, <3>4
    <3> QED BY <3>3, <3>4
  <2> QED BY <2>2, <2>3
<1> QED BY <1>3, <1>4, <1>13, <1>14, <1>15, <1>16, <1>17 DEF JournalInv

LEMMA JournalInit == JInit => JournalInv
<1> SUFFICES ASSUME JInit PROVE JournalInv
  OBVIOUS
<1>1. events = <<>> /\ journal = <<>> /\ crashed = FALSE /\ DOMAIN <<>> = {}
  BY DEF JInit
<1>2. JTypeOK
  BY <1>1, EmptySeq DEF JTypeOK
<1> QED BY <1>1, <1>2 DEF JournalInv

LEMMA JournalStep ==
  ASSUME JournalInv, [JNext]_jvars
  PROVE  JournalInv'
<1>1. JTypeOK /\ events \in Seq(Events) /\ journal \in Seq(Bytes) /\ Len(events) \in Nat
      /\ Len(journal) \in Nat /\ crashed \in BOOLEAN
  BY JournalTypes DEF JournalInv, JTypeOK
<1>2. ASSUME NEW text \in Texts
      PROVE  /\ NextEvent(text) \in Events /\ NextEvent(text).sequence = Len(events)
             /\ Stored(NextEvent(text)) = Line(NextEvent(text)) \o <<Byte("newline")>>
  BY <1>1 DEF NextEvent, Events, Stored
<1>3. Byte("newline") \in Bytes
  BY DEF Byte, Bytes
<1>4. ASSUME NEW e \in Events
      PROVE  LET w == Len(Line(e))
                 s == Line(e) \o <<Byte("newline")>>
             IN  /\ w \in Nat /\ s \in Seq(Bytes) /\ Len(s) = w + 1
                 /\ \A k \in 1..w + 1 : s[k] = IF k <= w THEN Line(e)[k] ELSE Byte("newline")
  <2> DEFINE W == Line(e)
             w == Len(W)
             n == Byte("newline")
  <2>1. W \in Seq(Bytes) /\ w \in Nat /\ n \in Bytes
    BY <1>3, LineShape
  <2> HIDE DEF W, n
  <2>2. /\ W \o <<n>> \in Seq(Bytes) /\ Len(W \o <<n>>) = w + 1
        /\ \A k \in 1..w + 1 : (W \o <<n>>)[k] = IF k <= w THEN W[k] ELSE n
    BY <2>1
  <2> QED BY <2>1, <2>2 DEF W, n
<1>8. PICK L \in Nat, N \in Nat : L = Len(journal) /\ N = Len(events)
  BY <1>1
<1>9. PICK old \in Seq(Bytes) : old = journal
  BY <1>1
<1>5. ASSUME NEW text \in Texts, AppendEvent(text) PROVE JournalInv'
  <2>1. PICK e \in Events : e = NextEvent(text)
    BY <1>2
  <2>2. PICK q \in Nat : q = Len(Line(e)) + 1
    BY LineShape
  <2>3. PICK s \in Seq(Bytes) : s = Line(e) \o <<Byte("newline")>>
    BY <1>4
  <2>4. /\ events' = Append(events, e) /\ e.sequence = Len(events) /\ journal' = journal \o s
        /\ ~crashed /\ crashed' = crashed
    BY <1>2, <1>5, <2>1, <2>3 DEF AppendEvent
  <2>5. /\ Len(s) = q /\ Len(Line(e)) \in Nat
        /\ \A k \in 1..q : s[k] = IF k <= Len(Line(e)) THEN Line(e)[k] ELSE Byte("newline")
    BY <1>4, <2>2, <2>3
  <2>6. /\ journal' \in Seq(Bytes) /\ Len(journal') = L + q
        /\ \A k \in 1..L : journal'[k] = journal[k]
        /\ \A k \in 1..q : journal'[L + k] = s[k]
    <3>1. journal' = old \o s /\ Len(s) = q /\ Len(old) = L
      BY <1>8, <1>9, <2>4, <2>5
    <3>2. /\ old \o s \in Seq(Bytes) /\ Len(old \o s) = L + q
          /\ \A k \in 1..(L + q) : (old \o s)[k] = IF k <= L THEN old[k] ELSE s[k - L]
      BY <3>1, ConcatProperties
    <3>3. /\ \A k \in 1..L : k \in 1..(L + q) /\ k <= L
          /\ \A k \in 1..q : L + k \in 1..(L + q) /\ ~(L + k <= L) /\ (L + k) - L = k
      OBVIOUS
    <3> QED BY <1>9, <3>1, <3>2, <3>3
  <2>7. \A k \in 1..q : journal'[L + k] =
                          IF k <= Len(Line(e)) THEN Line(e)[k] ELSE Byte("newline")
    BY <2>5, <2>6
  <2>8. q <= Len(Line(e)) + 1 /\ (~crashed' => q = Len(Line(e)) + 1)
    BY <2>2, <2>5
  <2> QED BY <1>1, <1>8, <2>4, <2>6, <2>7, <2>8, AppendBytes
<1>6. ASSUME NEW text \in Texts, AppendTorn(text) PROVE JournalInv'
  <2>1. PICK e \in Events : e = NextEvent(text)
    BY <1>2
  <2>2. PICK s \in Seq(Bytes) : s = Line(e) \o <<Byte("newline")>>
    BY <1>4
  <2>3. s = Stored(NextEvent(text))
    BY <1>2, <2>1, <2>2
  <2>4. PICK q \in 0..Len(s) - 1 : journal' = journal \o SubSeq(s, 1, q)
    BY <1>6, <2>3 DEF AppendTorn
  <2>5. /\ Len(Line(e)) \in Nat /\ Len(s) = Len(Line(e)) + 1
        /\ \A k \in 1..Len(s) : s[k] = IF k <= Len(Line(e)) THEN Line(e)[k] ELSE Byte("newline")
    BY <1>4, <2>2
  <2>6. PICK p \in Seq(Bytes) : /\ p = SubSeq(s, 1, q) /\ Len(p) = q
                                /\ \A k \in 1..q : p[k] = s[k]
    <3>1. q \in Nat /\ q <= Len(s) /\ \A k \in 1..q : s[k] \in Bytes
      BY <2>5, ElementOfSeq
    <3>2. SubSeq(s, 1, q) \in Seq(Bytes) /\ Len(SubSeq(s, 1, q)) = q
          /\ \A k \in 1..q : SubSeq(s, 1, q)[k] = s[k]
      BY <2>5, <3>1
    <3> QED BY <3>2
  <2>7. /\ journal' \in Seq(Bytes) /\ Len(journal') = L + q
        /\ \A k \in 1..L : journal'[k] = journal[k]
        /\ \A k \in 1..q : journal'[L + k] = p[k]
    <3>1. journal' = old \o p /\ Len(p) = q /\ Len(old) = L
      BY <1>8, <1>9, <2>4, <2>6
    <3>2. /\ old \o p \in Seq(Bytes) /\ Len(old \o p) = L + q
          /\ \A k \in 1..(L + q) : (old \o p)[k] = IF k <= L THEN old[k] ELSE p[k - L]
      BY <3>1, ConcatProperties
    <3>3. /\ \A k \in 1..L : k \in 1..(L + q) /\ k <= L
          /\ \A k \in 1..q : L + k \in 1..(L + q) /\ ~(L + k <= L) /\ (L + k) - L = k
      OBVIOUS
    <3>4. \A k \in 1..L : (old \o p)[k] = old[k]
      BY <3>2, <3>3
    <3>5. \A k \in 1..q : (old \o p)[L + k] = p[k]
      <4> SUFFICES ASSUME NEW k \in 1..q PROVE (old \o p)[L + k] = p[k]
        OBVIOUS
      <4> QED BY <3>2, <3>3
    <3> QED BY <1>9, <3>1, <3>2, <3>4, <3>5
  <2>8. /\ q \in Nat /\ q <= Len(Line(e)) + 1
        /\ \A k \in 1..q : journal'[L + k] =
                             IF k <= Len(Line(e)) THEN Line(e)[k] ELSE Byte("newline")
    BY <2>5, <2>6, <2>7
  <2>9. /\ events' = Append(events, e) /\ e.sequence = Len(events)
        /\ ~crashed /\ crashed' = TRUE
    BY <1>2, <1>6, <2>1 DEF AppendTorn
  <2> QED BY <1>8, <2>7, <2>8, <2>9, AppendBytes
<1>7. CASE UNCHANGED jvars
  <2>1. events' = events /\ journal' = journal /\ crashed' = crashed
    BY <1>7 DEF jvars
  <2>2. JTypeOK' /\ (TextsAreIn({"plain"})' <=> TextsAreIn({"plain"}))
    BY <1>1, <2>1 DEF JTypeOK, TextsAreIn
  <2>3. ASSUME NEW i, OpeningOK(i) PROVE OpeningOK(i)'
    BY <2>1, <2>3 DEF OpeningOK, Placed
  <2>4. ASSUME NEW k, LineOK(k) PROVE LineOK(k)'
    BY <2>1, <2>4 DEF LineOK, Placed
  <2> QED BY <2>1, <2>2, <2>3, <2>4 DEF JournalInv
<1> QED BY <1>5, <1>6, <1>7 DEF JNext

-----------------------------------------------------------------------------
(* Reading it back *)

\* A line that is an event is the line of one of the events.
LEMMA ReadIsWritten ==
  ASSUME JournalInv, NEW line \in Lines, IsEvent(line)
  PROVE  \E k \in DOMAIN events : line = Line(events[k])
<1>1. /\ DOMAIN journal = 1..Len(journal) /\ Len(journal) \in Nat /\ journal \in Seq(Bytes)
      /\ \A k \in DOMAIN events : events[k] \in Events
  BY JournalTypes DEF JournalInv
<1>2. PICK a \in DOMAIN journal, b \in DOMAIN journal : a <= b /\ line = SubSeq(journal, a, b)
  BY DEF Lines
<1>3. a \in Nat /\ b \in Nat /\ 1 <= a /\ b <= Len(journal)
  BY <1>1
<1> DEFINE n == b - a + 1
<1>4. /\ line \in Seq(Bytes) /\ Len(line) = n
      /\ \A m \in 1..n : line[m] = journal[a + m - 1]
  <2>1. \A m \in a..b : journal[m] \in Bytes
    BY <1>1, <1>3, ElementOfSeq
  <2>2. \A m \in 1..n : a + m - 1 \in 1..Len(journal)
    BY <1>1, <1>3
  <2> QED BY <1>1, <1>2, <1>3, <2>1, <2>2
<1>5. n \in Nat /\ n >= 1
  BY <1>2, <1>3
<1>6. /\ journal[a].byte = "open" /\ journal[b].byte = "close"
      /\ \A m \in 2..n - 1 : line[m].byte \notin {"open", "close"}
  <2>1. line[1].byte = "open" /\ line[n].byte = "close"
        /\ \A m \in 2..n - 1 : line[m].byte \notin {"open", "close"}
    BY <1>4 DEF IsEvent
  <2>2. 1 \in 1..n /\ n \in 1..n /\ a + 1 - 1 = a /\ a + n - 1 = b
    BY <1>3, <1>5
  <2> QED BY <1>4, <2>1, <2>2
<1> HIDE DEF n
<1>7. OpeningOK(a)
  BY <1>6 DEF JournalInv
<1>8. ~(\A j \in a..Len(journal) : journal[j].byte # "close")
  <2>1. b \in a..Len(journal)
    BY <1>1, <1>2, <1>3
  <2> QED BY <1>6, <2>1
<1>9. PICK k \in DOMAIN events : Placed(a, events[k])
  BY <1>7, <1>8 DEF OpeningOK
<1>10. PICK e \in Events : e = events[k]
  BY <1>1
<1> DEFINE W == Line(e)
           w == Len(W)
<1>11. a + w - 1 <= Len(journal) /\ \A m \in 1..w : journal[a + m - 1] = W[m]
  BY <1>9, <1>10 DEF Placed
<1>12. /\ W \in Seq(Bytes) /\ w \in Nat /\ w >= 2 /\ W[w].byte = "close"
       /\ \A m \in 2..w - 1 : W[m].byte \in Inner
  BY LineShape
<1> HIDE DEF W, w
<1>13. n = w
  <2>0. a # b
    BY <1>6
  <2>1. n >= 2 /\ a + n - 1 = b
    BY <1>2, <1>3, <2>0 DEF n
  <2>2. ~(n < w)
    <3> SUFFICES ASSUME n < w PROVE FALSE
      OBVIOUS
    <3>1. n \in 1..w /\ n \in 2..w - 1
      BY <1>5, <1>12, <2>1
    <3>2. journal[b] = W[n] /\ W[n].byte \in Inner
      BY <1>11, <1>12, <2>1, <3>1
    <3> QED BY <1>6, <3>2 DEF Inner
  <2>3. ~(w < n)
    <3> SUFFICES ASSUME w < n PROVE FALSE
      OBVIOUS
    <3>1. w \in 1..n /\ w \in 2..n - 1 /\ w \in 1..w
      BY <1>5, <1>12
    <3>2. line[w] = W[w]
      BY <1>4, <1>11, <3>1
    <3> QED BY <1>6, <1>12, <3>1, <3>2
  <2> QED BY <1>5, <1>12, <2>2, <2>3
<1>14. line = W
  <2>1. Len(line) = Len(W) /\ \A m \in 1..Len(line) : line[m] = W[m]
    BY <1>4, <1>11, <1>13 DEF w
  <2> QED BY <1>4, <1>12, <2>1, SeqEqual
<1> QED BY <1>10, <1>14 DEF W

\* The line of an event whose text is ASCII is one of the lines, unless it is the torn one.
LEMMA WrittenIsRead ==
  ASSUME JournalInv, NEW k \in DOMAIN events, ~(crashed /\ k = Len(events)),
         Range(events[k].text) \subseteq {"plain"}
  PROVE  Line(events[k]) \in Lines /\ IsEvent(Line(events[k]))
<1>1. /\ DOMAIN journal = 1..Len(journal) /\ Len(journal) \in Nat /\ journal \in Seq(Bytes)
      /\ events[k] \in Events
  BY JournalTypes DEF JournalInv
<1>2. PICK e \in Events : e = events[k]
  BY <1>1
<1> DEFINE W == Line(e)
           w == Len(W)
<1>3. PICK i \in DOMAIN journal :
        /\ Placed(i, e)
        /\ i = 1 \/ journal[i - 1].byte = "newline"
        /\ i + w <= Len(journal)
        /\ journal[i + w].byte = "newline"
  BY <1>2 DEF JournalInv, LineOK
<1>4. \A m \in 1..w : journal[i + m - 1] = W[m]
  BY <1>3 DEF Placed
<1>5. /\ W \in Seq(Bytes) /\ w \in Nat /\ w >= 2 /\ W[1].byte = "open" /\ W[w].byte = "close"
      /\ \A m \in 2..w - 1 : W[m].byte = "plain"
  BY <1>2, LineShape
<1> HIDE DEF W, w
<1>6. i \in Nat /\ 1 <= i
  BY <1>1
<1>0. PICK z \in Nat : z = i + w - 1
  <2>1. i + w - 1 \in Nat
    BY <1>5, <1>6
  <2> QED BY <2>1
<1>7. z \in Nat /\ i <= z /\ z + 1 = i + w /\ z + 1 <= Len(journal) /\ z \in DOMAIN journal
  BY <1>0, <1>1, <1>3, <1>5, <1>6
<1>8. SubSeq(journal, i, z) = W
  <2>1. \A m \in i..z : journal[m] \in Bytes
    BY <1>1, <1>6, <1>7, ElementOfSeq
  <2>2. /\ SubSeq(journal, i, z) \in Seq(Bytes) /\ Len(SubSeq(journal, i, z)) = w
        /\ \A m \in 1..w : SubSeq(journal, i, z)[m] = journal[i + m - 1]
    <3>1. z - i + 1 = w
      BY <1>0, <1>5, <1>6
    <3>2. z - i + 1 >= 1 /\ i \in Int /\ z \in Int
      BY <1>6, <1>7
    <3>3. /\ SubSeq(journal, i, z) \in Seq(Bytes)
          /\ Len(SubSeq(journal, i, z)) = z - i + 1
          /\ \A m \in 1..z - i + 1 : SubSeq(journal, i, z)[m] = journal[i + m - 1]
      <4>1. PICK old \in Seq(Bytes) : old = journal
        BY <1>1
      <4>2. \A m \in i..z : old[m] \in Bytes
        BY <2>1, <4>1
      <4>3. /\ SubSeq(old, i, z) \in Seq(Bytes)
            /\ Len(SubSeq(old, i, z)) = IF i <= z THEN z - i + 1 ELSE 0
            /\ \A m \in 1..z - i + 1 : SubSeq(old, i, z)[m] = old[i + m - 1]
        BY <3>2, <4>2, SubSeqProperties
      <4> QED BY <1>7, <4>1, <4>3
    <3> QED BY <3>1, <3>3
  <2>3. Len(SubSeq(journal, i, z)) = Len(W)
        /\ \A m \in 1..Len(SubSeq(journal, i, z)) : SubSeq(journal, i, z)[m] = W[m]
    BY <1>4, <2>2 DEF w
  <2> QED BY <1>5, <2>2, <2>3, SeqEqual
<1>9. \A m \in 1..w : W[m].byte \in {"open", "plain", "close"}
  <2>1. \A m \in 1..w : m = 1 \/ m = w \/ m \in 2..w - 1
    BY <1>5
  <2> QED BY <1>5, <2>1
<1>10. ASSUME NEW m \in i..z PROVE ~EndsLine(journal[m])
  <2>1. PICK j \in 1..w : m = i + j - 1
    <3>1. m \in Nat /\ i <= m /\ m <= i + w - 1
      BY <1>0, <1>5, <1>6
    <3>2. m - i + 1 \in 1..w /\ m = i + (m - i + 1) - 1
      BY <1>5, <1>6, <3>1
    <3> QED BY <3>2
  <2> QED BY <1>4, <1>9, <2>1 DEF EndsLine
<1>11. i = 1 \/ EndsLine(journal[i - 1])
  BY <1>3 DEF EndsLine
<1>12. EndsLine(journal[z + 1])
  BY <1>3, <1>7 DEF EndsLine
<1>13. W \in Lines
  <2> DEFINE Cut == {ij \in (DOMAIN journal) \X (DOMAIN journal) :
                      /\ ij[1] <= ij[2]
                      /\ \A m \in ij[1]..ij[2] : ~EndsLine(journal[m])
                      /\ ij[1] = 1 \/ EndsLine(journal[ij[1] - 1])
                      /\ ij[2] = Len(journal) \/ EndsLine(journal[ij[2] + 1])}
  <2>1. <<i, z>> \in Cut
    BY <1>7, <1>10, <1>11, <1>12
  <2>2. Lines = {SubSeq(journal, ij[1], ij[2]) : ij \in Cut}
    BY DEF Lines
  <2> HIDE DEF Cut
  <2> QED BY <1>8, <2>1, <2>2
<1>14. IsEvent(W)
  BY <1>5 DEF IsEvent, w
<1> QED BY <1>2, <1>13, <1>14 DEF W

LEMMA ReadSequence ==
  ASSUME NEW e \in Events
  PROVE  Line(e)[1].sequence = e.sequence
<1>1. Line(e)[1] = Opening(e)
  BY LineShape
<1> QED BY <1>1 DEF Opening

\* Whatever the texts hold, what is read back was written.
LEMMA ReadsOnlyWritten ==
  ASSUME JournalInv, NEW after
  PROVE  ReadEvents(after) \subseteq Written(after)
<1> SUFFICES ASSUME NEW line \in ReadEvents(after) PROVE line \in Written(after)
  OBVIOUS
<1>1. line \in Lines /\ IsEvent(line) /\ line[1].sequence > after
  BY DEF ReadEvents
<1>2. PICK k \in DOMAIN events : line = Line(events[k])
  BY <1>1, ReadIsWritten
<1>3. events[k] \in Events
  BY JournalTypes DEF JournalInv
<1>4. events[k].sequence > after
  <2>1. PICK e \in Events : e = events[k]
    BY <1>3
  <2> QED BY <1>1, <1>2, <2>1, ReadSequence
<1> QED BY <1>2, <1>4 DEF Written

\* JournalInv holds in every reachable state of the journal file.
THEOREM JournalInvariant == JSpec => []JournalInv
  BY JournalInit, JournalStep, PTL DEF JSpec

\* What read_events returns was written, and comes after the number asked for.
THEOREM ReadBackIsWritten == JSpec => []ReadsWhatWasWritten
<1>1. ASSUME JournalInv PROVE ReadsWhatWasWritten
  <2>1. JTypeOK
    BY <1>1 DEF JournalInv
  <2> QED BY <1>1, <2>1, ReadsOnlyWritten DEF ReadsWhatWasWritten
<1> QED BY JournalInvariant, <1>1, PTL

\* A crash in the middle of a line of ASCII text costs that event and no other.
THEOREM TornLinesCostOneEvent == JSpec => []TornLineCostsOneEvent
<1>1. ASSUME JournalInv, TextsAreIn({"plain"}) PROVE AllButTheTornLine
  <2>1. /\ Len(events) \in Nat /\ DOMAIN events = 1..Len(events)
        /\ \A k \in DOMAIN events : events[k] \in Events /\ events[k].sequence = k - 1
        /\ DOMAIN journal = 1..Len(journal) /\ Len(journal) \in Nat /\ journal \in Seq(Bytes)
    BY <1>1, JournalTypes DEF JournalInv
  <2>2. Decodes
    <3>1. CASE journal = <<>>
      BY <3>1 DEF Decodes
    <3>2. CASE journal # <<>>
      <4>1. Len(journal) \in DOMAIN journal
        BY <2>1, <3>2, EmptySeq
      <4> QED BY <1>1, <4>1 DEF Decodes, JournalInv, Last
    <3> QED BY <3>1, <3>2
  <2>3. ReadEvents(-1) \subseteq Written(-1)
    BY <1>1, ReadsOnlyWritten
  <2>4. ASSUME NEW k \in DOMAIN events, ~(crashed /\ k = Len(events))
        PROVE  Line(events[k]) \in ReadEvents(-1)
    <3>1. Line(events[k]) \in Lines /\ IsEvent(Line(events[k]))
      BY <1>1, <2>4, WrittenIsRead DEF TextsAreIn
    <3>2. PICK e \in Events : e = events[k] /\ e.sequence \in Nat
      BY <2>1 DEF Events
    <3>3. Line(e)[1].sequence > -1
      BY <3>2, ReadSequence
    <3> QED BY <3>1, <3>2, <3>3 DEF ReadEvents
  <2>5. \A line \in Written(-1) : \E k \in DOMAIN events : line = Line(events[k])
    BY DEF Written
  <2>6. CASE ~crashed
    BY <2>2, <2>3, <2>4, <2>5, <2>6 DEF AllButTheTornLine
  <2>7. CASE crashed
    <3>1. \A line \in Written(-1) : line # Line(events[Len(events)]) => line \in ReadEvents(-1)
      BY <2>4, <2>5
    <3>2. ReadEvents(-1) = Written(-1)
          \/ ReadEvents(-1) = Written(-1) \ {Line(events[Len(events)])}
      BY <2>3, <3>1
    <3> QED BY <2>2, <2>7, <3>2 DEF AllButTheTornLine, Last
  <2> QED BY <2>6, <2>7
<1>2. JournalInv => TornLineCostsOneEvent
  BY <1>1 DEF TornLineCostsOneEvent
<1> QED BY JournalInvariant, <1>2, PTL
=============================================================================
