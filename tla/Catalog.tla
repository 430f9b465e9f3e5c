------------------------------ MODULE Catalog ------------------------------
(***************************************************************************)
(* The model catalog (catalog/service.py, store.py, client.py): processes  *)
(* that share a directory of snapshots, each with a CatalogService and its *)
(* cache.  A sync fetches the models and saves them as a snapshot named    *)
(* after the second; current, called in a worker thread for every listing, *)
(* takes the cache, the newest snapshot or the bundled fixture.            *)
(*                                                                         *)
(* OpenRouter's list of models changes over time: content n is Upstream[n] *)
(* wherever it is held.  Entries that do not validate are Bad.             *)
(***************************************************************************)
EXTENDS CatalogQuery

CONSTANTS
  Procs,      \* the server processes, and the command line, which only runs sync
  Servers,
  Syncs,      \* tasks that run sync, in any of them
  Threads,    \* threads that run current, in any of them
  Upstream,   \* sequence of the lists OpenRouter has
  Bad,        \* an entry that OpenRouterModel rejects
  Fixture,    \* the bundled state
  Bundled,    \* its models
  None,
  Torn,       \* the content of a file that is not JSON
  MaxTime,    \* bound on the seconds that pass
  Criteria    \* of the listings asked for

Contents  == DOMAIN Upstream
Times     == 1..MaxTime
Snapshots == [id : Times, content : Contents]

ASSUME CatalogAssumption ==
  /\ MaxTime \in Nat \ {0}
  /\ Len(Upstream) \in Nat \ {0} /\ Contents = 1..Len(Upstream)
  /\ {Torn, None} \cap Contents = {} /\ Torn # None
  /\ {Fixture, None} \cap Snapshots = {} /\ Fixture # None
  /\ Servers \subseteq Procs /\ None \notin Procs \cup Times
  /\ Syncs \cap Threads = {}

\* What validates has the fields of a model, and a request the criteria of a listing.
IsList(list) == Len(list) \in Nat /\ DOMAIN list = 1..Len(list)

ASSUME ListingAssumption ==
  /\ \A n \in Contents :
       IsList(Upstream[n]) /\ \A i \in DOMAIN Upstream[n] : Upstream[n][i] = Bad \/ IsModel(Upstream[n][i])
  /\ IsList(Bundled) /\ \A i \in DOMAIN Bundled : IsModel(Bundled[i])
  /\ \A c \in Criteria : c.sort \in SortKeys /\ c.price \in Int \cup {NotGiven}

VARIABLES
  now, upstream,
  files,     \* per second: the content of snapshot-<id>.json, or None
  temp,      \* per second: the content of snapshot-<id>.partial, or None
  cache,     \* per server: CatalogService._cache: a snapshot, Fixture or None
  stage,     \* per sync: "idle", "fetched", "opened", "written"
  home,      \* per sync and thread: its process, None when idle
  fetched,   \* per sync: the content it was sent
  stamp,     \* per sync: snapshot_id
  target,    \* per sync: its open file is now "temp", "file", or "gone"
  phase,     \* per thread: "idle", "loading", "storing"
  found,     \* per thread: what it has loaded
  savers,    \* history, per second: the saves begun in it: 0, 1, or 2 for more
  synced,    \* history, per server: the snapshot it stored last, or None
  overtaken  \* history: servers that stored it while a thread was loading

world   == <<now, upstream>>
disk    == <<files, temp>>
sync    == <<stage, fetched, stamp, target>>
threads == <<phase, found>>
history == <<savers, synced, overtaken>>
vars    == <<world, disk, cache, sync, home, threads, history>>

Init ==
  /\ now = 1 /\ upstream = 1
  /\ files = [i \in Times |-> None] /\ temp = [i \in Times |-> None]
  /\ cache = [p \in Servers |-> None]
  /\ stage = [s \in Syncs |-> "idle"]
  /\ home = [x \in Syncs \cup Threads |-> None]
  /\ fetched = [s \in Syncs |-> None]
  /\ stamp = [s \in Syncs |-> None]
  /\ target = [s \in Syncs |-> "gone"]
  /\ phase = [t \in Threads |-> "idle"]
  /\ found = [t \in Threads |-> None]
  /\ savers = [i \in Times |-> 0]
  /\ synced = [p \in Servers |-> None]
  /\ overtaken = {}

Tick ==
  /\ now < MaxTime
  /\ now' = now + 1
  /\ UNCHANGED <<upstream, disk, cache, sync, home, threads, history>>

Change ==
  /\ upstream < Len(Upstream)
  /\ upstream' = upstream + 1
  /\ UNCHANGED <<now, disk, cache, sync, home, threads, history>>

\* What fetch_models and _read keep of a list.
Parsed(list) == Kept(list, {i \in DOMAIN list : list[i] # Bad})

Models(snapshot) ==
  IF snapshot = Fixture THEN Bundled ELSE Parsed(Upstream[snapshot.content])

-----------------------------------------------------------------------------
(* sync *)

\* The variables of a sync that has ended.
Over(s) ==
  /\ stage' = [stage EXCEPT ![s] = "idle"]
  /\ home' = [home EXCEPT ![s] = None]
  /\ fetched' = [fetched EXCEPT ![s] = None]
  /\ stamp' = [stamp EXCEPT ![s] = None]

\* fetch_models returns: a list without a single model that validates is an error, and a
\* fetch that fails changes nothing.
Fetch(s, p) ==
  /\ stage[s] = "idle"
  /\ Parsed(Upstream[upstream]) # <<>>
  /\ stage' = [stage EXCEPT ![s] = "fetched"]
  /\ home' = [home EXCEPT ![s] = p]
  /\ fetched' = [fetched EXCEPT ![s] = upstream]
  /\ UNCHANGED <<world, disk, cache, stamp, target, threads, history>>

\* save and what follows run without an await: one sync at a time in a process.
Alone(s) == \A r \in Syncs \ {s} : home[r] = home[s] => stage[r] \notin {"opened", "written"}

\* Fault: the snapshot is written in place.
FaultyOpen(s) ==
  /\ stage[s] = "fetched" /\ Alone(s)
  /\ stage' = [stage EXCEPT ![s] = "opened"]
  /\ stamp' = [stamp EXCEPT ![s] = now]
  /\ files' = [files EXCEPT ![now] = Torn] /\ UNCHANGED temp
  /\ target' = [target EXCEPT ![s] = "file"]
  /\ savers' = [savers EXCEPT ![now] = IF @ = 0 THEN 1 ELSE 2]
  /\ UNCHANGED <<world, cache, home, fetched, threads, synced, overtaken>>

\* The second is taken, and the temporary file is opened: one of the same second that is
\* there already is truncated.
Open(s) ==
  /\ stage[s] = "fetched" /\ Alone(s)
  /\ stage' = [stage EXCEPT ![s] = "opened"]
  /\ stamp' = [stamp EXCEPT ![s] = now]
  /\ temp' = [temp EXCEPT ![now] = Torn] /\ UNCHANGED files
  /\ target' = [target EXCEPT ![s] = "temp"]
  /\ savers' = [savers EXCEPT ![now] = IF @ = 0 THEN 1 ELSE 2]
  /\ UNCHANGED <<world, cache, home, fetched, threads, synced, overtaken>>

\* What the file holds when s has written to it: the tail of a longer text that another
\* sync put there stays.
Mixed(s, old) == {fetched[s]} \cup (IF old \in {Torn, fetched[s]} THEN {} ELSE {Torn})

Write(s) ==
  /\ stage[s] = "opened"
  /\ stage' = [stage EXCEPT ![s] = "written"]
  /\ \/ target[s] = "temp" /\ UNCHANGED files /\
          \E c \in Mixed(s, temp[stamp[s]]) : temp' = [temp EXCEPT ![stamp[s]] = c]
     \/ target[s] = "file" /\ UNCHANGED temp /\
          \E c \in Mixed(s, files[stamp[s]]) : files' = [files EXCEPT ![stamp[s]] = c]
     \/ target[s] = "gone" /\ UNCHANGED disk
  /\ UNCHANGED <<world, cache, home, fetched, stamp, target, threads, history>>

\* The disk is full: sync raises, and what was written stays.
WriteError(s) ==
  /\ stage[s] = "opened"
  /\ Over(s)
  /\ target' = [target EXCEPT ![s] = "gone"]
  /\ UNCHANGED <<world, disk, cache, threads, history>>

Loading(p) == \E t \in Threads : home[t] = p /\ phase[t] # "idle"

\* Fault: the cache is left to the next start.
FaultyStoreSynced(s) ==
  IF home[s] \in Servers
  THEN UNCHANGED cache /\ synced' = [synced EXCEPT ![home[s]] = stamp[s]] /\ UNCHANGED overtaken
  ELSE UNCHANGED <<cache, synced, overtaken>>

\* Fault: the clock is read again for the state that goes into the cache.
FaultyStampSynced(s) ==
  IF home[s] \in Servers
  THEN /\ cache' = [cache EXCEPT ![home[s]] = [id |-> now, content |-> fetched[s]]]
       /\ synced' = [synced EXCEPT ![home[s]] = stamp[s]]
       /\ UNCHANGED overtaken
  ELSE UNCHANGED <<cache, synced, overtaken>>

\* The new state goes into the cache; the command line ends.
StoreSynced(s) ==
  IF home[s] \in Servers
  THEN /\ cache' = [cache EXCEPT ![home[s]] = [id |-> stamp[s], content |-> fetched[s]]]
       /\ synced' = [synced EXCEPT ![home[s]] = stamp[s]]
       /\ overtaken' = IF Loading(home[s]) THEN overtaken \cup {home[s]}
                                           ELSE overtaken \ {home[s]}
  ELSE UNCHANGED <<cache, synced, overtaken>>

\* replace.  When another sync of the same second has renamed the file already, it raises.
Rename(s) ==
  /\ stage[s] = "written"
  /\ IF temp[stamp[s]] = None
     THEN UNCHANGED <<disk, cache, history>> /\ target' = [target EXCEPT ![s] = "gone"]
     ELSE /\ files' = [files EXCEPT ![stamp[s]] = temp[stamp[s]]]
          /\ temp' = [temp EXCEPT ![stamp[s]] = None]
          /\ target' = [r \in Syncs |->
               IF stamp[r] # stamp[s] THEN target[r]
               ELSE IF r # s /\ target[r] = "temp" THEN "file" ELSE "gone"]
          /\ StoreSynced(s)
          /\ UNCHANGED savers
  /\ Over(s)
  /\ UNCHANGED <<world, threads>>

-----------------------------------------------------------------------------
(* current *)

\* A process that has a cache returns it, which changes nothing.
FindNoCache(t, p) ==
  /\ phase[t] = "idle" /\ cache[p] = None
  /\ phase' = [phase EXCEPT ![t] = "loading"]
  /\ home' = [home EXCEPT ![t] = p]
  /\ UNCHANGED <<world, disk, cache, sync, found, history>>

Published == {i \in Times : files[i] # None}
Newest    == CHOOSE i \in Published : \A j \in Published : j <= i

\* load_latest: the newest snapshot, if it can be read.
LoadLatest ==
  IF Published # {} /\ files[Newest] # Torn
  THEN [id |-> Newest, content |-> files[Newest]]
  ELSE None

\* The fixture, when it is installed, stands in for a snapshot that is not there or cannot
\* be read; without it the catalog is unavailable.
Load(t) ==
  /\ phase[t] = "loading"
  /\ \/ /\ found' = [found EXCEPT ![t] = IF LoadLatest = None THEN Fixture ELSE LoadLatest]
        /\ phase' = [phase EXCEPT ![t] = "storing"]
        /\ UNCHANGED home
     \/ /\ LoadLatest = None
        /\ phase' = [phase EXCEPT ![t] = "idle"]
        /\ home' = [home EXCEPT ![t] = None]
        /\ UNCHANGED found
  /\ UNCHANGED <<world, disk, cache, sync, history>>

Store(t) ==
  /\ phase[t] = "storing"
  /\ cache' = [cache EXCEPT ![home[t]] = found[t]]
  /\ phase' = [phase EXCEPT ![t] = "idle"]
  /\ found' = [found EXCEPT ![t] = None]
  /\ home' = [home EXCEPT ![t] = None]
  /\ UNCHANGED <<world, disk, sync, history>>

\* list_snapshots, which leaves out what cannot be read.
ListSnapshots == {i \in Published : files[i] # Torn}

\* list_models, of the models of what current returns.
ListModels(models, c, offset, limit) ==
  LET matched == ApplyFilter(models, c)
  IN  [total |-> Len(matched), items |-> Paginate(matched, offset, limit)]

\* A process dies and is started again; the files stay.
Crash(p) ==
  LET Lost(x) == home[x] = p
  IN  /\ cache' = [q \in Servers |-> IF q = p THEN None ELSE cache[q]]
      /\ stage' = [s \in Syncs |-> IF Lost(s) THEN "idle" ELSE stage[s]]
      /\ fetched' = [s \in Syncs |-> IF Lost(s) THEN None ELSE fetched[s]]
      /\ stamp' = [s \in Syncs |-> IF Lost(s) THEN None ELSE stamp[s]]
      /\ target' = [s \in Syncs |-> IF Lost(s) THEN "gone" ELSE target[s]]
      /\ phase' = [t \in Threads |-> IF Lost(t) THEN "idle" ELSE phase[t]]
      /\ found' = [t \in Threads |-> IF Lost(t) THEN None ELSE found[t]]
      /\ home' = [x \in Syncs \cup Threads |-> IF Lost(x) THEN None ELSE home[x]]
      /\ synced' = [q \in Servers |-> IF q = p THEN None ELSE synced[q]]
      /\ overtaken' = overtaken \ {p}
      /\ UNCHANGED <<world, disk, savers>>

Next ==
  \/ Tick \/ Change
  \/ \E s \in Syncs :
       \/ \E p \in Procs : Fetch(s, p)
       \/ Open(s) \/ Write(s) \/ WriteError(s) \/ Rename(s)
  \/ \E t \in Threads :
       \/ \E p \in Servers : FindNoCache(t, p)
       \/ Load(t) \/ Store(t)
  \/ \E p \in Procs : Crash(p)

Spec == Init /\ [][Next]_vars

-----------------------------------------------------------------------------
(* Properties *)

\* Every variable has its type.
TypeOK ==
  /\ now \in Times /\ upstream \in Contents
  /\ files \in [Times -> Contents \cup {None, Torn}]
  /\ temp \in [Times -> Contents \cup {None, Torn}]
  /\ cache \in [Servers -> Snapshots \cup {None, Fixture}]
  /\ stage \in [Syncs -> {"idle", "fetched", "opened", "written"}]
  /\ home \in [Syncs \cup Threads -> Procs \cup {None}]
  /\ fetched \in [Syncs -> Contents \cup {None}]
  /\ stamp \in [Syncs -> Times \cup {None}]
  /\ target \in [Syncs -> {"temp", "file", "gone"}]
  /\ phase \in [Threads -> {"idle", "loading", "storing"}]
  /\ found \in [Threads -> Snapshots \cup {None, Fixture}]
  /\ savers \in [Times -> 0..2]
  /\ synced \in [Servers -> Times \cup {None}]
  /\ overtaken \subseteq Servers

Shared(i) == savers[i] = 2

\* "Snapshots are immutable" (store.py:3-5) and never half written (store.py:67-68): what is
\* published stays as it is, whoever crashes, unless two syncs have begun to save in the
\* same second.
SnapshotsStay ==
  [][\A i \in Times : files[i] # None /\ ~Shared(i)' => files'[i] = files[i] /\ files[i] # Torn]_vars

\* The snapshot a process serves under an id is listed, and is the one the file of that id
\* holds, so a result that points at the id can be re-analysed; again, but for a shared second.
ServedIsStored ==
  \A p \in Servers : cache[p] \in Snapshots /\ ~Shared(cache[p].id) =>
    cache[p].id \in ListSnapshots /\ files[cache[p].id] = cache[p].content

\* "A synced system always uses the current state" (service.py:32-33): a process serves
\* nothing older than what it stored itself, unless a thread was loading at that moment.
SyncedIsServed ==
  \A p \in Servers \ overtaken : synced[p] # None =>
    cache[p] \in Snapshots /\ cache[p].id >= synced[p]

\* What list_models returns of these models is right.
IsRight(models, c) ==
  LET all      == Summaries(models)
      items    == ListModels(models, c, 0, Len(all) + 1).items
      kept     == {i \in DOMAIN all : Matches(c, all[i])}
      Pages(n) == FlattenSeq([k \in 1..(Len(all) + 1) |-> ListModels(models, c, (k - 1) * n, n).items])
      Value(s) == CASE c.sort = "name" -> s.name
                    [] c.sort = "context_desc" -> s.context
                    [] c.sort = "newest" -> s.created
                    [] OTHER -> s.blended
  IN  /\ \A n \in 1..(Len(all) + 1) :
           Pages(n) = items /\ ListModels(models, c, 0, n).total = Cardinality(kept)
      /\ \A s \in Range(all) :
           Cardinality({n \in DOMAIN items : items[n] = s}) = Cardinality({i \in kept : all[i] = s})
      /\ \A m, n \in DOMAIN items : m < n =>
           LET a == Value(items[m])
               b == Value(items[n])
           IN  b # Unknown =>
                 /\ a # Unknown
                 /\ IF c.sort \in {"name", "price_asc"} THEN a <= b ELSE a >= b
      /\ c.price # NotGiven => \A s \in Range(items) : s.blended \in 0..c.price
      /\ c.provider # NotGiven => \A f \in Range(ProviderFacets(models)) :
           f.provider = c.provider => Len(items) <= f.count

AllRight == {models \in {Parsed(list) : list \in Range(Upstream)} \cup {Bundled} :
               \A c \in Criteria : IsRight(models, c)}

\* Whatever is served, a listing holds every model that matches, each once, whichever pages
\* of whatever size it is fetched in; what has no value for the order comes last
\* (query.py:140-145), and a model whose price is not known is in no price range.  A provider
\* lists no more models than list_providers counts for it.
ListingIsRight == \A p \in Servers : cache[p] # None => Models(cache[p]) \in AllRight
=============================================================================
