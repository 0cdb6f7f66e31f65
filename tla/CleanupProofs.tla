--------------------------- MODULE CleanupProofs ---------------------------
(***************************************************************************)
(* Theorems about ArtifactCleanup and their proofs, for any artifacts,     *)
(* namespaces, sizes, limits, ages and workers, and any number of faults.  *)
(***************************************************************************)
EXTENDS ArtifactCleanup, Sums

-----------------------------------------------------------------------------
(* The inductive invariant *)

\* The eviction loop runs, for one namespace or for all of them.
evicting == phase \in {"evictNamespace", "evictAll"}

\* The directory has been scanned.
collected == phase \notin {"idle", "scan"}

\* The records that the cleanup still keeps.
recorded == found \cup todo \cup evict.scope

\* The record in removeCleanupFile.
taken == IF removal = <<>> THEN {} ELSE {removal[1]}

\* What TypeOK says, with the types of the records of a cleanup.
CleanupTypes ==
    /\ files \in [DOMAIN files -> Ages] /\ DOMAIN files \subseteq Files
    /\ hits \in [DOMAIN hits -> Ages] /\ DOMAIN hits \subseteq Paths
    /\ listed \subseteq Paths /\ dropped \subseteq Paths
    /\ task \in [Workers -> {noTask} \cup [at : {"write", "rename", "wait", "upsert"},
                 path : Paths]]
    /\ phase \in Phases /\ total \in Int
    /\ (phase = "idle") => (todo = {})
    /\ (phase = "scan") => (todo \subseteq Files)
    /\ collected => (todo \subseteq cleanupFiles)
    /\ found \subseteq cleanupFiles /\ (~collected => found = {})
    /\ evict \in [scope : SUBSET cleanupFiles, queue : SUBSET cleanupFiles,
                  removed : SUBSET cleanupFiles, bytes : Int, limit : Nat]
    /\ removal \in {<<>>} \cup (cleanupFiles \X {"catalog", "hit"})
    /\ history \in [failed : SUBSET cleanupFiles, evicted : SUBSET cleanupFiles, ranOut : BOOLEAN]
    /\ plans \in 0..MaxPlans /\ faults \in 0..MaxFaults

(***************************************************************************)
(* Where each record is: in one of the lists of the current phase. What    *)
(* the eviction loop has taken from its queue it has evicted, it failed to *)
(* remove, or it is removing.                                              *)
(***************************************************************************)
EvictionInv ==
    /\ phase \in {"idle", "scan", "ttl"} => history.evicted = {} /\ ~history.ranOut
    /\ ~evicting => evict.scope = {}
    /\ taken # {} => phase = "ttl" \/ evicting
    /\ phase = "ttl" => (found \cup taken) \cap todo = {} /\ found \cap taken = {}
    /\ evicting => taken \subseteq evict.scope \ evict.queue /\ taken \cap evict.removed = {}
    /\ evict.queue \subseteq evict.scope /\ evict.removed \subseteq evict.scope \ evict.queue
    /\ phase = "evictAll" => found = {} /\ todo = {} /\ evict.limit = MaxCacheBytes
    /\ phase = "done" => todo = {}
    /\ evict.removed \subseteq history.evicted
    /\ evict.scope \ evict.queue \subseteq history.evicted \cup history.failed \cup taken

(***************************************************************************)
(* The namespaces are evicted one after the other: those done, the current *)
(* one and those to come share no record.                                  *)
(***************************************************************************)
NamespacesApart ==
    phase \in {"namespaces", "evictNamespace"} =>
        /\ \A f \in found,
               t \in todo \cup evict.scope : cleanupNamespace(f.path) # cleanupNamespace(t.path)
        /\ \A s \in evict.scope, t \in todo : cleanupNamespace(s.path) # cleanupNamespace(t.path)

(***************************************************************************)
(* What the loop has taken was last used no later than what is queued, and *)
(* no record that stays was used longer ago than an evicted one of its     *)
(* namespace.                                                              *)
(***************************************************************************)
InOrder ==
    /\ \A s \in evict.scope \ evict.queue, q \in evict.queue : s.lastUsed >= q.lastUsed
    /\ \A gone \in history.evicted, kept \in recorded \ (history.failed \cup history.evicted) :
            cleanupNamespace(gone.path) = cleanupNamespace(kept.path) =>
                gone.lastUsed >= kept.lastUsed

\* The records whose file counts in total.
present == IF phase = "ttl" THEN found \cup todo \cup taken
           ELSE found \cup todo \cup (evict.scope \ evict.removed)

(***************************************************************************)
(* total is the size of what is there, until an eviction has run out of    *)
(* files.                                                                  *)
(***************************************************************************)
Counted ==
    /\ ~collected => total = 0
    /\ collected /\ ~history.ranOut => total = sizeSum(present)

\* Each namespace is within its limit.
fits(records) ==
    \A n \in Namespaces : ~needsEviction(inNamespace(records, n), MaxCacheBytesForNamespace(n))

(***************************************************************************)
(* The loop knows the size of its scope; the namespaces done are within    *)
(* their limits, and so is everything once the cleanup is done.            *)
(***************************************************************************)
WithinLimits ==
    /\ evicting => evict.bytes = sizeSum(evict.scope \ evict.removed)
    /\ phase \in {"namespaces", "evictNamespace", "evictAll", "done"} /\ ~history.ranOut =>
         fits(found)
    /\ phase = "evictNamespace" =>
         \E n \in Namespaces : evict.limit = MaxCacheBytesForNamespace(n) /\ evict.scope # {}
                               /\ \A r \in evict.scope : cleanupNamespace(r.path) = n
    /\ phase = "evictAll" /\ ~history.ranOut => fits(evict.scope)
    /\ phase = "done" /\ ~history.ranOut => ~needsEviction(found, MaxCacheBytes)

\* The inductive invariant.
CleanupInv == CleanupTypes /\ EvictionInv /\ NamespacesApart /\ InOrder /\ Counted /\ WithinLimits
-----------------------------------------------------------------------------
(* Records and their sizes *)

weight == [r \in cleanupFiles |-> r.size]

LEMMA RecordIsTyped ==
    ASSUME CleanupConstants, NEW f \in Files, NEW a
    PROVE  /\ cleanupFile(f, a).path = f /\ cleanupFile(f, a).lastUsed = a
           /\ cleanupFile(f, a).size \in Nat
           /\ a \in Ages => cleanupFile(f, a) \in cleanupFiles
           /\ cleanupNamespace(f) \in Namespaces
<1>1. artifactOf(f) \in Paths
  BY DEF artifactOf, Files
<1>2. SizeOf[artifactOf(f)] \in Nat /\ NamespaceOf[artifactOf(f)] \in Namespaces
  BY <1>1 DEF CleanupConstants
<1> QED BY <1>2 DEF cleanupFile, cleanupFiles, cleanupNamespace

LEMMA RecordFields ==
    ASSUME CleanupConstants, NEW r \in cleanupFiles
    PROVE  /\ r.path \in Files /\ r.lastUsed \in Ages /\ r.size \in Nat
           /\ cleanupNamespace(r.path) \in Namespaces
<1>1. PICK f \in Files, a \in Ages : r = cleanupFile(f, a)
  BY DEF cleanupFiles
<1>2. /\ cleanupFile(f, a).path = f /\ cleanupFile(f, a).lastUsed = a
      /\ cleanupFile(f, a).size \in Nat /\ cleanupNamespace(f) \in Namespaces
  BY <1>1, RecordIsTyped
<1> QED BY <1>1, <1>2

LEMMA RecordsFinite ==
    ASSUME CleanupConstants
    PROVE  IsFiniteSet(cleanupFiles)
<1>1. IsFiniteSet(Workers \X Paths)
  BY FS_Product DEF CleanupConstants
<1>2. IsFiniteSet(Files)
  BY <1>1, FS_Union DEF CleanupConstants, Files
<1>3. IsFiniteSet(Ages)
  <2>1. 0 \in Int /\ AgeCap \in Int
    BY DEF CleanupConstants
  <2> QED BY <2>1, FS_Interval DEF Ages
<1>4. IsFiniteSet(Files \X Ages)
  BY <1>2, <1>3, FS_Product
<1> DEFINE record == [x \in Files \X Ages |-> cleanupFile(x[1], x[2])]
<1>5. record \in Surjection(Files \X Ages, cleanupFiles)
  <2>1. record \in [Files \X Ages -> cleanupFiles]
    BY DEF cleanupFiles
  <2>2. ASSUME NEW r \in cleanupFiles PROVE \E x \in Files \X Ages : record[x] = r
    <3>1. PICK f \in Files, a \in Ages : r = cleanupFile(f, a)
      BY DEF cleanupFiles
    <3>2. <<f, a>> \in Files \X Ages /\ record[<<f, a>>] = r
      BY <3>1
    <3> QED BY <3>2
  <2> HIDE DEF record
  <2> QED BY <2>1, <2>2 DEF Surjection
<1> HIDE DEF record
<1> QED BY <1>4, <1>5, FS_Surjection

(***************************************************************************)
(* sizeSum adds up the sizes: the recursive function of the model is a     *)
(* sum.                                                                    *)
(***************************************************************************)
LEMMA SizeSumIsSum ==
    ASSUME CleanupConstants, NEW R \in SUBSET cleanupFiles
    PROVE  IsFiniteSet(R) /\ (\A r \in R : weight[r] \in Nat) /\ sizeSum(R) = SumOf(weight, R)
<1>1. IsFiniteSet(R)
  BY RecordsFinite, FS_Subset
<1>2. \A r \in R : weight[r] = r.size /\ weight[r] \in Nat
  BY RecordFields DEF weight
<1> DEFINE rec(g) == g = [s \in SUBSET R |-> IF s = {} THEN 0 ELSE pick(s).size + g[s \ {pick(s)}]]
<1>3. \A g : rec(g) <=> Adds(g, weight, R)
  <2>1. \A s \in SUBSET R : s # {} => pick(s) \in R
    BY DEF pick
  <2>2. \A s \in SUBSET R : s # {} => pick(s).size = weight[pick(s)]
    BY <1>2, <2>1
  <2> SUFFICES ASSUME NEW g PROVE rec(g) <=> Adds(g, weight, R)
    OBVIOUS
  <2>3. [s \in SUBSET R |-> IF s = {} THEN 0 ELSE pick(s).size + g[s \ {pick(s)}]]
          = [s \in SUBSET R |-> IF s = {} THEN 0 ELSE weight[pick(s)] + g[s \ {pick(s)}]]
    BY <2>2
  <2> QED BY <2>3 DEF Adds
<1>4. \E g : rec(g)
  <2> HIDE DEF rec
  <2> QED BY <1>1, <1>2, <1>3, UnitsAdds
<1>5. sizeSum(R) = (CHOOSE g : rec(g))[R]
  BY DEF sizeSum, MapThenSumSet, MapThenFoldSet, pick
<1>6. rec(CHOOSE g : rec(g))
  BY <1>4
<1> HIDE DEF rec
<1>7. sizeSum(R) = SumOf(weight, R)
  BY <1>1, <1>2, <1>3, <1>5, <1>6, AddsSum
<1> QED BY <1>1, <1>2, <1>7

\* What taking records out of a set does to its size.
LEMMA SizeSums ==
    ASSUME CleanupConstants, NEW R \in SUBSET cleanupFiles
    PROVE  /\ sizeSum(R) \in Nat
           /\ R = {} => sizeSum(R) = 0
           /\ \A r \in R : sizeSum(R \ {r}) = sizeSum(R) - r.size
           /\ \A T \in SUBSET R : sizeSum(T) <= sizeSum(R)
<1>1. IsFiniteSet(R) /\ (\A r \in R : weight[r] \in Nat) /\ sizeSum(R) = SumOf(weight, R)
  BY SizeSumIsSum
<1>2. sizeSum(R) \in Nat
  BY <1>1, SumIsCardinality
<1>3. R = {} => sizeSum(R) = 0
  BY <1>1, SumEmpty
<1>4. ASSUME NEW r \in R PROVE sizeSum(R \ {r}) = sizeSum(R) - r.size
  <2>1. sizeSum(R \ {r}) = SumOf(weight, R \ {r})
    BY SizeSumIsSum
  <2>2. SumOf(weight, R) = weight[r] + SumOf(weight, R \ {r}) /\ SumOf(weight, R \ {r}) \in Nat
    BY <1>1, SumRemove
  <2>3. weight[r] = r.size /\ weight[r] \in Nat
    BY <1>1 DEF weight
  <2> QED BY <1>1, <2>1, <2>2, <2>3
<1>5. ASSUME NEW T \in SUBSET R PROVE sizeSum(T) <= sizeSum(R)
  <2>1. sizeSum(T) = SumOf(weight, T)
    BY SizeSumIsSum
  <2> QED BY <1>1, <2>1, SumSubset
<1> QED BY <1>2, <1>3, <1>4, <1>5

-----------------------------------------------------------------------------
(* Types of what the cleanup shares with workers and requests *)

LEMMA EvictionIsTyped ==
    ASSUME NEW e, e \in [scope : SUBSET cleanupFiles, queue : SUBSET cleanupFiles,
                         removed : SUBSET cleanupFiles, bytes : Int, limit : Nat],
           NEW b \in Int, NEW gone \in SUBSET cleanupFiles,
           NEW f, f = [e EXCEPT !.bytes = b, !.removed = gone]
    PROVE  /\ f.scope = e.scope /\ f.queue = e.queue /\ f.limit = e.limit
           /\ f.removed = gone /\ f.bytes = b
           /\ f \in [scope : SUBSET cleanupFiles, queue : SUBSET cleanupFiles,
                     removed : SUBSET cleanupFiles, bytes : Int, limit : Nat]
  OBVIOUS

-----------------------------------------------------------------------------
LEMMA CleanupTypesInit == ASSUME CleanupConstants, Init PROVE CleanupTypes
<1>1. files \in [DOMAIN files -> Ages] /\ DOMAIN files \subseteq Files
  BY DEF Init, Files, Ages
<1>2. hits \in [DOMAIN hits -> Ages] /\ DOMAIN hits \subseteq Paths
  BY DEF Init
<1> QED BY <1>1, <1>2 DEF Init, CleanupTypes, noTask, noEviction, noHistory, Phases, collected,
                          CleanupConstants

(***************************************************************************)
(* The variables of the cleanup alone, and the others.                     *)
(***************************************************************************)
OutsideTypes ==
    /\ files \in [DOMAIN files -> Ages] /\ DOMAIN files \subseteq Files
    /\ hits \in [DOMAIN hits -> Ages] /\ DOMAIN hits \subseteq Paths
    /\ listed \subseteq Paths /\ dropped \subseteq Paths
    /\ task \in [Workers -> {noTask} \cup [at : {"write", "rename", "wait", "upsert"},
                 path : Paths]]
    /\ plans \in 0..MaxPlans /\ faults \in 0..MaxFaults
SweepTypes ==
    /\ phase \in Phases /\ total \in Int
    /\ (phase = "idle") => (todo = {})
    /\ (phase = "scan") => (todo \subseteq Files)
    /\ collected => (todo \subseteq cleanupFiles)
    /\ found \subseteq cleanupFiles /\ (~collected => found = {})
    /\ evict \in [scope : SUBSET cleanupFiles, queue : SUBSET cleanupFiles,
                  removed : SUBSET cleanupFiles, bytes : Int, limit : Nat]
    /\ removal \in {<<>>} \cup (cleanupFiles \X {"catalog", "hit"})
    /\ history \in [failed : SUBSET cleanupFiles, evicted : SUBSET cleanupFiles, ranOut : BOOLEAN]

\* The types of what a cleanup shares with the rest, and of its own state.
LEMMA TwoKindsOfTypes == CleanupTypes <=> OutsideTypes /\ SweepTypes
  BY DEF CleanupTypes, OutsideTypes, SweepTypes

\* The steps of workers and requests leave the cleanup alone.
LEMMA SweepFrame ==
    ASSUME UNCHANGED cleanup
    PROVE  /\ SweepTypes => SweepTypes'
           /\ EvictionInv => EvictionInv'
           /\ NamespacesApart => NamespacesApart'
           /\ InOrder => InOrder'
           /\ Counted => Counted'
           /\ WithinLimits => WithinLimits'
  BY DEF cleanup, SweepTypes, EvictionInv, NamespacesApart, InOrder, Counted, WithinLimits,
         collected,
         evicting, taken, recorded, present

LEMMA FilesChange ==
    ASSUME CleanupConstants, OutsideTypes, NEW f \in Files
    PROVE  /\ written(f) \in [DOMAIN written(f) -> Ages]
              /\ DOMAIN written(f) = DOMAIN files \cup {f}
           /\ Without(files, f) \in [DOMAIN Without(files, f) -> Ages]
           /\ DOMAIN Without(files, f) = DOMAIN files \ {f}
<1>1. 0 \in Ages
  BY DEF Ages, CleanupConstants
<1> QED BY <1>1 DEF written, With, Without, OutsideTypes

TaskStates == {noTask} \cup [at : {"write", "rename", "wait", "upsert"}, path : Paths]

LEMMA TaskIsTyped ==
    ASSUME OutsideTypes, NEW w \in Workers
    PROVE  /\ task[w] \in TaskStates
           /\ task[w].at \in {"write", "rename", "wait", "upsert"} =>
                /\ task[w].path \in Paths /\ Temp(w, task[w].path) \in Files
                /\ task[w] = [at |-> task[w].at, path |-> task[w].path]
                /\ upsertTask(w) \in TaskStates
<1>1. task[w] \in TaskStates
  BY DEF OutsideTypes, TaskStates
<1>2. ASSUME task[w].at \in {"write", "rename", "wait", "upsert"}
      PROVE  task[w] \in [at : {"write", "rename", "wait", "upsert"}, path : Paths]
  BY <1>1, <1>2 DEF TaskStates, noTask
<1> QED BY <1>1, <1>2 DEF TaskStates, Temp, Files, upsertTask

LEMMA SharedIsTyped ==
    ASSUME OutsideTypes, NEW w \in Workers, NEW next \in TaskStates
    PROVE  shared(w, next) \in [Workers -> TaskStates]
  BY DEF shared, OutsideTypes, TaskStates

LEMMA WorkersKeepTypes ==
    ASSUME CleanupConstants, OutsideTypes, NEW w \in Workers,
           (\E p \in Paths : Plan(w, p)) \/ WorkerStep(w) \/ StageFails(w)
    PROVE  OutsideTypes' /\ UNCHANGED cleanup
<1> USE DEF disk, bounds
<1>0. task \in [Workers -> TaskStates] /\ noTask \in TaskStates
  BY DEF OutsideTypes, TaskStates
<1>1. ASSUME NEW p \in Paths, Plan(w, p) PROVE OutsideTypes' /\ UNCHANGED cleanup
  <2>1. plans' \in 0..MaxPlans
    BY <1>1 DEF Plan, OutsideTypes, CleanupConstants
  <2>2. task' \in [Workers -> TaskStates]
    BY <1>0, <1>1 DEF Plan, TaskStates
  <2> QED BY <1>1, <2>1, <2>2 DEF Plan, OutsideTypes, TaskStates
<1>2. ASSUME WriteTemp(w) PROVE OutsideTypes' /\ UNCHANGED cleanup
  <2>1. /\ Temp(w, task[w].path) \in Files
        /\ task[w] = [at |-> task[w].at, path |-> task[w].path] /\ task[w].path \in Paths
    BY <1>2, TaskIsTyped DEF WriteTemp, At
  <2>2. files' \in [DOMAIN files' -> Ages] /\ DOMAIN files' \subseteq Files
    <3> DEFINE tmp == Temp(w, task[w].path)
    <3> HIDE DEF tmp
    <3>1. tmp \in Files /\ files' = written(tmp)
      BY <1>2, <2>1 DEF WriteTemp, tmp
    <3>2. written(tmp) \in [DOMAIN written(tmp) -> Ages]
          /\ DOMAIN written(tmp) = DOMAIN files \cup {tmp}
      BY <3>1, FilesChange
    <3>3. DOMAIN written(tmp) \subseteq Files
      BY <3>1, <3>2 DEF OutsideTypes
    <3> QED BY <3>1, <3>2, <3>3, Zenon
  <2>3. [task[w] EXCEPT !.at = "rename"] \in TaskStates
    BY <2>1 DEF TaskStates
  <2>4. task' \in [Workers -> TaskStates]
    BY <1>0, <1>2, <2>3 DEF WriteTemp
  <2> QED BY <1>2, <2>2, <2>4 DEF WriteTemp, OutsideTypes, TaskStates
<1>3. ASSUME Rename(w) PROVE OutsideTypes' /\ UNCHANGED cleanup
  <2> DEFINE tmp == Temp(w, task[w].path)
  <2>1. tmp \in Files /\ task[w].path \in Paths /\ upsertTask(w) \in TaskStates
    BY <1>3, TaskIsTyped DEF Rename, At
  <2>2. files' \in [DOMAIN files' -> Ages] /\ DOMAIN files' \subseteq Files
    <3>1. /\ Without(files, tmp) \in [DOMAIN Without(files, tmp) -> Ages]
          /\ DOMAIN Without(files, tmp) = DOMAIN files \ {tmp}
      BY <2>1, FilesChange
    <3>2. 0 \in Ages /\ task[w].path \in Files
      BY <2>1 DEF Ages, CleanupConstants, Files
    <3>3. CASE Exists(tmp)
      <4>1. files' = With(Without(files, tmp), task[w].path, 0)
        BY <1>3, <3>3 DEF Rename
      <4> HIDE DEF tmp
      <4> QED BY <3>1, <3>2, <4>1 DEF OutsideTypes, With
    <3>4. CASE ~Exists(tmp)
      BY <1>3, <3>4 DEF Rename, OutsideTypes
    <3> QED BY <3>3, <3>4
  <2>3. task' \in [Workers -> TaskStates]
    BY <1>0, <1>3, <2>1, SharedIsTyped DEF Rename
  <2> QED BY <1>3, <2>2, <2>3 DEF Rename, OutsideTypes, TaskStates
<1>4. ASSUME UpsertVariant(w) PROVE OutsideTypes' /\ UNCHANGED cleanup
  <2>1. task[w].path \in Paths
    BY <1>4, TaskIsTyped DEF UpsertVariant, At
  <2> QED BY <1>0, <1>4, <2>1 DEF UpsertVariant, OutsideTypes, TaskStates
<1>5. ASSUME StageFails(w) PROVE OutsideTypes' /\ UNCHANGED cleanup
  <2> DEFINE tmp == Temp(w, task[w].path)
  <2>1. tmp \in Files
    BY <1>5, TaskIsTyped DEF StageFails
  <2>2. files' \in [DOMAIN files' -> Ages] /\ DOMAIN files' \subseteq Files
    <3>1. files' = files \/ files' = Without(files, tmp) \/ files' = written(tmp)
      BY <1>5 DEF StageFails
    <3> HIDE DEF tmp
    <3>2. CASE files' = files
      BY <3>2 DEF OutsideTypes
    <3>3. CASE files' = Without(files, tmp)
      BY <2>1, <3>3, FilesChange DEF OutsideTypes
    <3>4. CASE files' = written(tmp)
      <4>1. written(tmp) \in [DOMAIN written(tmp) -> Ages]
            /\ DOMAIN written(tmp) = DOMAIN files \cup {tmp}
        BY <2>1, FilesChange
      <4>2. DOMAIN written(tmp) \subseteq Files
        BY <2>1, <4>1 DEF OutsideTypes
      <4> QED BY <3>4, <4>1, <4>2, Zenon
    <3> QED BY <3>1, <3>2, <3>3, <3>4
  <2>3. task' \in [Workers -> TaskStates]
    BY <1>0, <1>5, SharedIsTyped DEF StageFails
  <2>4. faults' \in 0..MaxFaults
    BY <1>5 DEF StageFails, OutsideTypes, CleanupConstants
  <2> QED BY <1>5, <2>2, <2>3, <2>4 DEF StageFails, OutsideTypes, TaskStates
<1> QED BY <1>1, <1>2, <1>3, <1>4, <1>5 DEF WorkerStep

LEMMA RequestsKeepTypes ==
    ASSUME CleanupConstants, OutsideTypes, NEW p \in Paths,
           Serve(p) \/ ServeMissing(p) \/ DropVariants(p) \/ RemoveDropped(p)
    PROVE  OutsideTypes' /\ UNCHANGED cleanup
<1> USE DEF bounds
<1>1. CASE Serve(p)
  <2>1. 0 \in Ages
    BY DEF Ages, CleanupConstants
  <2> QED BY <1>1, <2>1 DEF Serve, With, OutsideTypes
<1>2. CASE ServeMissing(p)
  BY <1>2 DEF ServeMissing, OutsideTypes
<1>3. CASE DropVariants(p)
  BY <1>3 DEF DropVariants, OutsideTypes, CleanupConstants
<1>4. CASE RemoveDropped(p)
  <2>1. p \in Files
    BY DEF Files
  <2>2. files' \in [DOMAIN files' -> Ages] /\ DOMAIN files' \subseteq Files
    BY <1>4, <2>1, FilesChange DEF RemoveDropped, OutsideTypes
  <2>3. faults' \in 0..MaxFaults
    BY <1>4 DEF RemoveDropped, OutsideTypes, CleanupConstants
  <2> QED BY <1>4, <2>2, <2>3 DEF RemoveDropped, OutsideTypes
<1> QED BY <1>1, <1>2, <1>3, <1>4

LEMMA OlderIsAge ==
    ASSUME CleanupConstants, NEW ages, ages \in [DOMAIN ages -> Ages]
    PROVE  older(ages) \in [DOMAIN ages -> Ages] /\ DOMAIN older(ages) = DOMAIN ages
<1>1. ASSUME NEW a \in Ages PROVE Min({AgeCap, a + 1}) \in Ages
  <2>1. a \in 0..AgeCap /\ AgeCap \in Nat
    BY DEF Ages, CleanupConstants
  <2>2. CASE a + 1 <= AgeCap
    <3>1. Min({AgeCap, a + 1}) = a + 1
      BY <2>1, <2>2 DEF Min
    <3> QED BY <2>1, <2>2, <3>1 DEF Ages
  <2>3. CASE a + 1 > AgeCap
    <3>1. Min({AgeCap, a + 1}) = AgeCap
      BY <2>1, <2>3 DEF Min
    <3> QED BY <2>1, <3>1 DEF Ages
  <2> QED BY <2>1, <2>2, <2>3
<1> QED BY <1>1 DEF older

LEMMA TickKeepsTypes ==
    ASSUME CleanupConstants, OutsideTypes, Tick
    PROVE  OutsideTypes' /\ UNCHANGED cleanup
<1>1. files' \in [DOMAIN files' -> Ages] /\ DOMAIN files' = DOMAIN files
  BY OlderIsAge DEF Tick, OutsideTypes
<1>2. hits' \in [DOMAIN hits' -> Ages] /\ DOMAIN hits' = DOMAIN hits
  BY OlderIsAge DEF Tick, OutsideTypes
<1> QED BY <1>1, <1>2 DEF Tick, OutsideTypes, bounds

-----------------------------------------------------------------------------
(* The steps of a cleanup before any eviction *)

SweepInv ==
    SweepTypes /\ EvictionInv /\ NamespacesApart /\ InOrder /\ Counted /\ WithinLimits

LEMMA NoneTaken == taken = {} <=> removal = <<>>
  BY DEF taken

LEMMA TakenIs ==
    ASSUME NEW r, NEW next, removal' = <<r, next>>
    PROVE  taken' = {r}
  BY DEF taken

LEMMA EmptyIsNat == ASSUME CleanupConstants PROVE sizeSum({}) = 0
  BY SizeSums

(***************************************************************************)
(* The end of a cleanup, its failure and a crash: nothing is left of it.   *)
(***************************************************************************)
LEMMA SweepStops == ASSUME CleanupConstants, idleCleanup PROVE SweepInv'
<1>1. SweepTypes'
  BY DEF idleCleanup, SweepTypes, noEviction, noHistory, Phases, collected
<1>2. EvictionInv' /\ NamespacesApart' /\ InOrder' /\ Counted' /\ WithinLimits'
  BY DEF idleCleanup, noEviction, noHistory, collected, EvictionInv, NamespacesApart, InOrder,
         Counted, WithinLimits, evicting, taken, recorded
<1> QED BY <1>1, <1>2 DEF SweepInv

LEMMA SweepInit == ASSUME CleanupConstants, Init PROVE SweepInv
<1>1. SweepTypes
  BY DEF Init, SweepTypes, noEviction, noHistory, Phases, collected
<1>2. EvictionInv /\ NamespacesApart /\ InOrder /\ Counted /\ WithinLimits
  BY DEF Init, noEviction, noHistory, collected, EvictionInv, NamespacesApart, InOrder,
         Counted, WithinLimits, evicting, taken, recorded
<1> QED BY <1>1, <1>2 DEF SweepInv

LEMMA StartCleanupStep ==
    ASSUME CleanupConstants, OutsideTypes, SweepInv, StartCleanup
    PROVE  SweepInv'
<1>1. SweepTypes'
  BY DEF StartCleanup, SweepInv, SweepTypes, Phases, collected, OutsideTypes
<1>2. EvictionInv' /\ NamespacesApart' /\ InOrder' /\ Counted' /\ WithinLimits'
  BY DEF StartCleanup, SweepInv, collected, EvictionInv, NamespacesApart, InOrder, Counted,
         WithinLimits, evicting, taken, recorded
<1> QED BY <1>1, <1>2 DEF SweepInv

LEMMA LastUseIsAge ==
    ASSUME CleanupConstants, OutsideTypes, NEW f, Exists(f)
    PROVE  effectiveLastUsed(f) \in Ages
<1>1. files[f] \in Ages
  BY DEF OutsideTypes, Exists
<1>2. CASE f \in DOMAIN hits
  <2>1. hits[f] \in Ages
    BY <1>2 DEF OutsideTypes
  <2>2. hits[f] \in Int /\ files[f] \in Int
    BY <1>1, <2>1 DEF Ages
  <2>3. Min({hits[f], files[f]}) \in {hits[f], files[f]}
    BY <2>2 DEF Min
  <2> QED BY <1>1, <1>2, <2>1, <2>3 DEF effectiveLastUsed
<1>3. CASE f \notin DOMAIN hits
  BY <1>1, <1>3 DEF effectiveLastUsed
<1> QED BY <1>2, <1>3

LEMMA PrepareStep ==
    ASSUME CleanupConstants, OutsideTypes, SweepInv, prepareCleanupResult
    PROVE  SweepInv'
<1> DEFINE records == {cleanupFile(f, effectiveLastUsed(f)) : f \in todo}
<1>1. records \subseteq cleanupFiles
  <2> SUFFICES ASSUME NEW f \in todo PROVE cleanupFile(f, effectiveLastUsed(f)) \in cleanupFiles
    OBVIOUS
  <2>1. f \in Files /\ Exists(f)
    BY DEF prepareCleanupResult, SweepInv, SweepTypes
  <2> QED BY <2>1, LastUseIsAge, RecordIsTyped
<1>2. /\ phase = "scan" /\ phase' = "ttl" /\ total' = sizeSum(records)
      /\ todo' \subseteq records /\ found' = records \ todo'
      /\ UNCHANGED <<evict, removal, history>>
  BY DEF prepareCleanupResult
<1> HIDE DEF records
<1>3. removal = <<>> /\ taken' = {} /\ evict.scope = {} /\ found' \cup todo' = records
  BY <1>2 DEF SweepInv, EvictionInv, taken, evicting
<1>4. sizeSum(records) \in Nat
  BY <1>1, SizeSums
<1>5. SweepTypes'
  BY <1>1, <1>2, <1>4 DEF SweepInv, SweepTypes, Phases, collected
<1>6. EvictionInv' /\ NamespacesApart' /\ WithinLimits'
  BY <1>2, <1>3 DEF SweepInv, EvictionInv, NamespacesApart, WithinLimits, evicting
<1>7. InOrder'
  BY <1>2, <1>3 DEF SweepInv, EvictionInv, InOrder
<1>8. Counted'
  <2>1. present' = records
    BY <1>2, <1>3 DEF present
  <2> QED BY <1>2, <2>1 DEF Counted, collected
<1> QED BY <1>5, <1>6, <1>7, <1>8 DEF SweepInv

LEMMA ExpireStep ==
    ASSUME CleanupConstants, SweepInv, NEW r, ExpireFile(r)
    PROVE  SweepInv'
<1>1. /\ phase = "ttl" /\ removal = <<>> /\ r \in todo /\ todo' = todo \ {r}
      /\ UNCHANGED <<phase, evict, total>>
      /\ \/ removal' = <<r, "catalog">> /\ found' = found /\ history' = history
         \/ removal' = <<>> /\ found' = found \cup {r}
            /\ history' = [history EXCEPT !.failed = @ \cup {r}]
  BY DEF ExpireFile, RemoveFile, RemoveFails
<1>2. r \in cleanupFiles /\ taken = {} /\ evict.scope = {} /\ r \notin found
  BY <1>1 DEF SweepInv, SweepTypes, EvictionInv, collected, taken, evicting
<1>3. /\ history' \in [failed : SUBSET cleanupFiles, evicted : SUBSET cleanupFiles,
                       ranOut : BOOLEAN]
      /\ history'.evicted = {} /\ history'.ranOut = history.ranOut
  BY <1>1, <1>2 DEF SweepInv, SweepTypes, EvictionInv
<1>4. /\ found' \cup taken' = found \cup {r} /\ found' \cap taken' = {}
      /\ found' \subseteq found \cup {r} /\ taken' \subseteq {r}
  BY <1>1, <1>2 DEF taken
<1>5. SweepTypes'
  <2>1. removal' \in {<<>>} \cup (cleanupFiles \X {"catalog", "hit"})
    BY <1>1, <1>2
  <2>2. found' \subseteq cleanupFiles
    BY <1>2, <1>4 DEF SweepInv, SweepTypes
  <2> QED BY <1>1, <1>3, <2>1, <2>2 DEF SweepInv, SweepTypes, collected
<1>6. EvictionInv' /\ NamespacesApart' /\ WithinLimits'
  BY <1>1, <1>2, <1>3, <1>4 DEF SweepInv, SweepTypes, EvictionInv, NamespacesApart,
         WithinLimits, evicting
<1>7. InOrder'
  BY <1>1, <1>2, <1>3 DEF InOrder, SweepInv, EvictionInv
<1>8. Counted'
  <2>1. present' = present
    BY <1>1, <1>2, <1>4 DEF present
  <2> QED BY <1>1, <1>3, <2>1 DEF SweepInv, Counted, collected
<1> QED BY <1>5, <1>6, <1>7, <1>8 DEF SweepInv

LEMMA DeleteVariantStep ==
    ASSUME CleanupConstants, SweepInv, DeleteVariantByArtifactPath
    PROVE  SweepInv'
<1>1. /\ removal # <<>> /\ removal' = <<removal[1], "hit">>
      /\ UNCHANGED <<phase, todo, found, evict, total, history>>
  BY DEF DeleteVariantByArtifactPath
<1>2. taken' = taken
  BY <1>1 DEF taken
<1>3. SweepTypes'
  BY <1>1 DEF SweepInv, SweepTypes, collected
<1>4. EvictionInv' /\ NamespacesApart' /\ InOrder' /\ Counted' /\ WithinLimits'
  BY <1>1, <1>2 DEF SweepInv, EvictionInv, NamespacesApart, InOrder, Counted, WithinLimits,
         collected,
                    evicting, recorded, present
<1> QED BY <1>3, <1>4 DEF SweepInv

LEMMA FinishExpiryStep ==
    ASSUME CleanupConstants, SweepInv, FinishRemoval, phase = "ttl"
    PROVE  SweepInv'
<1>1. PICK r : taken = {r} /\ r = removal[1]
  BY DEF FinishRemoval, taken
<1>2. /\ removal # <<>> /\ removal' = <<>> /\ total' = total - r.size
      /\ UNCHANGED <<phase, todo, found, evict, history>>
  BY <1>1 DEF FinishRemoval
<1>3. r \in cleanupFiles /\ r.size \in Nat /\ taken' = {} /\ evict.scope = {}
  BY <1>1, <1>2, RecordFields DEF SweepInv, SweepTypes, EvictionInv, taken, evicting
<1>4. SweepTypes'
  BY <1>2, <1>3 DEF SweepInv, SweepTypes, collected
<1>5. EvictionInv' /\ NamespacesApart' /\ WithinLimits' /\ InOrder'
  BY <1>1, <1>2, <1>3 DEF SweepInv, EvictionInv, NamespacesApart, WithinLimits, InOrder,
         evicting, recorded
<1>6. Counted'
  <2>1. present' = present \ {r} /\ r \in present /\ present \subseteq cleanupFiles
    BY <1>1, <1>2, <1>3 DEF present, SweepInv, SweepTypes, EvictionInv, collected
  <2>2. sizeSum(present \ {r}) = sizeSum(present) - r.size
    BY <2>1, SizeSums
  <2> QED BY <1>2, <2>1, <2>2 DEF SweepInv, Counted, collected
<1> QED BY <1>4, <1>5, <1>6 DEF SweepInv

LEMMA FinishEvictionStep ==
    ASSUME CleanupConstants, SweepInv, FinishRemoval, phase # "ttl"
    PROVE  SweepInv'
<1>1. PICK r : taken = {r} /\ r = removal[1]
  BY DEF FinishRemoval, taken
<1>2. /\ removal # <<>> /\ removal' = <<>> /\ total' = total - r.size
      /\ evict' = [evict EXCEPT !.bytes = @ - r.size, !.removed = @ \cup {r}]
      /\ history' = [history EXCEPT !.evicted = @ \cup {r}]
      /\ UNCHANGED <<phase, todo, found>>
  BY <1>1 DEF FinishRemoval
<1>3. /\ evicting /\ r \in evict.scope /\ r \notin evict.queue /\ r \notin evict.removed
      /\ r \in cleanupFiles /\ r.size \in Nat /\ taken' = {}
  BY <1>1, <1>2, RecordFields DEF SweepInv, SweepTypes, EvictionInv, taken
<1>4. /\ evict' \in [scope : SUBSET cleanupFiles, queue : SUBSET cleanupFiles,
                     removed : SUBSET cleanupFiles, bytes : Int, limit : Nat]
      /\ evict'.scope = evict.scope /\ evict'.queue = evict.queue /\ evict'.limit = evict.limit
      /\ evict'.removed = evict.removed \cup {r} /\ evict'.bytes = evict.bytes - r.size
  <2>1. /\ evict \in [scope : SUBSET cleanupFiles, queue : SUBSET cleanupFiles,
                      removed : SUBSET cleanupFiles, bytes : Int, limit : Nat]
        /\ evict.bytes - r.size \in Int /\ evict.removed \cup {r} \in SUBSET cleanupFiles
    BY <1>3 DEF SweepInv, SweepTypes
  <2> QED BY <1>2, <2>1, EvictionIsTyped
<1>5. /\ history' \in [failed : SUBSET cleanupFiles, evicted : SUBSET cleanupFiles,
                       ranOut : BOOLEAN]
      /\ history'.failed = history.failed /\ history'.evicted = history.evicted \cup {r}
      /\ history'.ranOut = history.ranOut
  BY <1>2, <1>3 DEF SweepInv, SweepTypes
<1>6. evicting' /\ collected /\ collected' /\ phase # "idle" /\ phase # "scan"
  BY <1>2, <1>3 DEF evicting, collected
<1>7. SweepTypes'
  <2>1. total' \in Int
    BY <1>2, <1>3 DEF SweepInv, SweepTypes
  <2> QED BY <1>2, <1>3, <1>4, <1>5, <1>6, <2>1 DEF SweepInv, SweepTypes
<1>8. EvictionInv' /\ NamespacesApart'
  BY <1>1, <1>2, <1>3, <1>4, <1>5, <1>6 DEF SweepInv, EvictionInv, NamespacesApart, evicting
<1>9. evict.scope \ evict'.removed = (evict.scope \ evict.removed) \ {r}
  BY <1>4
<1>10. r \notin found /\ r \notin todo
  BY <1>3 DEF SweepInv, EvictionInv, NamespacesApart, evicting
<1>11. Counted'
  <2>1. present' = present \ {r} /\ r \in present /\ present \subseteq cleanupFiles
    BY <1>2, <1>3, <1>4, <1>6, <1>9, <1>10 DEF present, SweepInv, SweepTypes, evicting
  <2>2. sizeSum(present \ {r}) = sizeSum(present) - r.size
    BY <2>1, SizeSums
  <2> QED BY <1>2, <1>5, <1>6, <2>1, <2>2 DEF SweepInv, Counted
<1>12. WithinLimits'
  <2>1. sizeSum((evict.scope \ evict.removed) \ {r}) = sizeSum(evict.scope \ evict.removed) - r.size
    <3>1. evict.scope \ evict.removed \in SUBSET cleanupFiles /\ r \in evict.scope \ evict.removed
      BY <1>3 DEF SweepInv, SweepTypes
    <3> QED BY <3>1, SizeSums
  <2>2. evict'.bytes = sizeSum(evict'.scope \ evict'.removed)
    BY <1>3, <1>4, <1>9, <2>1 DEF SweepInv, WithinLimits
  <2> QED BY <1>2, <1>4, <1>5, <2>2 DEF SweepInv, WithinLimits, evicting
<1>13. InOrder'
  <2>1. \A s \in evict'.scope \ evict'.queue, q \in evict'.queue : s.lastUsed >= q.lastUsed
    BY <1>4 DEF SweepInv, InOrder
  <2>2. recorded' = recorded
    BY <1>2, <1>4 DEF recorded
  <2>3. ASSUME NEW kept \in recorded \ (history'.failed \cup history'.evicted),
               cleanupNamespace(r.path) = cleanupNamespace(kept.path)
        PROVE  r.lastUsed >= kept.lastUsed
    <3>1. kept \in evict.scope
      BY <1>3, <2>3 DEF SweepInv, EvictionInv, NamespacesApart, recorded, evicting
    <3>2. kept \in evict.queue
      BY <1>1, <1>5, <2>3, <3>1 DEF SweepInv, EvictionInv
    <3> QED BY <1>3, <3>2 DEF SweepInv, InOrder
  <2> QED BY <1>5, <2>1, <2>2, <2>3 DEF SweepInv, InOrder
<1> QED BY <1>7, <1>8, <1>11, <1>12, <1>13 DEF SweepInv

-----------------------------------------------------------------------------
(* The steps of the evictions *)

\* What is within a limit stays so when records go.
LEMMA Fitting ==
    ASSUME CleanupConstants, NEW R \in SUBSET cleanupFiles, NEW T \in SUBSET R, NEW limit \in Nat,
           ~needsEviction(R, limit)
    PROVE  ~needsEviction(T, limit)
<1>1. sizeSum(T) <= sizeSum(R) /\ sizeSum(T) \in Nat /\ sizeSum(R) \in Nat
  BY SizeSums
<1> QED BY <1>1 DEF needsEviction

LEMMA LimitIsNat ==
    ASSUME CleanupConstants, NEW n \in Namespaces
    PROVE  MaxCacheBytesForNamespace(n) \in Nat
  BY DEF MaxCacheBytesForNamespace, CleanupConstants

LEMMA FittingAll ==
    ASSUME CleanupConstants, NEW R \in SUBSET cleanupFiles, NEW T \in SUBSET R, fits(R)
    PROVE  fits(T)
<1> SUFFICES ASSUME NEW n \in Namespaces
             PROVE  ~needsEviction(inNamespace(T, n), MaxCacheBytesForNamespace(n))
  BY DEF fits
<1>1. inNamespace(T, n) \in SUBSET inNamespace(R, n) /\ inNamespace(R, n) \in SUBSET cleanupFiles
  BY DEF inNamespace
<1>2. ~needsEviction(inNamespace(R, n), MaxCacheBytesForNamespace(n))
  BY DEF fits
<1> QED BY <1>1, <1>2, Fitting, LimitIsNat

LEMMA NothingFits ==
    ASSUME CleanupConstants, NEW limit \in Nat
    PROVE  ~needsEviction({}, limit)
  BY EmptyIsNat DEF needsEviction

LEMMA StartNamespacesStep ==
    ASSUME CleanupConstants, SweepInv, StartNamespaces
    PROVE  SweepInv'
<1> DEFINE over == UNION {inNamespace(found, n) : n \in {m \in Namespaces : overNamespaceLimit(m)}}
<1>1. /\ phase = "ttl" /\ phase' = "namespaces" /\ todo = {} /\ removal = <<>> /\ todo' = over
      /\ found' = found \ over /\ UNCHANGED <<evict, removal, total, history>>
  BY DEF StartNamespaces
<1>2. \A r : r \in over <=> r \in found /\ cleanupNamespace(r.path) \in Namespaces
                                      /\ overNamespaceLimit(cleanupNamespace(r.path))
  BY DEF inNamespace
<1> HIDE DEF over
<1>3. over \subseteq found /\ taken = {} /\ taken' = {} /\ evict.scope = {}
      /\ found \subseteq cleanupFiles
  BY <1>1, <1>2 DEF taken, SweepInv, SweepTypes, EvictionInv, evicting
<1>4. SweepTypes'
  BY <1>1, <1>3 DEF SweepInv, SweepTypes, Phases, collected
<1>5. EvictionInv' /\ InOrder'
  BY <1>1, <1>3 DEF SweepInv, EvictionInv, InOrder, evicting
<1>6. NamespacesApart'
  <2>1. \A f \in found \ over, t \in over : cleanupNamespace(f.path) # cleanupNamespace(t.path)
    BY <1>2
  <2> QED BY <1>1, <1>3, <2>1 DEF NamespacesApart
<1>7. Counted'
  <2>1. present' = present
    BY <1>1, <1>3 DEF present
  <2> QED BY <1>1, <2>1 DEF SweepInv, Counted, collected
<1>8. fits(found')
  <2> SUFFICES ASSUME NEW n \in Namespaces
               PROVE  ~needsEviction(inNamespace(found', n), MaxCacheBytesForNamespace(n))
    BY DEF fits
  <2>1. CASE overNamespaceLimit(n)
    <3>1. inNamespace(found', n) = {}
      BY <1>1, <1>2, <2>1 DEF inNamespace
    <3> QED BY <3>1, NothingFits, LimitIsNat
  <2>2. CASE ~overNamespaceLimit(n)
    <3>1. inNamespace(found', n) = inNamespace(found, n)
      BY <1>1, <1>2, <2>2 DEF inNamespace
    <3> QED BY <2>2, <3>1 DEF overNamespaceLimit
  <2> QED BY <2>1, <2>2
<1>9. WithinLimits'
  BY <1>1, <1>8 DEF WithinLimits, evicting
<1> QED BY <1>4, <1>5, <1>6, <1>7, <1>9 DEF SweepInv

LEMMA EvictNamespaceStep ==
    ASSUME CleanupConstants, SweepInv, NEW n \in Namespaces, EvictNamespace(n)
    PROVE  SweepInv'
<1> DEFINE records == inNamespace(todo, n)
<1>1. /\ phase = "namespaces" /\ phase' = "evictNamespace" /\ records # {} /\ todo' = todo \ records
      /\ evict' = eviction(records, MaxCacheBytesForNamespace(n))
      /\ UNCHANGED <<found, removal, total, history>>
  BY DEF EvictNamespace
<1>2. /\ records \subseteq todo /\ todo \subseteq cleanupFiles
      /\ \A r \in records : cleanupNamespace(r.path) = n
      /\ \A r \in todo \ records : cleanupNamespace(r.path) # n
  BY <1>1 DEF inNamespace, SweepInv, SweepTypes, collected
<1> HIDE DEF records
<1>3. sizeSum(records) \in Nat /\ MaxCacheBytesForNamespace(n) \in Nat
  BY <1>2, SizeSums, LimitIsNat
<1>4. /\ evict' \in [scope : SUBSET cleanupFiles, queue : SUBSET cleanupFiles,
                     removed : SUBSET cleanupFiles, bytes : Int, limit : Nat]
      /\ evict'.scope = records /\ evict'.queue = records /\ evict'.removed = {}
      /\ evict'.limit = MaxCacheBytesForNamespace(n) /\ evict'.bytes = sizeSum(records)
  BY <1>1, <1>2, <1>3 DEF eviction
<1>5. removal = <<>> /\ taken = {} /\ taken' = {} /\ evict.scope = {}
  BY <1>1 DEF SweepInv, EvictionInv, taken, evicting
<1>6. SweepTypes'
  BY <1>1, <1>2, <1>4 DEF SweepInv, SweepTypes, Phases, collected
<1>7. EvictionInv'
  BY <1>1, <1>4, <1>5 DEF SweepInv, EvictionInv, evicting
<1>8. NamespacesApart'
  BY <1>1, <1>2, <1>4 DEF SweepInv, NamespacesApart
<1>9. recorded' = recorded
  BY <1>1, <1>2, <1>4, <1>5 DEF recorded
<1>10. InOrder'
  BY <1>1, <1>4, <1>9 DEF SweepInv, InOrder
<1>11. Counted'
  <2>1. present' = present
    BY <1>1, <1>2, <1>4, <1>5 DEF present
  <2> QED BY <1>1, <2>1 DEF SweepInv, Counted, collected
<1>12. WithinLimits'
  <2>1. evict'.scope \ evict'.removed = records
    BY <1>4
  <2> QED BY <1>1, <1>2, <1>4, <2>1 DEF SweepInv, WithinLimits, evicting
<1> QED BY <1>6, <1>7, <1>8, <1>10, <1>11, <1>12 DEF SweepInv

LEMMA EnforceTotalStep ==
    ASSUME CleanupConstants, SweepInv, EnforceTotal
    PROVE  SweepInv'
<1>1. /\ phase = "namespaces" /\ todo = {} /\ UNCHANGED <<todo, removal, total, history>>
  BY DEF EnforceTotal
<1>2. /\ removal = <<>> /\ taken = {} /\ taken' = {} /\ evict.scope = {} /\ evict.queue = {}
      /\ evict.removed = {} /\ found \subseteq cleanupFiles
  BY <1>1 DEF SweepInv, SweepTypes, EvictionInv, taken, evicting
<1>3. CASE needsEviction(found, MaxCacheBytes)
  <2>1. evict' = eviction(found, MaxCacheBytes) /\ phase' = "evictAll" /\ found' = {}
    BY <1>3 DEF EnforceTotal
  <2>2. sizeSum(found) \in Nat /\ MaxCacheBytes \in Nat
    BY <1>2, SizeSums DEF CleanupConstants
  <2>3. /\ evict' \in [scope : SUBSET cleanupFiles, queue : SUBSET cleanupFiles,
                       removed : SUBSET cleanupFiles, bytes : Int, limit : Nat]
        /\ evict'.scope = found /\ evict'.queue = found /\ evict'.removed = {}
        /\ evict'.limit = MaxCacheBytes /\ evict'.bytes = sizeSum(found)
    BY <1>2, <2>1, <2>2 DEF eviction
  <2>4. SweepTypes'
    BY <1>1, <2>1, <2>3 DEF SweepInv, SweepTypes, Phases, collected
  <2>5. EvictionInv' /\ NamespacesApart'
    BY <1>1, <1>2, <2>1, <2>3 DEF SweepInv, EvictionInv, NamespacesApart, evicting
  <2>6. recorded' = recorded
    BY <1>1, <1>2, <2>1, <2>3 DEF recorded
  <2>7. InOrder'
    BY <1>1, <2>3, <2>6 DEF SweepInv, InOrder
  <2>8. Counted'
    <3>1. present' = present
      BY <1>1, <1>2, <2>1, <2>3 DEF present
    <3> QED BY <1>1, <2>1, <3>1 DEF SweepInv, Counted, collected
  <2>9. WithinLimits'
    <3>1. evict'.scope \ evict'.removed = found
      BY <2>3
    <3>2. fits({})
      BY NothingFits, LimitIsNat DEF fits, inNamespace
    <3> QED BY <1>1, <2>1, <2>3, <3>1, <3>2 DEF SweepInv, WithinLimits, evicting
  <2> QED BY <2>4, <2>5, <2>7, <2>8, <2>9 DEF SweepInv
<1>4. CASE ~needsEviction(found, MaxCacheBytes)
  <2>1. phase' = "done" /\ UNCHANGED <<evict, found>>
    BY <1>4 DEF EnforceTotal
  <2>2. SweepTypes'
    BY <1>1, <2>1 DEF SweepInv, SweepTypes, Phases, collected
  <2>3. EvictionInv' /\ NamespacesApart'
    BY <1>1, <1>2, <2>1 DEF SweepInv, EvictionInv, NamespacesApart, evicting
  <2>4. InOrder' /\ Counted'
    BY <1>1, <2>1 DEF SweepInv, InOrder, Counted, collected, recorded, present
  <2>5. WithinLimits'
    BY <1>1, <1>4, <2>1 DEF SweepInv, WithinLimits, evicting
  <2> QED BY <2>2, <2>3, <2>4, <2>5 DEF SweepInv
<1> QED BY <1>3, <1>4

(***************************************************************************)
(* The eviction loop takes a record that was used longest ago, so what it  *)
(* leaves was used no longer ago: the heart of InOrder.                    *)
(***************************************************************************)
LEMMA EvictStep ==
    ASSUME CleanupConstants, SweepInv, NEW r, evictCleanupFilesBySize(r)
    PROVE  SweepInv'
<1>1. /\ evicting /\ removal = <<>> /\ r \in evict.queue
      /\ \A q \in evict.queue : q.lastUsed <= r.lastUsed
      /\ evict' = [evict EXCEPT !.queue = @ \ {r}]
      /\ UNCHANGED <<phase, todo, found, total>>
      /\ \/ removal' = <<r, "catalog">> /\ history' = history
         \/ removal' = <<>> /\ history' = [history EXCEPT !.failed = @ \cup {r}]
  BY DEF evictCleanupFilesBySize, oldestIn, evicting, RemoveFile, RemoveFails
<1>2. r \in cleanupFiles /\ r \in evict.scope /\ taken = {}
  BY <1>1 DEF SweepInv, SweepTypes, EvictionInv, taken
<1>3. /\ evict' \in [scope : SUBSET cleanupFiles, queue : SUBSET cleanupFiles,
                     removed : SUBSET cleanupFiles, bytes : Int, limit : Nat]
      /\ evict'.scope = evict.scope /\ evict'.queue = evict.queue \ {r}
         /\ evict'.limit = evict.limit
      /\ evict'.removed = evict.removed /\ evict'.bytes = evict.bytes
  BY <1>1 DEF SweepInv, SweepTypes
<1>4. /\ history' \in [failed : SUBSET cleanupFiles, evicted : SUBSET cleanupFiles,
                       ranOut : BOOLEAN]
      /\ history'.evicted = history.evicted /\ history'.ranOut = history.ranOut
      /\ history.failed \subseteq history'.failed
      /\ r \in history'.failed \cup taken' /\ taken' \subseteq {r}
  BY <1>1, <1>2 DEF SweepInv, SweepTypes, taken
<1>5. evicting' /\ collected /\ collected' /\ phase # "idle" /\ phase # "scan"
  BY <1>1 DEF evicting, collected
<1>6. SweepTypes'
  <2>1. removal' \in {<<>>} \cup (cleanupFiles \X {"catalog", "hit"})
    BY <1>1, <1>2
  <2> QED BY <1>1, <1>3, <1>4, <1>5, <2>1 DEF SweepInv, SweepTypes
<1>7. EvictionInv' /\ NamespacesApart'
  BY <1>1, <1>2, <1>3, <1>4, <1>5 DEF SweepInv, EvictionInv, NamespacesApart, evicting
<1>8. InOrder'
  <2>1. r \in cleanupFiles /\ \A q \in evict.queue : q \in cleanupFiles
    BY <1>2 DEF SweepInv, SweepTypes
  <2>2. r.lastUsed \in Int /\ \A q \in evict.queue : q.lastUsed \in Int
    BY <2>1, RecordFields DEF Ages
  <2>3. \A s \in evict'.scope \ evict'.queue, q \in evict'.queue : s.lastUsed >= q.lastUsed
    BY <1>1, <1>3, <2>2 DEF SweepInv, InOrder
  <2>4. recorded' = recorded
    BY <1>1, <1>3 DEF recorded
  <2> QED BY <1>4, <2>3, <2>4 DEF SweepInv, InOrder
<1>9. Counted' /\ WithinLimits'
  <2>1. present' = present
    BY <1>1, <1>3, <1>5 DEF present, evicting
  <2> QED BY <1>1, <1>3, <1>4, <1>5, <2>1 DEF SweepInv, Counted, WithinLimits, evicting
<1> QED BY <1>6, <1>7, <1>8, <1>9 DEF SweepInv

(***************************************************************************)
(* The loop ends when its scope is within the limit or its queue is empty, *)
(* and then every record has been evicted or could not be removed.         *)
(***************************************************************************)
LEMMA EndEvictionStep ==
    ASSUME CleanupConstants, SweepInv, EndEviction
    PROVE  SweepInv'
<1>1. /\ evicting /\ removal = <<>> /\ found' = found \cup evictionResult
      /\ phase' = IF phase = "evictNamespace" THEN "namespaces" ELSE "done"
      /\ evict' = noEviction
      /\ history' = [history EXCEPT !.ranOut = @ \/ evict.bytes > evict.limit]
      /\ UNCHANGED <<todo, removal, total>>
  BY DEF EndEviction, evicting
<1>2. evict.scope \subseteq cleanupFiles /\ found \subseteq cleanupFiles
      /\ evictionResult \subseteq evict.scope
  BY DEF SweepInv, SweepTypes, evictionResult
<1>3. /\ history' \in [failed : SUBSET cleanupFiles, evicted : SUBSET cleanupFiles,
                       ranOut : BOOLEAN]
      /\ history'.failed = history.failed /\ history'.evicted = history.evicted
  BY <1>1 DEF SweepInv, SweepTypes
<1>4. history'.ranOut = (history.ranOut \/ evict.bytes > evict.limit)
  BY <1>1 DEF SweepInv, SweepTypes
<1>5. /\ evict' \in [scope : SUBSET cleanupFiles, queue : SUBSET cleanupFiles,
                     removed : SUBSET cleanupFiles, bytes : Int, limit : Nat]
      /\ evict'.scope = {} /\ evict'.queue = {} /\ evict'.removed = {}
  BY <1>1 DEF noEviction
<1>6. /\ phase' \in {"namespaces", "done"} /\ ~evicting' /\ collected /\ collected'
         /\ taken = {} /\ taken' = {}
      /\ phase # "idle" /\ phase # "scan" /\ phase # "ttl"
  BY <1>1 DEF evicting, collected, taken
<1>7. SweepTypes'
  BY <1>1, <1>2, <1>3, <1>5, <1>6 DEF SweepInv, SweepTypes, Phases
<1>8. EvictionInv'
  <2>1. phase' = "done" => phase = "evictAll"
    BY <1>1 DEF evicting
  <2> QED BY <1>1, <1>5, <1>6, <2>1 DEF SweepInv, EvictionInv, evicting
<1>9. NamespacesApart'
  BY <1>1, <1>2, <1>5 DEF SweepInv, NamespacesApart, evicting
<1>10. InOrder'
  <2>1. recorded' \subseteq recorded
    BY <1>1, <1>2, <1>5 DEF recorded
  <2> QED BY <1>3, <1>5, <2>1 DEF SweepInv, InOrder
<1>11. ASSUME ~history'.ranOut
       PROVE  /\ ~history.ranOut /\ evictionResult = evict.scope \ evict.removed
              /\ ~needsEviction(evictionResult, evict.limit)
  <2>1. ~history.ranOut /\ ~(evict.bytes > evict.limit)
    BY <1>4, <1>11
  <2>2. evictionResult = evict.scope \ evict.removed
    BY <2>1 DEF evictionResult
  <2>3. evict.bytes = sizeSum(evict.scope \ evict.removed)
    BY <1>1 DEF SweepInv, WithinLimits
  <2> QED BY <2>1, <2>2, <2>3 DEF needsEviction
<1>12. Counted'
  <2> SUFFICES ASSUME ~history'.ranOut PROVE total' = sizeSum(present')
    BY <1>6 DEF Counted
  <2>1. present' = present
    BY <1>1, <1>5, <1>6, <1>11 DEF present
  <2> QED BY <1>1, <1>6, <1>11, <2>1 DEF SweepInv, Counted
<1>13. WithinLimits'
  <2> SUFFICES ASSUME ~history'.ranOut
               PROVE  fits(found') /\ (phase' = "done" => ~needsEviction(found', MaxCacheBytes))
    BY <1>6 DEF WithinLimits
  <2>1. CASE phase = "evictNamespace"
    <3>1. PICK n \in Namespaces : /\ evict.limit = MaxCacheBytesForNamespace(n) /\ evict.scope # {}
                                  /\ \A r \in evict.scope : cleanupNamespace(r.path) = n
      BY <2>1 DEF SweepInv, WithinLimits
    <3>2. fits(found)
      BY <1>11, <2>1 DEF SweepInv, WithinLimits
    <3>3. inNamespace(found', n) = evictionResult
      BY <1>1, <1>2, <2>1, <3>1 DEF inNamespace, SweepInv, NamespacesApart
    <3>4. \A m \in Namespaces : m # n => inNamespace(found', m) = inNamespace(found, m)
      BY <1>1, <1>2, <3>1 DEF inNamespace
    <3>5. fits(found')
      BY <1>11, <3>1, <3>2, <3>3, <3>4 DEF fits
    <3> QED BY <1>1, <2>1, <3>5
  <2>2. CASE phase = "evictAll"
    <3>1. found' = evictionResult /\ evict.limit = MaxCacheBytes
      BY <1>1, <2>2 DEF SweepInv, EvictionInv
    <3>2. fits(evict.scope)
      BY <1>11, <2>2 DEF SweepInv, WithinLimits
    <3>3. fits(found')
      BY <1>2, <3>1, <3>2, FittingAll
    <3> QED BY <1>11, <3>1, <3>3
  <2> QED BY <1>1, <2>1, <2>2 DEF evicting
<1> QED BY <1>7, <1>8, <1>9, <1>10, <1>12, <1>13 DEF SweepInv

-----------------------------------------------------------------------------
(* All steps together *)

LEMMA RemoveKeepsTypes ==
    ASSUME CleanupConstants, OutsideTypes, NEW r \in cleanupFiles, RemoveFile(r) \/ RemoveFails(r)
    PROVE  /\ files' \in [DOMAIN files' -> Ages] /\ DOMAIN files' \subseteq Files
           /\ faults' \in 0..MaxFaults
<1>1. r.path \in Files
  BY RecordFields
<1>2. CASE RemoveFile(r)
  <2>1. files' = Without(files, r.path) /\ faults' = faults
    BY <1>2 DEF RemoveFile
  <2> QED BY <1>1, <2>1, FilesChange DEF OutsideTypes
<1>3. CASE RemoveFails(r)
  BY <1>3 DEF RemoveFails, OutsideTypes, CleanupConstants
<1> QED BY <1>2, <1>3

LEMMA CleanupKeepsTypes ==
    ASSUME CleanupConstants, OutsideTypes, SweepInv, CleanupStep
    PROVE  OutsideTypes'
<1> USE DEF disk, bounds
<1>1. CASE StartCleanup \/ prepareCleanupResult \/ ScanFails \/ StartNamespaces \/ EnforceTotal
           \/ EndEviction \/ EndCleanup \/ \E n \in Namespaces : EvictNamespace(n)
  <2>1. UNCHANGED <<files, listed, hits, task, dropped, plans, faults>>
    BY <1>1 DEF StartCleanup, prepareCleanupResult, ScanFails, StartNamespaces, EnforceTotal,
                EndEviction, EndCleanup, EvictNamespace
  <2> QED BY <2>1 DEF OutsideTypes
<1>2. ASSUME NEW r \in todo, ExpireFile(r) PROVE OutsideTypes'
  <2>1. r \in cleanupFiles
    BY <1>2 DEF ExpireFile, SweepInv, SweepTypes, collected
  <2>2. RemoveFile(r) \/ RemoveFails(r)
    BY <1>2 DEF ExpireFile
  <2>3. /\ files' \in [DOMAIN files' -> Ages] /\ DOMAIN files' \subseteq Files
        /\ faults' \in 0..MaxFaults
    BY <2>1, <2>2, RemoveKeepsTypes
  <2> QED BY <1>2, <2>3 DEF ExpireFile, OutsideTypes
<1>3. ASSUME NEW r \in evict.queue, evictCleanupFilesBySize(r) PROVE OutsideTypes'
  <2>1. r \in cleanupFiles
    BY <1>3 DEF SweepInv, SweepTypes
  <2>2. RemoveFile(r) \/ RemoveFails(r)
    BY <1>3 DEF evictCleanupFilesBySize
  <2>3. /\ files' \in [DOMAIN files' -> Ages] /\ DOMAIN files' \subseteq Files
        /\ faults' \in 0..MaxFaults
    BY <2>1, <2>2, RemoveKeepsTypes
  <2> QED BY <1>3, <2>3 DEF evictCleanupFilesBySize, OutsideTypes
<1>4. CASE DeleteVariantByArtifactPath
  BY <1>4 DEF DeleteVariantByArtifactPath, OutsideTypes
<1>5. CASE FinishRemoval
  BY <1>5 DEF FinishRemoval, OutsideTypes, Without
<1> QED BY <1>1, <1>2, <1>3, <1>4, <1>5 DEF CleanupStep

\* Every step keeps the invariant.
LEMMA CleanupInvStep ==
    ASSUME CleanupConstants, OutsideTypes, SweepInv, [Next]_vars
    PROVE  OutsideTypes' /\ SweepInv'
<1>1. ASSUME OutsideTypes', UNCHANGED cleanup PROVE OutsideTypes' /\ SweepInv'
  BY <1>1, SweepFrame DEF SweepInv
<1>2. CASE UNCHANGED vars
  <2>1. OutsideTypes'
    BY <1>2 DEF vars, disk, bounds, OutsideTypes
  <2> QED BY <1>1, <1>2, <2>1 DEF vars
<1>3. ASSUME NEW w \in Workers, (\E p \in Paths : Plan(w, p)) \/ WorkerStep(w) \/ StageFails(w)
      PROVE  OutsideTypes' /\ SweepInv'
  BY <1>1, <1>3, WorkersKeepTypes
<1>4. ASSUME NEW p \in Paths, Serve(p) \/ ServeMissing(p) \/ DropVariants(p) \/ RemoveDropped(p)
      PROVE  OutsideTypes' /\ SweepInv'
  BY <1>1, <1>4, RequestsKeepTypes
<1>5. CASE Tick
  BY <1>1, <1>5, TickKeepsTypes
<1>6. CASE Crash
  <2>1. OutsideTypes'
    BY <1>6 DEF Crash, OutsideTypes, CleanupConstants
  <2> QED BY <1>6, <2>1, SweepStops DEF Crash
<1>7. CASE CleanupStep
  <2>1. OutsideTypes'
    BY <1>7, CleanupKeepsTypes
  <2>2. CASE ScanFails \/ EndCleanup
    BY <2>1, <2>2, SweepStops DEF ScanFails, EndCleanup
  <2>3. CASE StartCleanup \/ prepareCleanupResult
    BY <2>1, <2>3, StartCleanupStep, PrepareStep
  <2>4. ASSUME NEW r \in todo, ExpireFile(r) PROVE SweepInv'
    BY <2>4, ExpireStep
  <2>5. CASE StartNamespaces \/ EnforceTotal
    BY <2>1, <2>5, StartNamespacesStep, EnforceTotalStep
  <2>6. ASSUME NEW n \in Namespaces, EvictNamespace(n) PROVE SweepInv'
    BY <2>6, EvictNamespaceStep
  <2>7. ASSUME NEW r \in evict.queue, evictCleanupFilesBySize(r) PROVE SweepInv'
    BY <2>7, EvictStep
  <2>8. CASE EndEviction \/ DeleteVariantByArtifactPath
    BY <2>1, <2>8, EndEvictionStep, DeleteVariantStep
  <2>9. CASE FinishRemoval
    BY <2>1, <2>9, FinishExpiryStep, FinishEvictionStep
  <2> QED BY <1>7, <2>1, <2>2, <2>3, <2>4, <2>5, <2>6, <2>7, <2>8, <2>9 DEF CleanupStep
<1> QED BY <1>2, <1>3, <1>4, <1>5, <1>6, <1>7 DEF Next

-----------------------------------------------------------------------------
(* The theorems *)

\* The invariant holds in every behaviour.
LEMMA CleanupInvariant == Spec => [](OutsideTypes /\ SweepInv)
<1>1. Init => OutsideTypes /\ SweepInv
  BY CleanupAssumption, CleanupTypesInit, TwoKindsOfTypes, SweepInit
<1>2. OutsideTypes /\ SweepInv /\ [Next]_vars => OutsideTypes' /\ SweepInv'
  BY CleanupAssumption, CleanupInvStep
<1> QED BY <1>1, <1>2, PTL DEF Spec

(***************************************************************************)
(* TypeOK: the state of the artifact cache and of cleanupArtifacts         *)
(* (internal/pipeline) has its types, for any artifacts, namespaces,       *)
(* limits and workers.                                                     *)
(***************************************************************************)
THEOREM CleanupIsTyped == Spec => []TypeOK
<1>1. OutsideTypes /\ SweepInv => TypeOK
  <2> SUFFICES ASSUME OutsideTypes, SweepInv PROVE TypeOK
    OBVIOUS
  <2> USE CleanupAssumption
  <2>1. total >= 0 \/ history.ranOut
    <3>1. present \in SUBSET cleanupFiles \/ ~collected
      BY DEF present, SweepInv, SweepTypes, taken, collected
    <3>2. collected => sizeSum(present) \in Nat
      BY <3>1, SizeSums
    <3> QED BY <3>2 DEF SweepInv, Counted
  <2>2. (phase # "scan") => (todo \subseteq cleanupFiles)
    BY DEF SweepInv, SweepTypes, collected
  <2> QED BY <2>1, <2>2 DEF TypeOK, OutsideTypes, SweepInv, SweepTypes, EvictionInv, TaskStates
<1> QED BY <1>1, CleanupInvariant, PTL

(***************************************************************************)
(* RecentlyUsedStay: a file that evictCleanupFilesBySize removes was last  *)
(* used no later than any file of its namespace that it keeps, except one  *)
(* it failed to remove, whatever the limits and the order in which the     *)
(* namespaces are taken.                                                   *)
(***************************************************************************)
THEOREM EvictionByLastUse == Spec => []RecentlyUsedStay
<1>1. SweepInv => RecentlyUsedStay
  BY DEF SweepInv, InOrder, RecentlyUsedStay, recorded
<1> QED BY <1>1, CleanupInvariant, PTL

(***************************************************************************)
(* LimitsEnforced: when cleanupArtifacts ends without having run out of    *)
(* files to remove, what it keeps is within the limit of each namespace    *)
(* and the limit for all, whichever removals failed.                       *)
(***************************************************************************)
THEOREM CleanupKeepsLimits == Spec => []LimitsEnforced
<1>1. SweepInv => LimitsEnforced
  BY DEF SweepInv, WithinLimits, LimitsEnforced, fits
<1> QED BY <1>1, CleanupInvariant, PTL

(***************************************************************************)
(* The three races of DanglingOnlyInRaces: a removal of the artifact, a    *)
(* worker about to list it, a rescan that has unlisted it.                 *)
(***************************************************************************)
Race(p) ==
    \/ removal' # <<>> /\ removal'[1].path = p
    \/ \E w \in Workers : task[w] = [at |-> "upsert", path |-> p]
    \/ p \in dropped

(***************************************************************************)
(* A step that leaves a listed path without its file belongs to one of     *)
(* them.                                                                   *)
(***************************************************************************)
LEMMA DanglingStep ==
    ASSUME CleanupConstants, OutsideTypes, SweepInv, [Next]_vars,
           NEW p \in Paths, Dangling(p)', ~Dangling(p)
    PROVE  Race(p)
<1>1. p \in listed' /\ p \notin DOMAIN files'
  BY DEF Dangling, Exists
<1>2. p \notin listed \/ p \in DOMAIN files
  BY DEF Dangling, Exists
<1>3. \A w \in Workers, q \in Paths : Temp(w, q) # p
  BY DEF Temp, CleanupConstants
<1> USE DEF disk, bounds
<1>4. CASE UNCHANGED <<files, listed>>
  BY <1>1, <1>2, <1>4
<1>5. ASSUME NEW w \in Workers, (\E q \in Paths : Plan(w, q)) \/ WorkerStep(w) \/ StageFails(w)
      PROVE  Race(p)
  <2>1. CASE \E q \in Paths : Plan(w, q)
    BY <1>4, <2>1 DEF Plan
  <2>2. CASE WriteTemp(w)
    BY <1>1, <1>2, <2>2 DEF WriteTemp, written, With
  <2>3. CASE Rename(w)
    <3>1. Temp(w, task[w].path) # p
      BY <1>3, <2>3, TaskIsTyped DEF Rename, At
    <3> QED BY <1>1, <1>2, <2>3, <3>1 DEF Rename, With, Without
  <2>4. CASE UpsertVariant(w)
    <3>1. task[w] = [at |-> "upsert", path |-> task[w].path]
      BY <2>4, TaskIsTyped DEF UpsertVariant, At
    <3>2. p = task[w].path
      BY <1>1, <1>2, <2>4 DEF UpsertVariant
    <3> QED BY <3>1, <3>2 DEF Race
  <2>5. CASE StageFails(w)
    <3>1. Temp(w, task[w].path) # p
      BY <1>3, <2>5, TaskIsTyped DEF StageFails
    <3> QED BY <1>1, <1>2, <2>5, <3>1 DEF StageFails, written, With, Without
  <2> QED BY <1>5, <2>1, <2>2, <2>3, <2>4, <2>5 DEF WorkerStep
<1>6. ASSUME NEW q \in Paths, Serve(q) \/ ServeMissing(q) \/ DropVariants(q) \/ RemoveDropped(q)
      PROVE  Race(p)
  <2>1. CASE Serve(q) \/ ServeMissing(q) \/ DropVariants(q)
    BY <1>1, <1>2, <2>1 DEF Serve, ServeMissing, DropVariants
  <2>2. CASE RemoveDropped(q)
    BY <1>1, <1>2, <2>2 DEF RemoveDropped, Without, Race
  <2> QED BY <1>6, <2>1, <2>2
<1>7. CASE Tick \/ Crash
  BY <1>1, <1>2, <1>7 DEF Tick, Crash, older
<1>8. CASE CleanupStep
  <2>1. ASSUME NEW r, RemoveFile(r) \/ RemoveFails(r), listed' = listed PROVE Race(p)
    BY <1>1, <1>2, <2>1 DEF RemoveFile, RemoveFails, Without, Race
  <2>2. ASSUME NEW r \in todo, ExpireFile(r) PROVE Race(p)
    BY <2>1, <2>2 DEF ExpireFile
  <2>3. ASSUME NEW r \in evict.queue, evictCleanupFilesBySize(r) PROVE Race(p)
    BY <2>1, <2>3 DEF evictCleanupFilesBySize
  <2>4. CASE DeleteVariantByArtifactPath
    BY <1>1, <1>2, <2>4 DEF DeleteVariantByArtifactPath
  <2>5. CASE \/ StartCleanup \/ prepareCleanupResult \/ ScanFails \/ StartNamespaces \/ EnforceTotal
             \/ EndEviction \/ EndCleanup \/ FinishRemoval \/ \E n \in Namespaces :
                    EvictNamespace(n)
    BY <1>4, <2>5 DEF StartCleanup, prepareCleanupResult, ScanFails, StartNamespaces, EnforceTotal,
                      EndEviction, EndCleanup, FinishRemoval, EvictNamespace
  <2> QED BY <1>8, <2>2, <2>3, <2>4, <2>5 DEF CleanupStep
<1>9. CASE UNCHANGED vars
  BY <1>4, <1>9 DEF vars
<1> QED BY <1>5, <1>6, <1>7, <1>8, <1>9 DEF Next

(***************************************************************************)
(* DanglingOnlyInRaces: a variant of the catalog loses its artifact only   *)
(* while a removal, a worker or a rescan is on its way between the file    *)
(* and the catalog.                                                        *)
(***************************************************************************)
THEOREM OnlyRacesDangle == Spec => DanglingOnlyInRaces
<1>1. OutsideTypes /\ SweepInv /\ [Next]_vars =>
        [\A p \in Paths : Dangling(p)' /\ ~Dangling(p) =>
          \/ removal' # <<>> /\ removal'[1].path = p
          \/ \E w \in Workers : task[w] = [at |-> "upsert", path |-> p]
          \/ p \in dropped]_vars
  BY DanglingStep, CleanupAssumption DEF Race
<1>2. Spec => [][Next]_vars
  BY DEF Spec
<1> QED BY <1>1, <1>2, CleanupInvariant, PTL DEF DanglingOnlyInRaces

=============================================================================
