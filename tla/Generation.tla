----------------------------- MODULE Generation -----------------------------
(***************************************************************************)
(* Generation of variants, of internal/pipeline: workers of the queue and  *)
(* of the warm-up process requests.  For every stage a worker plans the    *)
(* tasks that the catalog does not answer yet, executes each one once for  *)
(* all that ask for it at a time (singleflight), and lists what it made.   *)
(* Image tasks share two budgets, sources and memory, that are handed out  *)
(* in the order of asking (golang.org/x/sync/semaphore).                   *)
(*                                                                         *)
(* Meanwhile sources are edited and rescanned, artifacts are cleaned up,   *)
(* and contexts end.  A content is also its hash: an edit may bring back   *)
(* one that was there before, and neither a rescan nor a worker, which     *)
(* compare hashes at most, can tell it from one that never left.           *)
(***************************************************************************)
EXTENDS ImageMemory, SequencesExt

CONSTANTS
    Workers, Warmers,   \* goroutines of the queue and of the warm-up
    Assets,
    Requests,           \* [path, encodings, formats, widths], normalized
    Encodings,          \* the names of the compression strategies, in order
    Compressible,       \* assets of a compressible media type
    SourceFormat,       \* of each asset; "" when it is no image
    Supported,          \* formats the engine reads and writes, in order
    ConfigFormats, ConfigWidths, MaxOutputVariants, SavingPolicy,
    Picture,            \* asset and content: [w, h, bytes]
    MaxConcurrentSources,
    MaxContent, MaxRequests, MaxEvents    \* bounds

ASSUME GenerationAssumption ==
    /\ IsFiniteSet(Workers) /\ Warmers \subseteq Workers /\ Compressible \subseteq Assets
    /\ \A r \in Requests : /\ r.path \in Assets
                          /\ r.encodings \in Seq(STRING) /\ r.formats \in Seq(STRING)
                          /\ r.widths \in Seq(Int)
    /\ {Encodings, Supported, ConfigFormats} \subseteq Seq(STRING) /\ ConfigWidths \in Seq(Int)
    /\ SourceFormat \in [Assets -> STRING] /\ SavingPolicy \in BOOLEAN
    /\ {MaxOutputVariants, MaxConcurrentSources, MaxContent, MaxRequests, MaxEvents} \subseteq Nat
    /\ MaxContent > 0 /\ Picture \in [Assets -> [1 .. MaxContent -> [w : Nat, h : Nat, bytes : Nat]]]

VARIABLES
    src, assets,        \* content on disk and hash in the catalog; 0: none
    takenBack,          \* history: contents that came back while the catalog, or a
                        \* worker, was still at them
    listed,             \* variants of the catalog: key -> hash
    files,              \* artifacts: key and hash -> content
    job,                \* what each worker is doing
    slots, memory,      \* what is taken of the budgets
    slotQueue, memoryQueue,
    canceled,           \* contexts that have ended
    requests,           \* bound: requests taken
    events              \* bound: edits, cleanups, contexts that ended, failed operations

outside == <<src, assets, takenBack, canceled>>
budgets == <<slots, memory, slotQueue, memoryQueue>>
vars == <<outside, listed, files, job, budgets, requests, events>>

\* newStages: in the order of the registrations
Stages == <<"image", "compression">>

Idle == [pc |-> "idle", path |-> "", encodings |-> <<>>, formats |-> <<>>, widths |-> <<>>,
         hash |-> 0, stage |-> 1, tasks |-> <<>>, head |-> 0, body |-> 0, bytes |-> 0,
         results |-> <<>>, out |-> <<>>]

Init ==
    /\ src = [p \in Assets |-> 1] /\ assets = src
    /\ takenBack = [p \in Assets |-> {}]
    /\ listed = <<>> /\ files = <<>>
    /\ job = [w \in Workers |-> Idle]
    /\ slots = 0 /\ memory = 0 /\ slotQueue = <<>> /\ memoryQueue = <<>>
    /\ canceled = {} /\ requests = 0 /\ events = 0

At(w, pc) == job[w].pc = pc
ended(w) == (IF w \in Warmers THEN "warm" ELSE "queue") \in canceled
Go(w, j) == job' = [job EXCEPT ![w] = j]

\* The key a variant is listed under, and its artifact.
encodingKey(p, e) == [path |-> p, encoding |-> e, format |-> "", width |-> 0]
imageKey(p, f, width) == [path |-> p, encoding |-> "", format |-> f, width |-> width]
usable(key, hash) == key \in DOMAIN listed /\ listed[key] = hash /\ <<key, hash>> \in DOMAIN files

without(f, S) == [x \in DOMAIN f \ S |-> f[x]]
with(f, x, value) == [y \in DOMAIN f \cup {x} |-> IF y = x THEN value ELSE f[y]]

\* The elements of a sequence that are in S
keep(s, S) ==
    LET kept[i \in 0 .. Len(s)] ==
            IF i = 0 THEN <<>> ELSE IF s[i] \in S THEN Append(kept[i - 1], s[i]) ELSE kept[i - 1]
    IN  kept[Len(s)]

Event == events < MaxEvents /\ events' = events + 1
NoEvent == UNCHANGED events

-----------------------------------------------------------------------------
(* The rest of the system *)

\* What the catalog lists the file with, and what workers make variants of
pending(p) == {assets[p]} \cup {job[w].hash : w \in {x \in Workers : job[x].path = p}}

\* The file gets another content, one it had before or a new one, or is removed.
EditSource(p) ==
    /\ Event
    /\ \E v \in (0 .. MaxContent) \ {src[p]} :
          /\ src' = [src EXCEPT ![p] = v]
          /\ takenBack' = [takenBack EXCEPT ![p] = @ \cup ({v} \cap pending(p))]
    /\ UNCHANGED <<assets, canceled, listed, files, job, budgets, requests>>

\* upsertAsset and removeAsset of a rescan drop the variants of what changed: of
\* a file whose hash is another one.
Rescan(p) ==
    /\ assets[p] # src[p]
    /\ assets' = [assets EXCEPT ![p] = src[p]]
    /\ listed' = without(listed, {k \in DOMAIN listed : k.path = p})
    /\ NoEvent /\ UNCHANGED <<src, takenBack, canceled, files, job, budgets, requests>>

\* cleanup takes a variant out of the catalog and removes its artifact
CleanUp(f) ==
    /\ Event
    /\ files' = without(files, {f})
    /\ listed' = without(listed, {k \in DOMAIN listed : <<k, listed[k]>> = f})
    /\ UNCHANGED <<outside, job, budgets, requests>>

Cancel(c) ==
    /\ c \notin canceled /\ canceled' = canceled \cup {c} /\ Event
    /\ UNCHANGED <<src, assets, takenBack, listed, files, job, budgets, requests>>

-----------------------------------------------------------------------------
(* Planning *)

supportedOf(formats) == keep(formats, ToSet(Supported))

planFormats(p, wanted) ==
    LET asked == supportedOf(wanted)
        source == IF SourceFormat[p] \in ToSet(ConfigFormats) THEN <<>> ELSE <<SourceFormat[p]>>
    IN  IF asked # <<>> THEN asked ELSE supportedOf(ConfigFormats \o source)

planWidths(p, wantedWidths, wantedFormats, formats) ==
    IF wantedWidths # <<>> THEN wantedWidths
    ELSE IF wantedFormats # <<>> THEN <<0>>
    ELSE (IF ToSet(formats) \subseteq {SourceFormat[p]} THEN <<>> ELSE <<0>>) \o ConfigWidths

shouldCreateImageTask(p, hash, f, width) ==
    /\ width >= 0 /\ ~(width = 0 /\ f = SourceFormat[p])
    /\ ~usable(imageKey(p, f, width), hash)

planImageVariants(p, hash, formats, widths) ==
    FlattenSeq([i \in DOMAIN formats |->
        LET ofFormat == [j \in DOMAIN widths |-> [format |-> formats[i], width |-> widths[j]]]
        IN  keep(ofFormat,
                 {v \in ToSet(ofFormat) : shouldCreateImageTask(p, hash, v.format, v.width)})])

limitImageVariantTasks(variants) ==
    IF MaxOutputVariants = 0 \/ Len(variants) <= MaxOutputVariants THEN variants
    ELSE SubSeq(variants, 1, MaxOutputVariants)

\* one task with all the variants of the image
planImage(j) ==
    LET variants == limitImageVariantTasks(planImageVariants(j.path, j.hash, j.formats, j.widths))
    IN  IF SourceFormat[j.path] \notin ToSet(Supported) \/ variants = <<>> THEN <<>> ELSE <<variants>>

\* one task for each encoding
planCompression(j) ==
    LET asked == keep(j.encodings, ToSet(Encodings))
        planned == IF asked = <<>> THEN Encodings ELSE asked
    IN  IF j.path \notin Compressible THEN <<>>
        ELSE keep(planned, {e \in ToSet(Encodings) : ~usable(encodingKey(j.path, e), j.hash)})

\* process: FindAsset and the check of the context.  The formats and the widths that
\* planImage plans follow from the request alone; the job holds them.
process(w, r) ==
    LET formats == planFormats(r.path, r.formats) IN
    /\ At(w, "idle") /\ requests < MaxRequests /\ requests' = requests + 1
    /\ IF assets[r.path] = 0 \/ ended(w) THEN UNCHANGED job
       ELSE Go(w, [Idle EXCEPT !.pc = "plan", !.hash = assets[r.path], !.path = r.path,
                               !.encodings = r.encodings, !.formats = formats,
                               !.widths = planWidths(r.path, r.widths, r.formats, formats)])
    /\ NoEvent /\ UNCHANGED <<outside, listed, files, budgets>>

Begin(w, r) == w \notin Warmers /\ process(w, r)

\* An asset of AllAssets, for which nothing is preferred
Warm(w, p) ==
    /\ w \in Warmers
    /\ process(w, [path |-> p, encodings |-> <<>>, formats |-> <<>>, widths |-> <<>>])

Plan(w) ==
    /\ At(w, "plan")
    /\ Go(w, [job[w] EXCEPT !.pc = "task",
                            !.tasks = IF Stages[job[w].stage] = "image" THEN planImage(job[w])
                                      ELSE planCompression(job[w])])
    /\ NoEvent /\ UNCHANGED <<outside, listed, files, budgets, requests>>

-----------------------------------------------------------------------------
(* executeStageTaskBatch *)

\* buildStageTaskKey
taskKey(j) == <<j.stage, j.path, j.hash, Head(j.tasks)>>
executing == {"run", "write", "slot", "load", "memory", "generate", "store"}
sameTask(x, w) == job[x].tasks # <<>> /\ taskKey(job[x]) = taskKey(job[w])

Execute(w) ==
    /\ At(w, "task") /\ job[w].tasks # <<>>
    /\ LET leading == \E x \in Workers : job[x].pc \in executing /\ sameTask(x, w)
       IN  Go(w, [job[w] EXCEPT !.pc = IF leading THEN "joined" ELSE "run"])
    /\ NoEvent /\ UNCHANGED <<outside, listed, files, budgets, requests>>

NextStage(w) ==
    /\ At(w, "task") /\ job[w].tasks = <<>>
    /\ IF job[w].stage = Len(Stages) THEN Go(w, Idle)
       ELSE Go(w, [job[w] EXCEPT !.pc = "plan", !.stage = job[w].stage + 1])
    /\ NoEvent /\ UNCHANGED <<outside, listed, files, budgets, requests>>

\* What the leader returns is returned to all that joined it: the variants, none
\* when it was skipped, or an error, with which process ends.
sharing(w) == {w} \cup {x \in Workers : At(x, "joined") /\ sameTask(x, w)}
Succeed(w, variants) ==
    job' = [x \in Workers |-> IF x \notin sharing(w) THEN job[x]
              ELSE [job[x] EXCEPT !.pc = "upsert", !.out = variants, !.results = <<>>,
                                  !.head = 0, !.body = 0, !.bytes = 0]]
Skip(w) == Succeed(w, <<>>)
Fail(w) == job' = [x \in Workers |-> IF x \in sharing(w) THEN Idle ELSE job[x]]

\* An operation fails, or the context has ended, or the source is gone.
Broken(w) == Fail(w) /\ Event
Interrupted(w) == (ended(w) \/ src[job[w].path] = 0) /\ Fail(w) /\ NoEvent
Readable(w) == ~ended(w) /\ src[job[w].path] # 0 /\ NoEvent

\* upsertStageVariant, for one variant after the other
Upsert(w) ==
    LET out == job[w].out IN
    /\ At(w, "upsert")
    /\ IF out = <<>> THEN Go(w, [job[w] EXCEPT !.pc = "task", !.tasks = Tail(@)])
                           /\ UNCHANGED listed
       ELSE IF assets[job[w].path] = 0 THEN Go(w, Idle) /\ UNCHANGED listed     \* ErrAssetNotFound
       ELSE /\ Go(w, [job[w] EXCEPT !.out = Tail(out)])
            /\ listed' = with(listed, Head(out), job[w].hash)
    /\ NoEvent /\ UNCHANGED <<outside, files, budgets, requests>>

-----------------------------------------------------------------------------
(* The compression stage *)

\* Execute up to the write: the context ended, the source cannot be read, is too
\* small, cannot be compressed, does not get smaller, or is there to be written.
Compress(w) ==
    /\ At(w, "run") /\ Stages[job[w].stage] = "compression"
    /\ \/ Broken(w) \/ Interrupted(w)
       \/ Readable(w) /\ Skip(w)
       \/ Readable(w) /\ Go(w, [job[w] EXCEPT !.pc = "write", !.body = src[job[w].path]])
    /\ UNCHANGED <<outside, listed, files, budgets, requests>>

\* Mutant: the artifact goes where the catalog's asset is by now.
WriteUnderCurrentHash(w) ==
    LET key == encodingKey(job[w].path, Head(job[w].tasks)) IN
    /\ At(w, "write")
    /\ \/ Broken(w) /\ UNCHANGED files
       \/ /\ NoEvent /\ Succeed(w, <<key>>)
          /\ files' = with(files, <<key, assets[job[w].path]>>, job[w].body)
    /\ UNCHANGED <<outside, listed, budgets, requests>>

\* store.Write under the hash of the asset that was planned
WriteEncoding(w) ==
    LET key == encodingKey(job[w].path, Head(job[w].tasks)) IN
    /\ At(w, "write")
    /\ \/ Broken(w) /\ UNCHANGED files
       \/ NoEvent /\ Succeed(w, <<key>>) /\ files' = with(files, <<key, job[w].hash>>, job[w].body)
    /\ UNCHANGED <<outside, listed, budgets, requests>>

-----------------------------------------------------------------------------
(* The image stage *)

targets(j) == {v.width : v \in ToSet(Head(j.tasks))}
estimate(j, pic) == estimateImageBatchMemoryBytes(pic.w, pic.h, targets(j))

\* ExecuteBatch up to acquireSourceSlot.  resolveTargetFormat refuses nothing that
\* was planned; validatePipelineSourceFile takes the size.
AskForSlot(w) ==
    /\ At(w, "run") /\ Stages[job[w].stage] = "image"
    /\ \/ (Broken(w) \/ Interrupted(w)) /\ UNCHANGED slotQueue
       \/ /\ Readable(w)
          /\ Go(w, [job[w] EXCEPT !.pc = "slot",
                                  !.bytes = Picture[job[w].path][src[job[w].path]].bytes])
          /\ slotQueue' = Append(slotQueue, w)
    /\ UNCHANGED <<outside, listed, files, slots, memory, memoryQueue, requests>>

AcquireSlot(w) ==
    /\ At(w, "slot") /\ Head(slotQueue) = w
    /\ MaxConcurrentSources = 0 \/ slots < MaxConcurrentSources
    /\ slots' = slots + 1 /\ slotQueue' = Tail(slotQueue)
    /\ Go(w, [job[w] EXCEPT !.pc = "load"])
    /\ NoEvent /\ UNCHANGED <<outside, listed, files, memory, memoryQueue, requests>>

\* A wait ends with the context as well.
StopWaiting(w) ==
    /\ ended(w) /\ job[w].pc \in {"slot", "memory"} /\ Fail(w)
    /\ slotQueue' = Remove(slotQueue, w) /\ memoryQueue' = Remove(memoryQueue, w)
    /\ slots' = IF At(w, "memory") THEN slots - 1 ELSE slots
    /\ NoEvent /\ UNCHANGED <<outside, listed, files, memory, requests>>

\* loadSourceImage up to the wait for memory; the slot goes back on every early return
LoadSource(w) ==
    LET pic == Picture[job[w].path][src[job[w].path]]
        there == src[job[w].path] # 0
        admitted ==
            /\ imageSourceBytesFit(job[w].bytes)
            /\ validateImageSourceLimits(pic.w, pic.h)
            /\ ~exceeds(estimate(job[w], pic), MaxMemoryBytes)
    IN
    /\ At(w, "load")
    /\ \/ Broken(w) /\ slots' = slots - 1 /\ UNCHANGED memoryQueue
       \/ there /\ ~admitted /\ Skip(w) /\ slots' = slots - 1 /\ NoEvent /\ UNCHANGED memoryQueue
       \/ ~there /\ Fail(w) /\ slots' = slots - 1 /\ NoEvent /\ UNCHANGED memoryQueue
       \/ /\ there /\ admitted /\ NoEvent
          /\ Go(w, [job[w] EXCEPT !.pc = "memory", !.head = src[job[w].path],
                                  !.body = src[job[w].path], !.bytes = estimate(job[w], pic)])
          /\ memoryQueue' = Append(memoryQueue, w) /\ UNCHANGED slots
    /\ UNCHANGED <<outside, listed, files, memory, slotQueue, requests>>

AcquireMemory(w) ==
    /\ At(w, "memory") /\ Head(memoryQueue) = w
    /\ ~exceeds(memory + job[w].bytes, MaxMemoryBytes)
    /\ memory' = memory + job[w].bytes /\ memoryQueue' = Tail(memoryQueue)
    /\ Go(w, [job[w] EXCEPT !.pc = "generate"])
    /\ NoEvent /\ UNCHANGED <<outside, listed, files, slots, slotQueue, requests>>

\* Mutant: the memory is released only after success.
GenerateKeepingMemory(w) ==
    /\ At(w, "generate")
    /\ \/ Broken(w) /\ slots' = slots - 1 /\ UNCHANGED memory
       \/ /\ NoEvent /\ UNCHANGED slots /\ memory' = memory - job[w].bytes
          /\ Go(w, [job[w] EXCEPT !.pc = "store"])
    /\ UNCHANGED <<outside, listed, files, slotQueue, memoryQueue, requests>>

\* The pictures that are resized from the decoded source: one of each width
buildLibvipsPyramid(j) ==
    LET w == Picture[j.path][j.head].w IN {w} \cup uniqueImageOutputWidths(w, targets(j))

\* Each variant is exported from the picture of its real width.
exportLibvipsVariants(j) ==
    LET variants == Head(j.tasks)
        w == Picture[j.path][j.head].w
        export(v) == LET width == normalizedImageOutputWidth(w, v.width)
                     IN  [key |-> imageKey(j.path, v.format, width),
                          same |-> width = w /\ v.format = SourceFormat[j.path]]
    IN  [i \in DOMAIN variants |-> export(variants[i])]

\* The header is read by LoadSource, the pixels from the file as it is by and by.
ReadPixels(w) ==
    /\ At(w, "generate") /\ src[job[w].path] \notin {0, job[w].body}
    /\ Go(w, [job[w] EXCEPT !.body = src[job[w].path]])
    /\ NoEvent /\ UNCHANGED <<outside, listed, files, budgets, requests>>

\* generateLibvipsVariants with the releases that GenerateBatch defers: pictures, or
\* an error
Generate(w) ==
    LET results == exportLibvipsVariants(job[w]) IN
    /\ At(w, "generate") /\ memory' = memory - job[w].bytes
    /\ \/ Broken(w) /\ slots' = slots - 1
       \/ /\ NoEvent /\ UNCHANGED slots
          /\ \A i \in DOMAIN results : results[i].key.width \in buildLibvipsPyramid(job[w])
          /\ Go(w, [job[w] EXCEPT !.pc = "store", !.head = 0, !.bytes = 0, !.results = results])
    /\ UNCHANGED <<outside, listed, files, slotQueue, memoryQueue, requests>>

\* shouldSkipImageArtifact: a picture saves nothing, less than the policy asks, or enough
shouldSkipImageArtifact(result, saved) ==
    \/ saved = "nothing" /\ (result.same \/ SavingPolicy)
    \/ saved = "little" /\ SavingPolicy

\* writeImageVariants, one result after the other; then the slot goes back.  After a
\* failed write, what was written before it stays behind without being listed.
StoreImage(w) ==
    LET results == job[w].results IN
    /\ At(w, "store")
    /\ IF results = <<>> THEN slots' = slots - 1 /\ Succeed(w, job[w].out) /\ NoEvent /\ UNCHANGED files
       ELSE \/ slots' = slots - 1 /\ Broken(w) /\ UNCHANGED files
            \/ NoEvent /\ \E saved \in {"nothing", "little", "enough"} :
                 IF shouldSkipImageArtifact(Head(results), saved)
                 THEN Go(w, [job[w] EXCEPT !.results = Tail(@)]) /\ UNCHANGED <<slots, files>>
                 ELSE /\ Go(w, [job[w] EXCEPT !.results = Tail(@), !.out = Append(@, Head(results).key)])
                      /\ files' = with(files, <<Head(results).key, job[w].hash>>, job[w].body)
                      /\ UNCHANGED slots
    /\ UNCHANGED <<outside, listed, memory, slotQueue, memoryQueue, requests>>

-----------------------------------------------------------------------------
Work(w) ==
    \/ Plan(w) \/ Execute(w) \/ NextStage(w) \/ Upsert(w)
    \/ Compress(w) \/ WriteEncoding(w)
    \/ AskForSlot(w) \/ AcquireSlot(w) \/ StopWaiting(w)
    \/ LoadSource(w) \/ AcquireMemory(w) \/ Generate(w) \/ StoreImage(w)

Next ==
    \/ \E w \in Workers : Work(w) \/ ReadPixels(w)
    \/ \E w \in Workers : (\E r \in Requests : Begin(w, r)) \/ \E p \in Assets : Warm(w, p)
    \/ \E p \in Assets : EditSource(p) \/ Rescan(p)
    \/ \E f \in DOMAIN files : CleanUp(f)
    \/ \E c \in {"warm", "queue"} : Cancel(c)

\* A worker goes on; no context has to end, nothing has to be requested.
Spec == Init /\ [][Next]_vars /\ \A w \in Workers : WF_vars(Work(w))

-----------------------------------------------------------------------------
(* Properties *)

TypeOK ==
    /\ src \in [Assets -> 0 .. MaxContent] /\ assets \in [Assets -> 0 .. MaxContent]
    /\ takenBack \in [Assets -> SUBSET (0 .. MaxContent)]
    /\ slots \in 0 .. Cardinality(Workers) /\ memory \in Nat
    /\ ToSet(slotQueue) \cup ToSet(memoryQueue) \subseteq Workers
    /\ canceled \subseteq {"warm", "queue"} /\ requests \in 0 .. MaxRequests

(***************************************************************************)
(* ListedVariantsAreFresh: a source may change after its asset was planned *)
(* and before, or while, it is read, and what was read is not hashed again *)
(* (Execute, GenerateBatch).  When the catalog has caught up with the disk *)
(* a variant that it lists for the asset's hash, the only ones that are    *)
(* served, was made from that source: unless the content is one that was   *)
(* replaced and came back before the catalog and every worker at it were   *)
(* done with it, so that a variant made in between went unnoticed.         *)
(***************************************************************************)
ListedVariantsAreFresh ==
    \A k \in DOMAIN listed :
        usable(k, assets[k.path]) /\ assets[k.path] = src[k.path]
            /\ src[k.path] \notin takenBack[k.path]
        => files[<<k, listed[k]>>] = src[k.path]

(***************************************************************************)
(* MemoryWithinLimit: what the pictures that are generated at a time       *)
(* really take, resized ones included, is no more than MaxMemoryBytes,     *)
(* although the engine asks for it by an estimate in saturating numbers    *)
(* (estimateImageBatchMemoryBytes, acquireMemory).                         *)
(***************************************************************************)
MemoryWithinLimit ==
    LET busy == {w \in Workers : At(w, "generate")}
        taken(w) == LET pic == Picture[job[w].path][job[w].head]
                    IN  PictureBytes(pic.w, pic.h, targets(job[w]))
    IN  MaxMemoryBytes # 0 => MapThenSumSet(taken, busy) <= MaxMemoryBytes

(***************************************************************************)
(* GenerationEnds: every request ends and returns what it held, whoever    *)
(* else waits for the same task, for a slot or for memory, and whatever    *)
(* failed, was skipped or canceled before it.                              *)
(***************************************************************************)
GenerationEnds == <>[](/\ \A w \in Workers : At(w, "idle")
                       /\ slots = 0 /\ memory = 0 /\ slotQueue = <<>> /\ memoryQueue = <<>>)
=============================================================================
