------------------------------ MODULE Compiler ------------------------------
(***************************************************************************)
(* spack-compiler and the users of its bundles: Service.Compile scans the  *)
(* assets, generates their variants and writes all of them to one archive, *)
(* which is renamed to its place, while the assets are edited, the context *)
(* ends, operations fail or the process is killed.  A runtime extracts the *)
(* bundle (source.LocalFS), Decompile unpacks it, a Reader reads single    *)
(* files, and each of them may meet the bundle before or after.            *)
(***************************************************************************)
EXTENDS BundleFormat

CONSTANTS
    Assets,         \* paths of assets; one is also its path in the bundle
    Variants,       \* generated variants, named by their path in the bundle
    OwnerOf,        \* the asset of a variant
    Below,          \* pairs of paths: the first is a directory that the second lies in
    Initially,      \* the content of the assets at first
    Foreign,        \* bundles of other origin that may stand at the output path
    NoBundle,       \* there is no file at the output path
    NoFile,
    Sizes,          \* worker limits a batch may have
    MaxFaults,      \* bound: failing operations, ends of contexts, kills
    MaxReads        \* bound: files a Reader is asked for

ASSUME CompilerAssumption ==
    /\ OwnerOf \in [Variants -> Assets] /\ Assets \cap Variants = {}
    /\ Initially \in [Assets -> Bodies] /\ MaxFaults \in Nat /\ MaxReads \in Nat
    /\ IsFiniteSet(Assets) /\ IsFiniteSet(Variants)
    /\ NoFile \notin Assets \cup Variants \cup Bodies
    /\ \A f \in Assets \cup Variants : f \notin {Unsafe, IndexPath}   \* normalizeBundlePath
    /\ \A bundle \in Foreign : isArchive(bundle)
    /\ \A pair \in Below : pair[1] # pair[2]

VARIABLES
    src,            \* content of each source file, or NoFile
    pc,             \* where Compile is
    scanned,        \* of each asset of the catalog: the content its hash is of
    listed,         \* variants in the catalog
    artifacts,      \* the file of each variant: the content it was made from, or NoFile
    files,          \* sizes of the normalized files
    shas,           \* bundleFilePayload: digests
    temp,           \* the temporary file, or NoBundle
    out,            \* the file at the output path
    batch, canceled,
    x,              \* the extraction
    rd,             \* the Reader
    faults,
    first           \* history: what was at the output path when Compile began

compileVars == <<pc, scanned, listed, artifacts, files, shas, temp>>
vars == <<src, compileVars, out, batch, canceled, x, rd, faults, first>>

Run == INSTANCE ParallelRun WITH NoItem <- NoFile

emptyMap == [f \in {} |-> 0]
with(map, key, value) == [k \in DOMAIN map \cup {key} |-> IF k = key THEN value ELSE map[k]]
\* The file on disk behind a bundle file: an asset or an artifact.
contentOf(f) == IF f \in Assets THEN src[f] ELSE artifacts[f]
BundleFiles == DOMAIN scanned \cup listed

idleExtraction == [pc |-> "idle", source |-> TRUE, stream |-> <<>>, at |-> 1,
                   budget |-> noBudget, root |-> NoFile, faulty |-> FALSE]
idleReader == [loaded |-> FALSE, index |-> <<>>, from |-> NoBundle, read |-> NoFile, reads |-> 0]

Init ==
    /\ src = Initially /\ out \in Foreign \cup {NoBundle} /\ first = out
    /\ pc = "idle" /\ scanned = emptyMap /\ listed = {} /\ artifacts = [v \in Variants |-> NoFile]
    /\ files = emptyMap /\ shas = emptyMap /\ temp = NoBundle
    /\ batch = Run!noBatch /\ canceled = FALSE
    /\ x = idleExtraction /\ rd = idleReader /\ faults = 0

-----------------------------------------------------------------------------
(* The environment *)

\* What happens to assets and context after the compilation plays no role.
compiling == pc \in {"scan", "warm", "hash", "write"}

\* An asset is written again, or removed.
Edit(a) ==
    /\ compiling /\ faults < MaxFaults /\ faults' = faults + 1
    /\ \E body \in Bodies \cup {NoFile} : body # src[a] /\ src' = [src EXCEPT ![a] = body]
    /\ UNCHANGED <<compileVars, out, batch, canceled, x, rd, first>>

Cancel ==
    /\ ~canceled /\ compiling /\ faults < MaxFaults /\ faults' = faults + 1
    /\ canceled' = TRUE
    /\ UNCHANGED <<src, compileVars, out, batch, x, rd, first>>

-----------------------------------------------------------------------------
(* Compile *)

Ends(result) == pc' = result /\ batch' = Run!noBatch

(***************************************************************************)
(* Every error path: cleanupTempBundle, which does not look at the error   *)
(* of os.Remove, then the error.                                           *)
(***************************************************************************)
fail == Ends("error") /\ temp' \in {NoBundle, temp}

(***************************************************************************)
(* Scanner.Scan: the walk lists the files that are there, and a batch that *)
(* stops at the first error hashes them.                                   *)
(***************************************************************************)
Scan ==
    /\ pc = "idle" /\ pc' = "scan" /\ first' = out
    /\ \E size \in Sizes : Run!Begin("failFast", {a \in Assets : src[a] # NoFile}, size)
    /\ UNCHANGED <<src, scanned, listed, artifacts, files, shas, temp, out, canceled, x, rd, faults>>

BuildAsset(a) ==
    /\ pc = "scan"
    /\ IF src[a] = NoFile \/ Run!itemContextDone
       THEN Run!Return(a, IF Run!itemContextDone THEN "canceled" ELSE "failed") /\ UNCHANGED scanned
       ELSE Run!Return(a, "ok") /\ scanned' = with(scanned, a, src[a])
    /\ UNCHANGED <<src, pc, listed, artifacts, files, shas, temp, out, canceled, x, rd, faults, first>>

\* upsertCompileSnapshot, then Warm, a batch that collects its errors.
Warm ==
    /\ pc = "scan" /\ Run!Ended /\ Run!Errors = {}
    /\ pc' = "warm"
    /\ \E size \in Sizes : Run!Begin("collect", DOMAIN scanned, size)
    /\ UNCHANGED <<src, scanned, listed, artifacts, files, shas, temp, out, canceled, x, rd, faults, first>>

(***************************************************************************)
(* process of one asset: the variants are made from the source as it is    *)
(* now and listed under the hash of the scan.  A stage skips a variant     *)
(* that would not pay (ErrVariantSkipped).                                 *)
(***************************************************************************)
Generate(a) ==
    LET mine == {v \in Variants : OwnerOf[v] = a} IN
    /\ pc = "warm"
    /\ IF Run!itemContextDone \/ (mine # {} /\ src[a] = NoFile)
       THEN /\ Run!Return(a, IF Run!itemContextDone THEN "canceled" ELSE "failed")
            /\ UNCHANGED <<listed, artifacts>>
       ELSE \E made \in SUBSET mine :
              /\ Run!Return(a, "ok")
              /\ listed' = listed \cup made
              /\ artifacts' = [v \in Variants |-> IF v \in made THEN src[a] ELSE artifacts[v]]
    /\ UNCHANGED <<src, pc, scanned, files, shas, temp, out, canceled, x, rd, faults, first>>

(***************************************************************************)
(* removeCleanupFile: the pipeline service of this process runs its        *)
(* cleanup loop as well, which takes the file of a variant first and its   *)
(* entry in the catalog later, or never if the variant was listed since.   *)
(***************************************************************************)
RemoveArtifact(v) ==
    /\ compiling /\ artifacts[v] # NoFile /\ faults < MaxFaults /\ faults' = faults + 1
    /\ artifacts' = [artifacts EXCEPT ![v] = NoFile]
    /\ UNCHANGED <<src, pc, scanned, listed, files, shas, temp, out, batch, canceled, x, rd, first>>

DropVariant(v) ==
    /\ compiling /\ v \in listed /\ artifacts[v] = NoFile
    /\ listed' = listed \ {v}
    /\ UNCHANGED <<src, pc, scanned, artifacts, files, shas, temp, out, batch, canceled, x, rd,
                   faults, first>>

(***************************************************************************)
(* normalizeWriteInputs: every file is there, and all are within the       *)
(* limits.  The size is the one found now.                                 *)
(***************************************************************************)
sizesOf(paths) == [f \in paths |-> SizeOf[contentOf(f)]]
withinLimits(sizes) ==
    withinBudget(sizes) /\ \A f \in DOMAIN sizes : sizes[f] <= MaxFileBytes

Write ==
    /\ pc = "warm" /\ Run!Ended /\ Run!Errors = {}
    /\ \A f \in BundleFiles : contentOf(f) # NoFile
    /\ withinLimits(sizesOf(BundleFiles))
    /\ pc' = "hash" /\ files' = sizesOf(BundleFiles)
    /\ \E size \in Sizes : Run!Begin("failFast", BundleFiles, size)
    /\ UNCHANGED <<src, scanned, listed, artifacts, shas, temp, out, canceled, x, rd, faults, first>>

WriteRefused ==
    /\ pc = "warm" /\ Run!Ended /\ Run!Errors = {}
    /\ \/ \E f \in BundleFiles : contentOf(f) = NoFile
       \/ /\ \A f \in BundleFiles : contentOf(f) # NoFile
          /\ ~withinLimits(sizesOf(BundleFiles))
    /\ fail
    /\ UNCHANGED <<src, scanned, listed, artifacts, files, shas, out, canceled, x, rd, faults, first>>

\* openBundleSourceFile with the size check of both passes over the files.
sameSize(f) == contentOf(f) # NoFile /\ SizeOf[contentOf(f)] = files[f]

\* prepareBundleFilePayload
HashFile(f) ==
    /\ pc = "hash"
    /\ IF Run!itemContextDone \/ ~sameSize(f)
       THEN Run!Return(f, IF Run!itemContextDone THEN "canceled" ELSE "failed") /\ UNCHANGED shas
       ELSE Run!Return(f, "ok") /\ shas' = with(shas, f, contentOf(f))
    /\ UNCHANGED <<src, pc, scanned, listed, artifacts, files, temp, out, canceled, x, rd, faults, first>>

\* The hash of the scan goes into the index as the ETag, also for variants.
buildIndex ==
    LET etagOf(f) == scanned[IF f \in Assets THEN f ELSE OwnerOf[f]]
        order == CHOOSE s \in [1..Cardinality(DOMAIN files) -> DOMAIN files] :
                    \A i, j \in DOMAIN s : s[i] = s[j] => i = j
    IN  [i \in DOMAIN order |-> indexFile(order[i], files[order[i]], shas[order[i]], etagOf(order[i]))]

WriteIndex ==
    /\ pc = "hash" /\ Run!Ended /\ Run!Errors = {}
    /\ Ends("write") /\ temp' = <<indexEntry(buildIndex)>>
    /\ UNCHANGED <<src, scanned, listed, artifacts, files, shas, out, canceled, x, rd, faults, first>>

toWrite(f) == \A i \in 2..Len(temp) : temp[i].path # f

\* Mutation: the second reading is not compared with the first.
WriteFileUnchecked(f) ==
    /\ pc = "write" /\ toWrite(f)
    /\ IF canceled \/ ~sameSize(f)
       THEN fail
       ELSE temp' = Append(temp, payloadEntry(f, contentOf(f))) /\ UNCHANGED <<pc, batch>>
    /\ UNCHANGED <<src, scanned, listed, artifacts, files, shas, out, canceled, x, rd, faults, first>>

\* writePreparedBundleFile: the file is read again and must not have changed.
WriteFile(f) ==
    /\ pc = "write" /\ toWrite(f)
    /\ IF canceled \/ ~sameSize(f) \/ contentOf(f) # shas[f]
       THEN fail
       ELSE temp' = Append(temp, payloadEntry(f, contentOf(f))) /\ UNCHANGED <<pc, batch>>
    /\ UNCHANGED <<src, scanned, listed, artifacts, files, shas, out, canceled, x, rd, faults, first>>

\* Close, chmod and rename.
Publish ==
    /\ pc = "write" /\ ~\E f \in DOMAIN files : toWrite(f)
    /\ Ends("ok") /\ out' = temp /\ temp' = NoBundle
    /\ UNCHANGED <<src, scanned, listed, artifacts, files, shas, canceled, x, rd, faults, first>>

\* A batch ends with errors: those of its items or the end of the context.
BatchFails ==
    /\ pc \in {"scan", "warm", "hash"} /\ Run!Ended /\ Run!Errors # {}
    /\ fail
    /\ UNCHANGED <<src, scanned, listed, artifacts, files, shas, out, canceled, x, rd, faults, first>>

\* Writing, closing, changing the mode or renaming the temporary file fails.
WriteFails ==
    /\ pc = "write" /\ faults < MaxFaults /\ faults' = faults + 1
    /\ fail
    /\ UNCHANGED <<src, scanned, listed, artifacts, files, shas, out, canceled, x, rd, first>>

Kill ==
    /\ compiling /\ faults < MaxFaults /\ faults' = faults + 1
    /\ Ends("killed")
    /\ UNCHANGED <<src, scanned, listed, artifacts, files, shas, temp, out, canceled, x, rd, first>>

\* The scheduling of whichever batch is under way.
Schedule ==
    /\ \/ \E i \in batch.items : Run!Hand(i) \/ Run!Start(i)
       \/ Run!GiveUpHanding
    /\ UNCHANGED <<src, compileVars, out, canceled, x, rd, faults, first>>

-----------------------------------------------------------------------------
(* Extract, ExtractReadOnly and Decompile.  The stream stays what it was   *)
(* when it was opened, also when another file is renamed over it.          *)

extractionFails(e) == [e EXCEPT !.pc = "failed", !.root = IF e.source THEN NoFile ELSE @]

Extract(source) ==
    /\ x.pc = "idle" /\ out # NoBundle
    /\ LET begun == [pc |-> "entries", source |-> source, stream |-> out, at |-> 2,
                     budget |-> noBudget, root |-> emptyMap, faulty |-> FALSE]
       IN  x' = IF hasIndex(out) THEN begun ELSE extractionFails(begun)
    /\ UNCHANGED <<src, compileVars, out, batch, canceled, rd, faults, first>>

\* The path is a directory of a file that is there, or lies below one.
obstructed(root, path) == \E p \in DOMAIN root : <<p, path>> \in Below \/ <<path, p>> \in Below

\* Mutation: a temporary directory outlives the failure.
extractEntryKeepingRoot ==
    LET e == x.stream[x.at] IN
    /\ x.pc = "entries" /\ x.at <= Len(x.stream)
    /\ x' = IF /\ e.path # IndexPath
               /\ budgetAllows(x.budget, headerSize(e))
               /\ verifyPayloadEntry(e, x.stream[1].files, DOMAIN x.root)
               /\ ~obstructed(x.root, e.path)
            THEN [x EXCEPT !.at = @ + 1, !.budget = budgetAdd(@, headerSize(e)),
                           !.root = with(@, e.path, e.body)]
            ELSE [x EXCEPT !.pc = "failed"]
    /\ UNCHANGED <<src, compileVars, out, batch, canceled, rd, faults, first>>

(***************************************************************************)
(* extractBundleEntries: one payload.  Where Verify only compares, this    *)
(* creates directories and files, and each must be new or of its kind      *)
(* (MkdirAll, O_EXCL).                                                     *)
(***************************************************************************)
extractPayloadEntry ==
    LET e == x.stream[x.at] IN
    /\ x.pc = "entries" /\ x.at <= Len(x.stream)
    /\ x' = IF /\ e.path # IndexPath
               /\ budgetAllows(x.budget, headerSize(e))
               /\ verifyPayloadEntry(e, x.stream[1].files, DOMAIN x.root)
               /\ ~obstructed(x.root, e.path)
            THEN [x EXCEPT !.at = @ + 1, !.budget = budgetAdd(@, headerSize(e)),
                           !.root = with(@, e.path, e.body)]
            ELSE extractionFails(x)
    /\ UNCHANGED <<src, compileVars, out, batch, canceled, rd, faults, first>>

\* ensureAllIndexFilesSeen
ExtractEnd ==
    /\ x.pc = "entries" /\ x.at > Len(x.stream)
    /\ x' = IF declaredPaths(x.stream[1].files) \subseteq DOMAIN x.root
            THEN [x EXCEPT !.pc = IF x.source THEN "readonly" ELSE "done"]
            ELSE extractionFails(x)
    /\ UNCHANGED <<src, compileVars, out, batch, canceled, rd, faults, first>>

\* makeExtractedTreeReadOnly, resolveLocalFSBundleRoot, newBundleSource
OpenSource ==
    /\ x.pc = "readonly" /\ x' = [x EXCEPT !.pc = "open"]
    /\ UNCHANGED <<src, compileVars, out, batch, canceled, rd, faults, first>>

\* The context ends or a file operation fails.
ExtractionFault ==
    /\ x.pc \in {"entries", "readonly"} /\ faults < MaxFaults /\ faults' = faults + 1
    /\ x' = [extractionFails(x) EXCEPT !.faulty = TRUE]
    /\ UNCHANGED <<src, compileVars, out, batch, canceled, rd, first>>

\* LocalFS.Cleanup
CloseSource ==
    /\ x.pc = "open" /\ x' = [x EXCEPT !.pc = "closed", !.root = NoFile]
    /\ UNCHANGED <<src, compileVars, out, batch, canceled, rd, faults, first>>

-----------------------------------------------------------------------------
(* A Reader: it keeps the index and opens the file anew for each entry.    *)

LoadIndex ==
    /\ ~rd.loaded /\ out # NoBundle /\ readerIndexOk(out)
    /\ rd' = [rd EXCEPT !.loaded = TRUE, !.index = readerIndex(out), !.from = out]
    /\ UNCHANGED <<src, compileVars, out, batch, canceled, x, faults, first>>

\* Mutation: the entry is not compared with the index.
ReadFileUnverified(path) ==
    /\ rd.loaded /\ rd.reads < MaxReads /\ path \in declaredPaths(rd.index)
    /\ rd' = [rd EXCEPT !.reads = @ + 1,
                        !.read = IF entryFound(out, path) /\ readFileBody(out, path) # NoBody
                                 THEN payloadEntry(path, readFileBody(out, path)) ELSE NoFile]
    /\ UNCHANGED <<src, compileVars, out, batch, canceled, x, faults, first>>

ReadFile(path) ==
    /\ rd.loaded /\ rd.reads < MaxReads /\ path \in declaredPaths(rd.index)
    /\ rd' = [rd EXCEPT !.reads = @ + 1,
                        !.read = IF readFileOk(out, rd.index, path)
                                 THEN payloadEntry(path, readFileBody(out, path)) ELSE NoFile]
    /\ UNCHANGED <<src, compileVars, out, batch, canceled, x, faults, first>>

-----------------------------------------------------------------------------
CompileStep ==
    \/ Scan \/ Warm \/ Write \/ WriteRefused \/ WriteIndex \/ Publish \/ BatchFails \/ Schedule
    \/ \E f \in batch.running : BuildAsset(f) \/ Generate(f) \/ HashFile(f)
    \/ \E f \in DOMAIN files : WriteFile(f)
ExtractStep ==
    \/ \E source \in BOOLEAN : Extract(source)
    \/ extractPayloadEntry \/ ExtractEnd \/ OpenSource \/ CloseSource
ReadStep == LoadIndex \/ \E path \in declaredPaths(rd.index) : ReadFile(path)

Next ==
    \/ CompileStep \/ ExtractStep \/ ReadStep
    \/ \E a \in Assets : Edit(a)
    \/ \E v \in Variants : RemoveArtifact(v) \/ DropVariant(v)
    \/ Cancel \/ WriteFails \/ Kill \/ ExtractionFault

Spec == Init /\ [][Next]_vars /\ WF_vars(CompileStep)

-----------------------------------------------------------------------------
(***************************************************************************)
(* BatchesAccountForAll: what the three parallel passes of a compilation   *)
(* rely on (BatchAccountsForAll of ParallelRun).                           *)
(***************************************************************************)
BatchesAccountForAll == Run!BatchAccountsForAll

(***************************************************************************)
(* PublishedIsWhole: whatever is edited, fails, is canceled, killed or     *)
(* cleaned up on the way, the output path holds what it held before or a   *)
(* complete bundle that Verify accepts, with every asset of the scan and   *)
(* variants of these; Compile reports success exactly in the second case,  *)
(* and then leaves no temporary file behind.                               *)
(***************************************************************************)
PublishedIsWhole ==
    /\ pc # "ok" => out = first
    /\ pc = "ok" =>
         /\ Verify(out)
         /\ DOMAIN scanned \subseteq declaredPaths(out[1].files)
         /\ \A f \in declaredPaths(out[1].files) \ DOMAIN scanned :
              f \in Variants /\ OwnerOf[f] \in DOMAIN scanned
         /\ temp = NoBundle

(***************************************************************************)
(* ExtractionIsExact: an extraction or a source that was opened has the    *)
(* files of one bundle, all of them and as its index states, although the  *)
(* bundle may have been replaced meanwhile; it fails for no other reason   *)
(* than a fault, a bundle that Verify rejects, or one that declares a file *)
(* and another below it, which Verify lets pass and no extraction can      *)
(* create; and the temporary directory is gone when it fails or is closed. *)
(***************************************************************************)
Unpacked(bundle) ==
    [p \in declaredPaths(bundle[1].files) |-> fileOf(bundle[1].files, p).sha]
isTree(bundle) ==
    \A p, q \in declaredPaths(bundle[1].files) : <<p, q>> \notin Below
ExtractionIsExact ==
    /\ x.pc \in {"readonly", "open", "done"} =>
         Verify(x.stream) /\ isTree(x.stream) /\ x.root = Unpacked(x.stream)
    /\ x.pc = "failed" => x.faulty \/ ~Verify(x.stream) \/ ~isTree(x.stream)
    /\ x.pc \in {"failed", "closed"} /\ x.source => x.root = NoFile

(***************************************************************************)
(* ReaderSeesOneBundle: what a Reader returns is what the bundle whose     *)
(* index it has loaded holds under that path, also after another bundle    *)
(* has taken its place; and every file of a bundle that Verify accepts can *)
(* be read.                                                                *)
(***************************************************************************)
ReaderSeesOneBundle ==
    /\ rd.read # NoFile =>
         /\ rd.read.body = fileOf(rd.index, rd.read.path).sha
         /\ Verify(rd.from) => rd.read.body = Unpacked(rd.from)[rd.read.path]
    /\ out # NoBundle /\ Verify(out) =>
         /\ readerIndexOk(out)
         /\ \A p \in declaredPaths(readerIndex(out)) : readFileOk(out, readerIndex(out), p)

(***************************************************************************)
(* CompileEnds: every compilation comes to its end, also when its context  *)
(* ends while a batch waits for its workers.                               *)
(***************************************************************************)
CompileEnds == pc # "idle" ~> pc \in {"ok", "error", "killed"}
=============================================================================
