---------------------------- MODULE BundleFormat ----------------------------
(***************************************************************************)
(* The archive of internal/spackbundle: a tar stream whose first entry is  *)
(* the index and whose other entries are the payloads the index declares.  *)
(* What Verify, an extraction and a Reader accept of an archive that may   *)
(* come from anywhere.                                                     *)
(*                                                                         *)
(* A body is named by what it says; its SHA-256 is that name, so two       *)
(* bodies have the same digest only if they are the same.                  *)
(***************************************************************************)
EXTENDS Integers, Sequences, FiniteSets, FiniteSetsExt

CONSTANTS
    Bodies,             \* what files can hold
    SizeOf,             \* the size of each
    MaxBundleFiles,     \* bundleLimits.files
    MaxExpandedBytes,   \* bundleLimits.expandedBytes
    MaxFileBytes        \* bundleLimits.fileBytes

(***************************************************************************)
(* Entries of the archive.  A path that is unsafe, absolute or inside the  *)
(* reserved .spack directory is Unsafe; an entry that is no regular file   *)
(* or is cut short has no body.                                            *)
(***************************************************************************)
IndexPath == ".spack/index.bin"
Unsafe == "unsafe"
NoBody == "none"
indexEntry(files) == [path |-> IndexPath, files |-> files]
payloadEntry(path, body) == [path |-> path, body |-> body]
indexFile(path, size, sha, etag) == [path |-> path, size |-> size, sha |-> sha, etag |-> etag]

ASSUME LimitsAssumption ==
    /\ SizeOf \in [Bodies -> Nat] /\ NoBody \notin Bodies
    /\ MaxBundleFiles \in Nat /\ MaxExpandedBytes \in Nat /\ MaxFileBytes \in Nat

\* An archive is a sequence of entries, whatever they are.
isArchive(bundle) == bundle \in Seq({bundle[i] : i \in DOMAIN bundle})

headerSize(e) == IF e.body = NoBody THEN 0 ELSE SizeOf[e.body]

\* cleanTarEntryPath
cleanTarEntryPath(e) == e.path # Unsafe

(***************************************************************************)
(* bundleBudget: files and bytes counted so far.                           *)
(***************************************************************************)
noBudget == [files |-> 0, bytes |-> 0]
budgetAllows(budget, size) ==
    /\ size >= 0
    /\ budget.files < MaxBundleFiles
    /\ size <= MaxExpandedBytes - budget.bytes
budgetAdd(budget, size) == [files |-> budget.files + 1, bytes |-> budget.bytes + size]

\* The sizes fit one after the other: there is a budget for all of them.
withinBudget(sizes) ==
    /\ Cardinality(DOMAIN sizes) <= MaxBundleFiles
    /\ MapThenSumSet(LAMBDA i : sizes[i], DOMAIN sizes) <= MaxExpandedBytes

(***************************************************************************)
(* validateIndex: every declared path once, normalized, with a digest, and *)
(* all of them within the limits.                                          *)
(***************************************************************************)
validateIndexFile(file) ==
    /\ file.path \notin {Unsafe, IndexPath}
    /\ 0 <= file.size /\ file.size <= MaxFileBytes
    /\ file.sha \in Bodies
validateIndex(files) ==
    /\ \A i \in DOMAIN files : validateIndexFile(files[i])
    /\ \A i, j \in DOMAIN files : files[i].path = files[j].path => i = j
    /\ withinBudget([i \in DOMAIN files |-> files[i].size])

declaredPaths(files) == {files[i].path : i \in DOMAIN files}
fileOf(files, path) == files[CHOOSE i \in DOMAIN files : files[i].path = path]

(***************************************************************************)
(* readBundleIndex: the first entry.                                       *)
(***************************************************************************)
hasIndex(bundle) ==
    /\ bundle # <<>>
    /\ bundle[1].path = IndexPath
    /\ validateIndex(bundle[1].files)

(***************************************************************************)
(* lookupPayloadEntry with verifyTarEntry; extractTarEntry asks the same   *)
(* of an entry, and that its file can be created.                          *)
(***************************************************************************)
verifyCopiedPayload(expected, body) == SizeOf[body] = expected.size /\ body = expected.sha

verifyPayloadEntry(e, files, seen) ==
    /\ cleanTarEntryPath(e) /\ e.path \in declaredPaths(files) /\ e.path \notin seen
    /\ e.body # NoBody
    /\ verifyCopiedPayload(fileOf(files, e.path), e.body)

payloads(bundle) == SubSeq(bundle, 2, Len(bundle))

(***************************************************************************)
(* verifyBundleEntries with ensureAllIndexFilesSeen: the payloads are the  *)
(* declared files, each once, each with its size and digest.               *)
(***************************************************************************)
verifyBundleEntries(bundle) ==
    LET entries == payloads(bundle)
        seenBefore(i) == {entries[j].path : j \in 1..(i - 1)}
    IN  /\ \A i \in DOMAIN entries : entries[i].path # IndexPath
        /\ withinBudget([i \in DOMAIN entries |-> headerSize(entries[i])])
        /\ \A i \in DOMAIN entries : verifyPayloadEntry(entries[i], bundle[1].files, seenBefore(i))
        /\ declaredPaths(bundle[1].files) \subseteq {entries[i].path : i \in DOMAIN entries}

Verify(bundle) == hasIndex(bundle) /\ verifyBundleEntries(bundle)

(***************************************************************************)
(* readBundleEntry: the first entry with the path, wherever it stands, if  *)
(* no entry before it has an unsafe path.                                  *)
(***************************************************************************)
entriesAt(bundle, path) == {i \in DOMAIN bundle : bundle[i].path = path}
firstEntryAt(bundle, path) ==
    CHOOSE i \in entriesAt(bundle, path) : \A j \in entriesAt(bundle, path) : i <= j
entryFound(bundle, path) ==
    /\ entriesAt(bundle, path) # {}
    /\ \A j \in 1..firstEntryAt(bundle, path) : cleanTarEntryPath(bundle[j])

readerIndexOk(bundle) ==
    /\ entryFound(bundle, IndexPath)
    /\ validateIndex(bundle[firstEntryAt(bundle, IndexPath)].files)
readerIndex(bundle) == bundle[firstEntryAt(bundle, IndexPath)].files

\* Reader.ReadFile of a declared path, with the index the reader has loaded.
readFileOk(bundle, files, path) ==
    /\ path \in declaredPaths(files)
    /\ entryFound(bundle, path)
    /\ LET body == bundle[firstEntryAt(bundle, path)].body IN
       /\ body # NoBody
       /\ SizeOf[body] <= MaxFileBytes
       /\ verifyCopiedPayload(fileOf(files, path), body)
readFileBody(bundle, path) == bundle[firstEntryAt(bundle, path)].body
=============================================================================
