---------------------------- MODULE MemoryCache ----------------------------
(***************************************************************************)
(* One file and the copies the server keeps of it in memory: the entry of  *)
(* internal/assetcache, which requests, warm-up and events fill and which  *)
(* rescans and removals delete, and the body in the prepared snapshot.     *)
(*                                                                         *)
(* A content is also its hash, and an edit may bring back one that was     *)
(* there before.  The ETag in the catalog is the one that the last rescan  *)
(* has hashed.  The artifact of a generated variant has its source's hash  *)
(* in its path: it comes and goes, and its content stays, as far as        *)
(* Generation says.  So does, for a client, that of a compressed sidecar,  *)
(* which must decode to the asset.                                         *)
(***************************************************************************)
EXTENDS MemoryPolicy, Sequences

CONSTANTS
    Requests,
    Formats,     \* ?format= of requests for the file: they share its entry
    SizeOf,      \* the contents' sizes
    Files,       \* where the file may be, with its class
    MaxEdits,    \* bound: edits and removals
    MaxPreloads  \* bound: loads of warm-up and of events

ASSUME MemoryCacheAssumption ==
    /\ SizeOf \in Seq(Nat) /\ SizeOf # <<>> /\ MaxEdits \in Nat /\ MaxPreloads \in Nat /\ "nobody" \notin Requests
    /\ Files \subseteq {"source"} \X (Classes \ {"variant"}) \cup {<<"artifact", "variant">>}

VARIABLES
    place,       \* the file is in the "source" or an "artifact"
    class,       \* of the policy
    prepared,    \* the server answers from a prepared snapshot
    disk,        \* content of the file; Gone
    listed,      \* the content the catalog has the hash of; Gone: not listed
    enabled,     \* the cache has not been stopped
    entry,       \* what Get finds, or NoEntry
    setBuf,      \* ristretto: sets and deletions still to be applied
    flight,      \* singleflight: the request that loads, or Nobody
    req,         \* the requests
    pre,         \* the preload under way
    upd,         \* the rescan or the cleaner
    snap,        \* the prepared response
    comp,        \* its compilation
    dirty,       \* the catalog has changed since the last compilation began
    overlap,     \* history: see StaleOnlyByOverlap
    takenBack,   \* history: an edit was taken back before a rescan could see it
    edits, preloads

files == <<place, class, prepared, disk, listed>>
cache == <<enabled, entry, setBuf>>
history == <<overlap, takenBack>>
bounds == <<edits, preloads>>
vars == <<files, cache, flight, req, pre, upd, snap, comp, dirty, history, bounds>>

Gone == 0
Contents == DOMAIN SizeOf
NoEntry == [body |-> Gone]
Nobody == "nobody"
NoKey == <<>>
deletion == [body |-> Gone, key |-> NoKey, ttl |-> 0]

size(content) == IF content = Gone THEN 0 ELSE SizeOf[content]
newEntry(body, key, etag) == [body |-> body, key |-> key, ttl |-> TTL(class, size(etag))]

idleRequest == [pc |-> "idle", etag |-> Gone, format |-> NoKey, body |-> Gone, key |-> NoKey,
                disturbed |-> FALSE]
idlePreload == [pc |-> "idle", etag |-> Gone, body |-> Gone]
idleCompilation == [pc |-> "idle", etag |-> Gone, body |-> Gone]
idleUpdate == [pc |-> "idle", hash |-> Gone]

Init ==
    /\ \E f \in Files : place = f[1] /\ class = f[2]
    /\ prepared \in BOOLEAN
    /\ disk = 1 /\ listed = 1
    /\ enabled = TRUE /\ entry = NoEntry /\ setBuf = <<>> /\ flight = Nobody
    /\ req = [r \in Requests |-> idleRequest]
    /\ pre = idlePreload /\ upd = idleUpdate
    /\ snap = [etag |-> Gone, body |-> Gone] /\ dirty = prepared
    /\ comp = idleCompilation
    /\ overlap = FALSE /\ takenBack = FALSE /\ edits = 0 /\ preloads = 0

-----------------------------------------------------------------------------
(***************************************************************************)
(* ristretto.Cache: a Set replaces an entry that is there at once; a new   *)
(* one is buffered, unless the buffer is full, and may be turned away when *)
(* it is applied.  Del takes an entry out at once and once more when its   *)
(* turn in the buffer comes.                                               *)
(***************************************************************************)
Found == entry # NoEntry

Set(e) ==
    IF ~enabled THEN UNCHANGED <<entry, setBuf>>
    ELSE IF Found THEN entry' = e /\ UNCHANGED setBuf
    ELSE setBuf' \in {setBuf, Append(setBuf, e)} /\ UNCHANGED entry

Del == entry' = NoEntry /\ setBuf' = Append(setBuf, deletion)

ApplyBuffered ==
    /\ setBuf # <<>> /\ setBuf' = Tail(setBuf)
    /\ entry' \in IF Head(setBuf) = deletion THEN {NoEntry}
                  ELSE IF Found THEN {entry}
                  ELSE {NoEntry, Head(setBuf)}
    /\ UNCHANGED <<files, enabled, flight, req, pre, upd, snap, comp, dirty, history, bounds>>

\* An entry grows too old; one without a TTL never does.
Expire ==
    /\ Found /\ entry.ttl > 0 /\ entry' = NoEntry
    /\ UNCHANGED <<files, enabled, setBuf, flight, req, pre, upd, snap, comp, dirty, history, bounds>>

\* Cache.stop
Stop ==
    /\ enabled /\ enabled' = FALSE /\ entry' = NoEntry /\ setBuf' = <<>>
    /\ UNCHANGED <<files, flight, req, pre, upd, snap, comp, dirty, history, bounds>>

-----------------------------------------------------------------------------
(* Cache.Delete.  Who holds a body that it may still store?                *)

\* Mutation: only an entry that has served a request is deleted.
deleteServed == IF Found /\ entry.key # NoKey THEN Del ELSE UNCHANGED <<entry, setBuf>>

Delete == IF Found THEN Del ELSE UNCHANGED <<entry, setBuf>>

Held ==
    {req[r].body : r \in {q \in Requests : req[q].pc \in {"store", "attach"}}}
    \cup (IF pre.pc = "store" THEN {pre.body} ELSE {})
Buffered == {setBuf[i].body : i \in DOMAIN setBuf} \ {Gone}
outdates(hash, body) == hash = Gone \/ body \notin {hash, disk}

\* A Delete for the content that has been found on disk: which body is neither that
\* nor what has come to the disk since?
overlapsDelete(hash) ==
    \E body \in Held \cup Buffered : outdates(hash, body)

-----------------------------------------------------------------------------
(* A request through the resolver: sendResolvedAsset.                      *)

At(r, pc) == req[r].pc = pc
Goto(r, changed) == req' = [req EXCEPT ![r] = changed]
key(r) == <<req[r].etag, req[r].format>>
Quiet == upd.pc = "idle" /\ listed = disk /\ ~overlap /\ ~takenBack

Resolve(r) ==
    /\ At(r, "idle") /\ ~prepared /\ listed # Gone
    /\ \E f \in Formats :
         Goto(r, [req[r] EXCEPT !.etag = listed, !.format = f, !.disturbed = ~Quiet,
                                !.pc = IF enabled /\ ShouldServe(size(listed)) THEN "hot" ELSE "file"])
    /\ UNCHANGED <<files, cache, flight, pre, upd, snap, comp, dirty, history, bounds>>

ended(r, pc, body) ==
    [idleRequest EXCEPT !.pc = pc, !.etag = req[r].etag, !.body = body, !.disturbed = req[r].disturbed]
answered(r, body) == ended(r, "done", body)

\* trySendHotResolvedAsset: headers and body of the entry, if they are of this key.
SendHot(r) ==
    /\ At(r, "hot")
    /\ Goto(r, IF Found /\ entry.key = key(r) THEN answered(r, entry.body)
               ELSE [req[r] EXCEPT !.pc = "get"])
    /\ UNCHANGED <<files, cache, flight, pre, upd, snap, comp, dirty, history, bounds>>

\* getEntryWithRequest; a cache that has been stopped is an error.
GetEntry(r) ==
    /\ At(r, "get")
    /\ Goto(r, IF ~enabled THEN [req[r] EXCEPT !.pc = "file"]
               ELSE IF Found THEN [req[r] EXCEPT !.pc = "attach", !.body = entry.body, !.key = entry.key]
               ELSE [req[r] EXCEPT !.pc = "load"])
    /\ UNCHANGED <<files, cache, flight, pre, upd, snap, comp, dirty, history, bounds>>

\* loader.Do
LoadEntry(r) ==
    /\ At(r, "load")
    /\ flight' = IF flight = Nobody THEN r ELSE flight
    /\ Goto(r, [req[r] EXCEPT !.pc = IF flight = Nobody THEN "lead" ELSE "wait"])
    /\ UNCHANGED <<files, cache, pre, upd, snap, comp, dirty, history, bounds>>

\* All who have joined get the result of the one who loads.
delivered(body, k, pc) ==
    [r \in Requests |-> IF At(r, "wait") \/ r = flight
                        THEN [req[r] EXCEPT !.pc = pc, !.body = body, !.key = k] ELSE req[r]]

\* loadEntryOnce: another load may have ended meanwhile.
LoadFinds(r) ==
    /\ At(r, "lead") /\ Found
    /\ flight' = Nobody /\ req' = delivered(entry.body, entry.key, "attach")
    /\ UNCHANGED <<files, cache, pre, upd, snap, comp, dirty, history, bounds>>

\* readFile: the error of a missing file goes to all; nothing is read after stop.
ReadFile(r) ==
    /\ At(r, "lead") /\ ~Found
    /\ IF disk # Gone /\ enabled
       THEN Goto(r, [req[r] EXCEPT !.pc = "store", !.body = disk]) /\ UNCHANGED flight
       ELSE flight' = Nobody /\ req' = delivered(Gone, NoKey, IF place = "source" \/ ~enabled
                                                             THEN "file" ELSE "missing")
    /\ overlap' = (overlap \/ listed = Gone)
    /\ UNCHANGED <<files, cache, pre, upd, snap, comp, dirty, takenBack, bounds>>

StoreEntry(r) ==
    /\ At(r, "store")
    /\ Set(newEntry(req[r].body, key(r), req[r].etag))
    /\ flight' = Nobody /\ req' = delivered(req[r].body, key(r), "attach")
    /\ UNCHANGED <<files, enabled, pre, upd, snap, comp, dirty, history, bounds>>

\* ensureAttachment: the body is stored again with the headers of this request.
EnsureAttachment(r) ==
    /\ At(r, "attach")
    /\ Goto(r, answered(r, req[r].body))
    /\ IF req[r].key = key(r) THEN UNCHANGED <<entry, setBuf>>
       ELSE Set(newEntry(req[r].body, key(r), req[r].etag))
    /\ UNCHANGED <<files, enabled, flight, pre, upd, snap, comp, dirty, history, bounds>>

\* sendResolvedAssetFile
SendFile(r) ==
    /\ At(r, "file")
    /\ Goto(r, IF disk = Gone THEN ended(r, "failed", Gone) ELSE answered(r, disk))
    /\ UNCHANGED <<files, cache, flight, pre, upd, snap, comp, dirty, history, bounds>>

\* resolveAfterVariantArtifactMiss: the request goes on with another file.
DeleteMissing(r) ==
    /\ At(r, "missing") /\ Goto(r, ended(r, "failed", Gone))
    /\ Delete
    /\ listed' = IF place = "artifact" THEN Gone ELSE listed
    /\ UNCHANGED <<place, class, prepared, disk, enabled, flight, pre, upd, snap, comp,
                   dirty, history, bounds>>

-----------------------------------------------------------------------------
(***************************************************************************)
(* preloadPath, for Warm, for the cache warmer and for VariantGenerated:   *)
(* beside the loader, and without headers.                                 *)
(***************************************************************************)
\* warmCacheHotset, and Warm at the start: assets and variants are copied first
CopyHotset ==
    /\ pre.pc = "idle" /\ preloads < MaxPreloads /\ preloads' = preloads + 1
    /\ enabled /\ listed # Gone
    /\ pre' = [idlePreload EXCEPT !.pc = "copied", !.etag = listed]
    /\ UNCHANGED <<files, cache, flight, req, upd, snap, comp, dirty, history, edits>>

WarmSelected ==
    /\ pre.pc = "copied"
    /\ pre' = IF enabled /\ ~Found /\ ShouldWarm(class, size(pre.etag), "warm")
              THEN [pre EXCEPT !.pc = "read"] ELSE idlePreload
    /\ UNCHANGED <<files, cache, flight, req, upd, snap, comp, dirty, history, bounds>>

\* VariantGenerated
PreloadGenerated ==
    /\ pre.pc = "idle" /\ preloads < MaxPreloads /\ preloads' = preloads + 1
    /\ place = "artifact" /\ enabled /\ listed # Gone /\ ~Found
    /\ ShouldWarm(class, size(listed), "event")
    /\ pre' = [idlePreload EXCEPT !.pc = "read", !.etag = listed]
    /\ UNCHANGED <<files, cache, flight, req, upd, snap, comp, dirty, history, edits>>

PreloadReads ==
    /\ pre.pc = "read"
    /\ pre' = IF disk # Gone /\ enabled THEN [pre EXCEPT !.pc = "store", !.body = disk]
              ELSE idlePreload
    /\ overlap' = (overlap \/ listed = Gone)
    /\ UNCHANGED <<files, cache, flight, req, upd, snap, comp, dirty, takenBack, bounds>>

PreloadStores ==
    /\ pre.pc = "store" /\ pre' = idlePreload
    /\ Set(newEntry(pre.body, NoKey, pre.etag))
    /\ UNCHANGED <<files, enabled, flight, req, upd, snap, comp, dirty, history, bounds>>

-----------------------------------------------------------------------------
(* Who changes the file and the catalog.                                   *)

underWay(r) == req[r].pc \notin {"idle", "done", "failed"}

\* What the catalog has, or is about to be told, the content of the file is
known == IF upd.pc = "idle" THEN listed ELSE upd.hash

\* The file gets a new content, or one that it had before, or is removed.
Edit ==
    /\ place = "source" /\ edits < MaxEdits /\ edits' = edits + 1
    /\ \E content \in ({Gone} \cup Contents) \ {disk} :
          /\ disk' = content
          /\ takenBack' = (takenBack \/ content = known)
    /\ req' = [r \in Requests |-> [req[r] EXCEPT !.disturbed = @ \/ underWay(r)]]
    /\ UNCHANGED <<place, class, prepared, listed, cache, flight, pre, upd, snap, comp, dirty,
                   overlap, preloads>>

(***************************************************************************)
(* upsertAssetAndSidecars and syncScannedAsset: the content is hashed; if  *)
(* it has changed, the entry is deleted, and then the catalog is told.  A  *)
(* new asset deletes nothing.  A removed asset leaves the catalog first.   *)
(***************************************************************************)
HashSource ==
    /\ place = "source" /\ upd.pc = "idle" /\ disk # listed
    /\ upd' = [pc |-> IF listed = Gone THEN "upsert" ELSE "invalidate", hash |-> disk]
    /\ listed' = IF disk = Gone THEN Gone ELSE listed
    /\ dirty' = (dirty \/ (prepared /\ disk = Gone))
    /\ UNCHANGED <<place, class, prepared, disk, cache, flight, req, pre, snap, comp,
                   history, bounds>>

\* The cleaner removes an artifact; the pipeline writes it again.
RemoveArtifact ==
    /\ place = "artifact" /\ upd.pc = "idle" /\ disk # Gone /\ edits < MaxEdits /\ edits' = edits + 1
    /\ disk' = Gone /\ listed' = Gone /\ upd' = [pc |-> "invalidate", hash |-> Gone]
    /\ dirty' = prepared
    /\ UNCHANGED <<place, class, prepared, cache, flight, req, pre, snap, comp, history,
                   preloads>>

GenerateArtifact ==
    /\ place = "artifact" /\ disk = Gone
    /\ disk' = 1 /\ listed' = 1 /\ dirty' = prepared
    /\ UNCHANGED <<place, class, prepared, cache, flight, req, pre, upd, snap, comp,
                   history, bounds>>

\* invalidateAssetAndVariants, or the VariantRemoved event.
Invalidate ==
    /\ upd.pc = "invalidate" /\ Delete
    /\ upd' = IF upd.hash = Gone THEN idleUpdate ELSE [upd EXCEPT !.pc = "upsert"]
    /\ overlap' = overlapsDelete(upd.hash) /\ takenBack' = FALSE
    /\ UNCHANGED <<files, enabled, flight, req, pre, snap, comp, dirty, bounds>>

\* Delete waits until its deletion has been applied.
UpsertAsset ==
    /\ upd.pc = "upsert" /\ \A i \in DOMAIN setBuf : setBuf[i] # deletion
    /\ listed' = upd.hash /\ upd' = idleUpdate /\ dirty' = prepared
    /\ UNCHANGED <<place, class, prepared, disk, cache, flight, req, pre, snap, comp,
                   history, bounds>>

-----------------------------------------------------------------------------
(* preparedCompiler: the catalog first, the body later; then it is served. *)

Compile ==
    /\ prepared /\ dirty /\ comp.pc = "idle" /\ dirty' = FALSE
    /\ comp' = [pc |-> "body", etag |-> listed, body |-> Gone]
    /\ UNCHANGED <<files, cache, flight, req, pre, upd, snap, history, bounds>>

\* compileBody: nothing if it is too large or cannot be read.
CompileBody ==
    /\ comp.pc = "body"
    /\ comp' = [comp EXCEPT !.pc = "publish",
                            !.body = IF comp.etag # Gone /\ ShouldServe(size(comp.etag)) THEN disk ELSE Gone]
    /\ UNCHANGED <<files, cache, flight, req, pre, upd, snap, dirty, history, bounds>>

\* Mutation: a change during a compilation is taken to be part of it.
PublishAsNewest ==
    /\ comp.pc = "publish" /\ dirty' = FALSE
    /\ snap' = [etag |-> comp.etag, body |-> comp.body] /\ comp' = idleCompilation
    /\ UNCHANGED <<files, cache, flight, req, pre, upd, history, bounds>>

PublishSnapshot ==
    /\ comp.pc = "publish"
    /\ snap' = [etag |-> comp.etag, body |-> comp.body] /\ comp' = idleCompilation
    /\ UNCHANGED <<files, cache, flight, req, pre, upd, dirty, history, bounds>>

-----------------------------------------------------------------------------
Handle(r) ==
    \/ Resolve(r) \/ SendHot(r) \/ GetEntry(r) \/ LoadEntry(r) \/ LoadFinds(r) \/ ReadFile(r)
    \/ StoreEntry(r) \/ EnsureAttachment(r) \/ SendFile(r) \/ DeleteMissing(r)
Update == HashSource \/ Invalidate \/ UpsertAsset
CompileSnapshot == Compile \/ CompileBody \/ PublishSnapshot

Preload == WarmSelected \/ PreloadReads \/ PreloadStores

Next ==
    \/ \E r \in Requests : Handle(r)
    \/ ApplyBuffered \/ Expire \/ Stop \/ CopyHotset \/ PreloadGenerated \/ Preload
    \/ Edit \/ Update \/ RemoveArtifact \/ GenerateArtifact \/ CompileSnapshot

(***************************************************************************)
(* Goroutines run on; a rescan follows an edit (SourceSync); ristretto     *)
(* applies its buffer and drops what is too old.                           *)
(***************************************************************************)
Fairness ==
    /\ \A r \in Requests : WF_vars(Handle(r))
    /\ WF_vars(Update) /\ WF_vars(CompileSnapshot)
    /\ WF_vars(Preload) /\ WF_vars(ApplyBuffered) /\ WF_vars(Expire)

Spec == Init /\ [][Next]_vars /\ Fairness

-----------------------------------------------------------------------------
(***************************************************************************)
(* StaleOnlyByOverlap: when the rescan has caught up with the disk, the    *)
(* cached body is the one on disk, and a request during which nothing was  *)
(* edited sends the content its ETag names.  There are two exceptions.     *)
(* overlap: a load or a re-attachment has the old body when Delete runs,   *)
(* or has put it into the buffer, or reads the file of an asset that is    *)
(* not listed any more.  takenBack: the file returns to the content of the *)
(* catalog, or of the rescan under way, so that the next rescan finds      *)
(* nothing to delete, although what was there in between may be cached.    *)
(***************************************************************************)
StaleOnlyByOverlap ==
    /\ Quiet /\ listed # Gone /\ Found => entry.body = disk
    /\ \A r \in Requests :
         At(r, "done") /\ ~req[r].disturbed => req[r].body = req[r].etag

(***************************************************************************)
(* PreparedBodyMatchesETag: a compilation may read another body than the   *)
(* one whose ETag it has from the catalog, but once the rescan and the     *)
(* rebuild it asks for are done, body and ETag are those of the disk,      *)
(* unless an edit was taken back: then no rescan asks for a rebuild.       *)
(***************************************************************************)
PreparedBodyMatchesETag ==
    prepared /\ ~dirty /\ comp.pc = "idle" /\ upd.pc = "idle" /\ listed = disk /\ ~takenBack =>
        snap.etag = disk /\ snap.body \in {Gone, disk}

(***************************************************************************)
(* StaleGoesAway: even what these leave in the cache does not stay there: in *)
(* the end every request is answered and the entry is gone or current.     *)
(***************************************************************************)
StaleGoesAway ==
    <>[](/\ \A r \in Requests : ~underWay(r)
         /\ Found /\ listed # Gone => entry.body = disk)
=============================================================================
