------------------------------ MODULE Delivery ------------------------------
(***************************************************************************)
(* How the server answers requests for one asset while its variants come   *)
(* and go (internal/server asset_route.go, asset_delivery.go,              *)
(* prepared_delivery.go).  A handler chooses a representation, from the    *)
(* prepared snapshot or through the resolver, and only then opens the      *)
(* file.  An artifact that is gone by then is dropped from the catalog and *)
(* the handler chooses again.                                              *)
(*                                                                         *)
(* A variant is a number: its place in the order the client prefers them   *)
(* (module Negotiation).  The asset itself comes last, and its file stays. *)
(* After it come those of another asset, which a path may lead to when the *)
(* retry of the prepared route cleans it for the second time.              *)
(***************************************************************************)
EXTENDS Integers, FiniteSets

CONSTANTS
    Requests,        \* handler goroutines
    NumVariants,     \* variants the asset may have
    NumOthers,       \* variants the other asset may have
    Rerouted,        \* requests whose path may lead elsewhere when it is cleaned again
    Cacheable,       \* representations small enough for memory
    maxVariantFallbackAttempts,
    MaxChanges       \* bound: artifacts removed or generated, requested rebuilds that fail

ASSUME DeliveryAssumption ==
    /\ NumVariants \in Nat /\ NumOthers \in Nat /\ MaxChanges \in Nat
    /\ maxVariantFallbackAttempts \in Nat
    /\ Rerouted \subseteq Requests
    /\ Cacheable \subseteq 1..(NumVariants + NumOthers + 2)

Identity == NumVariants + 1
OtherIdentity == Identity + NumOthers + 1
Representations == 1..OtherIdentity
Variants == Representations \ {Identity, OtherIdentity}
None == 0

VARIABLES
    prepared,  \* whether the server runs with a prepared snapshot
    files,     \* artifacts on disk
    listed,    \* variants in the catalog
    snapshot,  \* [variants, bodies] of the prepared snapshot
    stale,     \* an event has asked for a rebuild that has not been made
    cache,     \* representations in the memory cache
    removing,  \* artifacts removed by the cleaner and still in the catalog
    writing,   \* artifacts written and not yet in the catalog
    req,       \* the requests
    changes    \* what MaxChanges bounds, so far

store == <<prepared, files, listed, snapshot, stale, cache, removing, writing, changes>>
vars == <<store, req>>

newRequest(accepts, part, recleaned) ==
    [pc |-> "choose", accepts |-> accepts, part |-> part, recleaned |-> recleaned,
     choice |-> None, body |-> "file", misses |-> 0, encoding |-> None, status |-> "none",
     reported |-> None]

\* Where the path of a request leads to when it is cleaned again
Cleaned == {"same", "other", "none"}

newRequests ==
    {newRequest(a, b, c) : a \in SUBSET Variants, b \in {"whole", "range"}, c \in Cleaned}

(***************************************************************************)
(* The first of the variants of an asset that the client accepts, else the *)
(* asset, whose number is the bound.                                       *)
(***************************************************************************)
least(candidates) == CHOOSE v \in candidates : \A u \in candidates : v <= u
best(available, r) ==
    least({v \in available \cap req[r].accepts : v < Identity} \cup {Identity})
bestOfOther(available, r) ==
    least({v \in available \cap req[r].accepts : v > Identity} \cup {OtherIdentity})

OnDisk(v) == v \in {Identity, OtherIdentity} \/ v \in files

(***************************************************************************)
(* Compile: a response for every listed variant; the body goes with it if  *)
(* it may be kept in memory and can be read.                               *)
(***************************************************************************)
Compile ==
    [variants |-> listed, bodies |-> {v \in Cacheable : OnDisk(v) /\ (v \in Variants => v \in listed)}]

contentEncoding(v) == IF v \in Variants THEN v ELSE None

At(r, pc) == req[r].pc = pc
Goto(r, changed) == req' = [req EXCEPT ![r] = changed]
ended(q, status, reported) ==
    [q EXCEPT !.pc = "done", !.status = status, !.reported = reported]

\* publishVariantServed says nothing of the asset itself.
reportedVariant(v) == IF v \in Variants THEN v ELSE None
missed(q) == [q EXCEPT !.misses = @ + 1]

\* Whether the client accepts variants of the other asset matters only where it is led there.
Init ==
    /\ prepared \in BOOLEAN
    /\ files \in SUBSET Variants /\ listed = Variants
    /\ snapshot = Compile
    /\ stale = FALSE /\ cache = {} /\ removing = {} /\ writing = {} /\ changes = 0
    /\ req \in [Requests -> newRequests]
    /\ \A r \in Requests :
         /\ ~prepared \/ r \notin Rerouted => req[r].recleaned = "same"
         /\ req[r].recleaned # "other" => req[r].accepts \subseteq 1..NumVariants

-----------------------------------------------------------------------------
(* sendPreparedAsset *)

\* A range is always cut from the file.
preparedBody(v, r) ==
    IF v \in snapshot.bodies /\ req[r].part = "whole" THEN "memory" ELSE "file"

PreparedResolve(r) ==
    LET v == best(snapshot.variants, r) IN
    /\ prepared /\ At(r, "choose")
    /\ Goto(r, [req[r] EXCEPT !.pc = "send", !.choice = v,
                              !.body = preparedBody(v, r)])
    /\ UNCHANGED store

(***************************************************************************)
(* applyPreparedHeaders sets the headers a response has and leaves the     *)
(* others as they are.                                                     *)
(***************************************************************************)
withPreparedHeaders(q) ==
    [q EXCEPT !.encoding = IF q.choice \in Variants THEN contentEncoding(q.choice) ELSE q.encoding]

\* Mutation: a file that is gone is an error at once.
SendPreparedOrFail(r) ==
    LET q == withPreparedHeaders(req[r]) IN
    /\ prepared /\ At(r, "send")
    /\ IF req[r].body = "memory" \/ OnDisk(req[r].choice)
       THEN Goto(r, ended(q, "ok", None))
       ELSE Goto(r, ended(q, "error", None))
    /\ UNCHANGED store

(***************************************************************************)
(* sendPreparedAsset: no body for HEAD or for a client whose copy is       *)
(* fresh.  Once something has been missed, the outer call knows nothing of *)
(* what was sent instead, and reports nothing.                             *)
(***************************************************************************)
SendPrepared(r) ==
    LET q == withPreparedHeaders(req[r]) IN
    /\ prepared /\ At(r, "send")
    /\ \/ Goto(r, ended(q, "empty", None))
       \/ /\ req[r].body = "memory" \/ OnDisk(req[r].choice)
          /\ Goto(r, ended(q, "ok", IF q.misses = 0 THEN reportedVariant(q.choice) ELSE None))
       \/ /\ req[r].body = "file" /\ ~OnDisk(req[r].choice)
          /\ Goto(r, [missed(q) EXCEPT !.pc = "delete"])
    /\ UNCHANGED store

(***************************************************************************)
(* retryPreparedArtifactMiss and DeleteVariantArtifact: a variant that the *)
(* catalog does not list any more ends the request with an error, else the *)
(* snapshot is rebuilt here and the request chooses again.                 *)
(***************************************************************************)
DeleteVariantArtifact(r) ==
    /\ At(r, "delete")
    /\ listed' = listed \ {req[r].choice}
    /\ Goto(r, IF req[r].choice \in listed THEN [req[r] EXCEPT !.pc = "rebuild"]
               ELSE ended(req[r], "error", None))
    /\ UNCHANGED <<prepared, files, snapshot, stale, cache, removing, writing, changes>>

\* Mutation: the rebuild is left to the worker.
AwaitRebuild(r) ==
    /\ At(r, "rebuild") /\ req[r].choice \notin snapshot.variants
    /\ Goto(r, [req[r] EXCEPT !.pc = "again"])
    /\ UNCHANGED store

RebuildAfterDelete(r) ==
    /\ At(r, "rebuild")
    /\ snapshot' = Compile
    /\ Goto(r, [req[r] EXCEPT !.pc = "again"])
    /\ UNCHANGED <<prepared, files, listed, stale, cache, removing, writing, changes>>

\* A failed rebuild is logged, and the request goes on with the old snapshot.
FailRebuildAfterDelete(r) ==
    /\ changes < MaxChanges /\ At(r, "rebuild")
    /\ changes' = changes + 1
    /\ Goto(r, [req[r] EXCEPT !.pc = "again"])
    /\ UNCHANGED <<prepared, files, listed, snapshot, stale, cache, removing, writing>>

(***************************************************************************)
(* newPreparedRequest of the retry cleans request.Path, which is a cleaned *)
(* path already: without the slash at its end "v1.2/" does not fall back   *)
(* any more, and what is left of an escaped path is unescaped once more.   *)
(***************************************************************************)
resolvesAgain(r) ==
    CASE req[r].recleaned = "same" -> best(snapshot.variants, r)
      [] req[r].recleaned = "other" -> bestOfOther(snapshot.variants, r)
      [] OTHER -> None

\* Mutation: the headers of the missing variant stay.
RetryKeepingHeaders(r) ==
    LET v == resolvesAgain(r) IN
    /\ At(r, "again")
    /\ Goto(r, IF v \in {None, req[r].choice} THEN ended(req[r], "error", None)
               ELSE [req[r] EXCEPT !.pc = "send", !.choice = v,
                                   !.body = preparedBody(v, r)])
    /\ UNCHANGED store

(***************************************************************************)
(* No asset or the same file again is an error; otherwise the headers      *)
(* listed in preparedManagedResponseHeaders are deleted before the next is *)
(* sent.                                                                   *)
(***************************************************************************)
RetryPrepared(r) ==
    LET v == resolvesAgain(r) IN
    /\ At(r, "again")
    /\ Goto(r, IF v \in {None, req[r].choice} THEN ended(req[r], "error", None)
               ELSE [req[r] EXCEPT !.pc = "send", !.choice = v, !.encoding = None,
                                   !.body = preparedBody(v, r)])
    /\ UNCHANGED store

-----------------------------------------------------------------------------
(* sendResolvedAssetWithVariantFallback *)

Resolve(r) ==
    /\ ~prepared /\ At(r, "choose")
    /\ Goto(r, [req[r] EXCEPT !.pc = "send", !.choice = best(listed, r)])
    /\ UNCHANGED store

ShouldServeRequest(r) == req[r].choice \in Cacheable /\ req[r].part = "whole"

\* retryResolvedAssetDelivery: a first attempt and maxVariantFallbackAttempts more.
lastAttempt(q) == q.misses = maxVariantFallbackAttempts

\* resolvedHeaderPlan.Apply sets or deletes every optional header.
withResolvedHeaders(q) == [q EXCEPT !.encoding = contentEncoding(q.choice)]

(***************************************************************************)
(* sendResolvedAsset: from the cache, or from the file, which then goes to *)
(* the cache.  A missing variant is tried again a bounded number of times. *)
(***************************************************************************)
SendResolved(r) ==
    LET q == withResolvedHeaders(req[r])
        v == q.choice
        cached == ShouldServeRequest(r) /\ v \in cache
    IN
    /\ ~prepared /\ At(r, "send")
    /\ \/ Goto(r, ended(q, "empty", None)) /\ UNCHANGED cache
       \/ /\ cached \/ OnDisk(v)
          /\ Goto(r, ended(q, "ok", reportedVariant(v)))
          /\ cache' = IF ShouldServeRequest(r) THEN cache \cup {v} ELSE cache
       \/ /\ ~cached /\ ~OnDisk(v)
          /\ Goto(r, IF lastAttempt(q)
                     THEN ended(missed(q), "error", None)
                     ELSE [missed(q) EXCEPT !.pc = "forget"])
          /\ UNCHANGED cache
    /\ UNCHANGED <<prepared, files, listed, snapshot, stale, removing, writing, changes>>

(***************************************************************************)
(* resolveAfterVariantArtifactMiss: whether or not the catalog still lists *)
(* the variant, it is resolved anew.                                       *)
(***************************************************************************)
ForgetMissing(r) ==
    /\ At(r, "forget")
    /\ cache' = cache \ {req[r].choice}
    /\ listed' = listed \ {req[r].choice}
    /\ Goto(r, [req[r] EXCEPT !.pc = "choose"])
    /\ UNCHANGED <<prepared, files, snapshot, stale, removing, writing, changes>>

-----------------------------------------------------------------------------
(* The artifact cleaner, the pipeline and the rebuild worker *)

RemoveFile(v) ==
    /\ changes < MaxChanges /\ v \in files \ writing
    /\ files' = files \ {v} /\ removing' = removing \cup {v} /\ changes' = changes + 1
    /\ UNCHANGED <<prepared, listed, snapshot, stale, cache, writing, req>>

RemoveVariant(v) ==
    /\ v \in removing
    /\ listed' = listed \ {v} /\ removing' = removing \ {v} /\ stale' = TRUE
    /\ UNCHANGED <<prepared, files, snapshot, cache, writing, changes, req>>

WriteArtifact(v) ==
    /\ changes < MaxChanges /\ (v \notin listed \/ v \notin files) /\ v \notin writing
    /\ files' = files \cup {v} /\ writing' = writing \cup {v} /\ changes' = changes + 1
    /\ UNCHANGED <<prepared, listed, snapshot, stale, cache, removing, req>>

UpsertVariant(v) ==
    /\ v \in writing
    /\ listed' = listed \cup {v} /\ writing' = writing \ {v} /\ stale' = TRUE
    /\ UNCHANGED <<prepared, files, snapshot, cache, removing, changes, req>>

(***************************************************************************)
(* The memory cache, which only the resolved route reads: warm-up and      *)
(* VariantGenerated load a file into it; VariantRemoved, evictions and     *)
(* entries that are too old take it out.                                   *)
(***************************************************************************)
Preload(v) ==
    /\ ~prepared /\ v \in Cacheable \ cache /\ v \in files \cap listed
    /\ cache' = cache \cup {v}
    /\ UNCHANGED <<prepared, files, listed, snapshot, stale, removing, writing, changes, req>>

Evict(v) ==
    /\ ~prepared /\ v \in cache
    /\ cache' = cache \ {v}
    /\ UNCHANGED <<prepared, files, listed, snapshot, stale, removing, writing, changes, req>>

Rebuild ==
    /\ prepared /\ stale
    /\ snapshot' = Compile /\ stale' = FALSE
    /\ UNCHANGED <<prepared, files, listed, cache, removing, writing, changes, req>>

\* rebuildOnce logs the error and does not try again.
FailRebuild ==
    /\ prepared /\ stale
    /\ stale' = FALSE
    /\ UNCHANGED <<prepared, files, listed, snapshot, cache, removing, writing, changes, req>>

-----------------------------------------------------------------------------
Handle(r) ==
    \/ PreparedResolve(r) \/ SendPrepared(r) \/ DeleteVariantArtifact(r)
    \/ RebuildAfterDelete(r) \/ FailRebuildAfterDelete(r) \/ RetryPrepared(r)
    \/ Resolve(r) \/ SendResolved(r) \/ ForgetMissing(r)

Next ==
    \/ \E r \in Requests : Handle(r)
    \/ \E v \in Variants : RemoveFile(v) \/ RemoveVariant(v) \/ WriteArtifact(v) \/ UpsertVariant(v)
    \/ \E v \in Representations : Preload(v) \/ Evict(v)
    \/ Rebuild \/ FailRebuild

Spec == Init /\ [][Next]_vars

\* A goroutine that handles a request runs on until it is done.
FairSpec == Spec /\ \A r \in Requests : WF_vars(Handle(r))

-----------------------------------------------------------------------------
RequestStates ==
    [pc : {"choose", "send", "delete", "rebuild", "again", "forget", "done"},
     accepts : SUBSET Variants, part : {"whole", "range"}, recleaned : Cleaned,
     choice : Representations \cup {None},
     body : {"memory", "file"}, misses : Nat, encoding : Variants \cup {None},
     status : {"none", "ok", "empty", "error"}, reported : Variants \cup {None}]

TypeOK ==
    /\ prepared \in BOOLEAN
    /\ files \subseteq Variants /\ listed \subseteq Variants
    /\ snapshot \in [variants : SUBSET Variants, bodies : SUBSET Representations]
    /\ stale \in BOOLEAN /\ cache \subseteq Representations
    /\ removing \subseteq Variants /\ writing \subseteq Variants /\ changes \in 0..MaxChanges
    /\ req \in [Requests -> RequestStates]

(***************************************************************************)
(* A body is sent under its own Content-Encoding, however many variants    *)
(* were tried and missed before it, and a variant that is reported as      *)
(* served is the one that was sent.                                        *)
(***************************************************************************)
HeadersMatchBody ==
    \A r \in Requests : req[r].status = "ok" =>
        /\ req[r].encoding = contentEncoding(req[r].choice)
        /\ req[r].reported \in {None, req[r].encoding}
        /\ req[r].choice \in Variants => req[r].choice \in req[r].accepts

(***************************************************************************)
(* A request whose variant is missing is answered with something else; the *)
(* asset's own file is always there.  Two requests that miss one artifact  *)
(* violate it, and so does one whose path leads nowhere when it is cleaned *)
(* again.                                                                  *)
(***************************************************************************)
MissingVariantFallsBack == \A r \in Requests : req[r].status # "error"

(***************************************************************************)
(* That much holds: while nothing changes, a request on the prepared route *)
(* is answered, whatever is missing, as long as no other misses anything   *)
(* and its path leads to an asset also when it is cleaned again.           *)
(***************************************************************************)
LoneMissFallsBack ==
    prepared /\ changes = 0 =>
        \A r \in Requests :
            (req[r].recleaned # "none" /\ \A s \in Requests \ {r} : req[s].misses = 0)
                => req[r].status # "error"

(***************************************************************************)
(* Through the resolver, a request fails only after it has missed one      *)
(* artifact more often than it may retry, whatever others do meanwhile.    *)
(***************************************************************************)
ErrorOnlyAfterAllAttempts ==
    ~prepared =>
        \A r \in Requests :
            req[r].status = "error" => req[r].misses > maxVariantFallbackAttempts

(***************************************************************************)
(* Every request ends.                                                     *)
(***************************************************************************)
RequestsEnd == \A r \in Requests : <>(req[r].pc = "done")
=============================================================================
